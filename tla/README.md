# A TLA+ verification of canonsys

canonsys executes *charters*: compliance workflows written in a small language, compiled
to phases with requirements, and run against PostgreSQL by concurrent web requests. This
directory holds TLA+ models of the parts whose correctness depends on interleavings,
partial failure and order, the TLC runs that check them on small instances, and TLAPS
proofs of the most important properties for every instance.

`PROJECT.json` lists the components, the runs, the mutants (a plausible bug for every
checked property, which TLC must find), the source lines every definition models, the
findings, the hazards and the theorems.

## 1. The system

Three layers under `src/`:

| Layer | What it is |
|---|---|
| `libs/kron` | generic machinery: events and operations, dependency-aware flows, sessions and exchange, services with rate limits, retries and circuit breakers, piles, graphs, typed specs |
| `libs/canon` | the charter language (`dsl`), the charter runtime (`runtime`), the executor (`hub`), enforcement of policies, entities, database access, migrations, services (metering, redaction, vendors), utilities (caches, policy engines, Merkle trees, KMS, time stamps) |
| `hub` | the vocabulary: *phrases*, i.e. checks and record updates (evidence, consent, certification, authorization, timing, ...), each an async function over a connection |

How they interact: the DSL compiles a charter; `runtime.workflow.start_workflow` creates a
run and its phases; users claim and complete phases; `runtime.cascade` evaluates
requirements (`require_eval`), activates downstream phases and closes the run;
`runtime.trigger` unblocks awaiting phases; `runtime.grants` gives assignees document
access while a phase is pending. Phrases are called from phase actions and gates and leave
evidence. kron flows execute DAGs of operations inside one process.

### Inventory

State, operations, what is hard, and what must hold. `PROJECT.json` lists all components,
also those that are left out, with the reason.

| Component | State | Operations that change it | What is hard | What must hold |
|---|---|---|---|---|
| charter runtime (`workflow`, `cascade`, `require_eval`, `phase_state`, `trigger`) | `charter_runs`, `phase_executions`, trigger evidence; per request: transaction, locals | `start_workflow`, claim, `on_phase_completed`, `on_phase_failed`, `fire_trigger`, `cancel_charter_run`, `complete_charter_run` | check-then-update in separate statements, joins completed concurrently, row locks and deadlock, a request dying between statements, autocommit versus transaction | dependencies first, no lost activation, nothing reopened, closed means done, the run ends |
| document grants (`grants`) | `document_access_tokens`, clock | create, check + record access, revoke, transfer | revocation between check and recording, a delegation failing half way, expiry in between | no access gap in a delegation |
| registry, roles, conditions, inbox | compiled charters in memory; sessions; waiting phases | lookup, register, invalidate; claims | a slow lookup stores what it read before an invalidation; several queries over the same rows | what is served was current during the lookup; inbox, badge and overdue list agree |
| charter compiler and executor (`dsl/resolver`, `hub/executor`) | phase graph; results of phases | sort, cycle search, run a phase | failures reaching what depends on them, repeated references | a cycle is found, order respects references, nothing passes on a failed requirement |
| kron flow (`operations/flow`, `core/event`, `utils/concurrency`) | tasks, events, limiter, result and error maps, task group | wait, acquire, invoke, settle, send, receive, cancel | slots versus dependencies, cancellation anywhere, operations that fail, raise, time out or already ran | predecessors first, limit respected, every operation settled, the flow ends |
| kron services (`model`, `endpoint`, `backend`, `hook`, `resilience`, `rate_limiter`) | tokens, circuit, status of a call, tasks of callers | acquire, release, invoke, retry, succeed, fail, time out, cancel | late answers, trial calls, one Calling invoked by several tasks | no call while the circuit is open, no token that time has not earned, called once, invoke returns |
| kron session, exchange, core | mailboxes; progressions with member sets; graph with adjacency tables; builder | send, collect, deliver, pop; add, remove, move, fork; add and remove nodes and edges | delivery to owners that leave, two structures for one fact, repeated members, refused calls | delivered once and as addressed, both structures agree, sorting and paths exact |
| evidence chains and packets | `evidences`, `chain_entrys`, `certified_evidence_packets` | emit, lock, save, link; create, seal | two writers read the same latest entry, dying between evidence and entry, altered rows, two seals of one draft | verification exact, forks detected, one lock; what is accepted is sealed; expiry is final |
| record-keeping vocabularies (consent, certification, timing, charter, workflow, policy, notice) | a table or two each | grant, renew, revoke; emit, mint, sign, supersede; pause, resume, check; activate; complete; publish | a row read in one statement and written back in another, by overlapping requests that may be cut off | withdrawal is final, hashes cover the row, the minimum wait is kept, the active charter survives, evidence follows its run, a release pins what exists |
| checking vocabularies (authorization, core, freshness, pattern, scope, controls, identity, justification, legal, incident, data protection, AI governance, export control, corporate, deployment, infra) | records others write | few; break-glass, criteria locks | several phrases answer one question from different columns, orderings, boundaries | answers agree, boundaries meet, more time or information moves an answer one way |
| canon services and utilities (metering, caches, service levels, OPA engine pool, policy resolution and evaluation, data orchestration, Merkle batches, migration) | queues, batches, caches, windows, plans | borrow, poison, replace, drain; record, flush; fill, invalidate; fetch; run statements | failures in the middle, concurrent use, counts kept beside what they count | engines and usage are accounted for, quotas hold, failing closed, a finished plan leaves the declared schema |

## 2. How the project is organised

One module per component, with its state, its actions and its properties. Components that
do not share state are explored together by one suite (`MCVocab`, `MCChecks`, `MCKron`,
`MCPlatform`): its rigid variable `part` is chosen in the initial state and only the
component of that part moves. Every behaviour of a component is so a behaviour of the
suite, and the state spaces add up instead of multiplying. Theorems are in modules of
their own, eight of them: `CharterRuntimeProofs` and `CharterTransactionProofs` (the same
runtime when every call is one transaction), `CharterProofs` (charters, workflow runs and
document grants), `VocabularyProofs` (consent tokens and evidence packets), `RecordsProofs`
(certificates and policy releases), `ClockProofs` (waiting periods and model calls),
`KronProofs` (flow and exchange) and `PlatformProofs` (engine pool and caches).

`Rows` has the helpers of `canon.db.crud` and `entity_crud` as operators on a table, a
function from ids to rows; the vocabulary modules are built on it. `PausableClock` and
`RateMeter` are abstract specifications that detailed ones are shown to implement.

## 3. The modules

### CharterRuntime

One run of one workflow. A request (`Handlers`) executes one call, one SQL statement per
step. `status`, `run` and `evidence` are the committed tables; `tx[h]` holds the
uncommitted writes of request `h`, which lock their rows; `pc[h]` is its next statement and
`loc[h]` its local variables. `Transactional` chooses between the two connection modes of
`canon.db.connection`: with `transaction()` the writes are published by `Commit`, with
`connection()` every statement commits by itself. `Crash` lets a request die between any
two statements, `DeadlockVictim` is PostgreSQL's choice when two requests wait for each
other's rows. `completedOnce` is a history variable.

| Action | Code |
|---|---|
| `start_workflow` | `workflow.start_workflow` (one step: nobody else knows the run) |
| `BeginComplete` ... `SetCurrentPhase`, `EvaluateRequire`, `ActivateRead`, `ActivateWrite`, `CheckComplete`, `CompleteRun` | `cascade.on_phase_completed` and what it calls, statement by statement |
| `BeginFail`, `FailRun` | `cascade.on_phase_failed` |
| `BeginFire`, `TriggerUpdate`, ... | `trigger.fire_trigger`, row by row |
| `BeginCancel`, ... | `workflow.cancel_charter_run` |
| `FinishRun` | `complete_charter_run` called with an outcome |
| `claim_phase` | the inbox handing a phase to its assignee |

A charter is given by `Requires[p]`, a sequence of require nodes (phase references with
their condition, awaits, features, builtins), and `Awaits[p]`. Columns no decision reads
are left out; the UPDATE of `current_phase` stays because its row lock is what serialises
two cascades.

### DocumentGrants

The tokens of one run with a clock. An access is two steps (`check_document_access`,
`record_document_access`), a delegation one INSERT per grant and then the revocation.

### OperationFlow

`DependencyAwareExecutor.execute` over a DAG: one task per operation, a step being what a
task does between two await points; the completion events, the capacity limiter, the
`CompletionStream` with its task group, and `Event.invoke`, which turns exceptions into
statuses. `noBranch` is the set of operations that got no branch, chosen initially.

### EvidenceChain, EvidencePackets

Phrases as sequences of statements, each committed by itself; hashes are the tuples of what
is hashed, so that equal hashes mean equal inputs (an ideal hash function). The verifying
phrases are operators. Sorting by `sequence` leaves ties in any order, as PostgreSQL may.
`StorageNext` is an environment that alters or loses one stored row.

### The record-keeping vocabularies

`ConsentTokens`, `Certificates`, `WaitingPeriods`, `Charters`, `WorkflowRuns`,
`PolicyReleases`. A table is a variable, a request is what a client has read and has still
to write; every statement is a step and commits by itself, as the phrases use a connection
without opening a transaction. A request may be cut off between two statements. Phrases
that only read are operators.

| Module | Writing phrases | Reading phrases |
|---|---|---|
| `ConsentTokens` | `grant_consent_token`; `RevokeSelect`, `RenewSelect` and the UPDATE of the entity that was read; a cascade is a series of revocations | the listing, the history, four requirements, four constraint functions |
| `Certificates` | emit, mint (`MintSelect`, `MintUpdate`), certify, sign, supersede and revoke (`SupersedeSelect`, `SupersedeInsert`, `SupersedeUpdate`); time stamps, attestations, FCRA and termination certificates | integrity verification |
| `WaitingPeriods` | the NoticeService handlers and the timing phrases on the same evidence rows; adverse notices | what the newest row says |
| `Charters` | create, activate (select, retire one by one, activate) of two packages, ratify, surface bindings | resolution, history, decisions |
| `WorkflowRuns` | create and complete, steps, vendor calls, each followed by its evidence | `require_workflow_complete` |
| `PolicyReleases` | definitions, adapters, releases, publication | `resolve_policy` |

Rows other code writes (a suspension, an activation of a release) are external actions.

### The checking vocabularies

`Timing`, `PolicyChecks`, `CoreChecks`, `AuthorizationChecks`, `FreshnessChecks`,
`RiskChecks`, `GovernanceChecks`, `CorporateChecks`: the phrases are operators over rows
that external actions insert, age and withdraw; where the query has no order, or leaves
ties, an answer is a set of possible ones. Writing phrases are actions: the break-glass
certificate with one INSERT per notification, the locking of criteria, the recording of a
guarded action after its check, the deletion after its clearance. `MCChecks` states what
holds across packages.

### kron

`ModelCalls`: tasks that invoke a model through the token bucket, the hook, the retries
and the circuit breaker. Times are ages, capped where the code no longer tells larger ones
apart, so the clock needs no bound; the bucket starts full, which is the default of
`initial_tokens`. `Exchange`: mailboxes, one pass of the loop as collection and deliveries,
owners that come and go. `CoreStructures`: progressions and flows as sessions use them,
the graph with its adjacency tables, sorting, path finding, the builder.

### canon

`EnginePool` (threads, the queue outside the lock, poisoning, draining), `Metering`
(records, flushes that fail or are cancelled, quotas, service levels), `Caches` (decision
cache, charter registry), `MerkleBatch`, `CharterExecution` (compiler checks and the
executor of phases), `RuntimeChecks` (inbox, roles, conditions), `PolicyEvaluation`
(resolution, decoding, evaluation, the waves, layers and concurrent fetches of the data
sources), `SchemaMigration` (difference, plan in two phases, failing statements).
PostgreSQL's reaction to a DDL statement and the Rego engine's answers are external.

### Modelling assumption: bodies as written

Phrase bodies are modelled as they read, one call after the other. How Python represents
their arguments is outside the models, also where that representation would stop the call:
options read as attributes by some phrases and by `.get` or subscript by 27 others (among
them the charter phrases, `invoke_break_glass`, `verify_audit_current`); phrase results
indexed as dicts by the timing service; `supersede_evidence` calling `touch`, which the
content type does not have; enumerations kept as values or as members; table names that
differ between a writer and a reader ("decisioncertificates", "evidences" against
"evidence"); `order_by=` passed to `select_one`, which has no such parameter (the order
asked for is modelled); `BaseService.emit_chained_evidence`, which the library leaves
abstract. A hash is the tuple of what is hashed, a signature the tuple of what is signed.

## 4. The runs

| Run | Instance | Shows | Distinct states |
|---|---|---|---|
| `runtime_tx` | fork-join of 4 phases with awaits, 2 requests, transactions, 1 crash, all calls | `RequiresFirst`, `RowsConsistent`, `NoLostActivation`, `NeverReopened` | 128 thousand |
| `runtime_auto_crash` | 6 phases with every kind of require, complete, fail, fire and finish, autocommit, 1 crash | `JoinsExact`: `RequiresFirst`, and `NoLostActivation` until a request dies | 607 thousand |
| `runtime_live` | the fork-join, complete and fire, fairness | `RunCloses` | 7 thousand |
| `vocab` | record-keeping vocabularies and evidence, 14 parts, 2 requests each | what the records promise survives overlapping and interrupted requests; both waiting periods implement `PausableClock` | 970 thousand |
| `checks` | checking vocabularies and document grants, 16 parts | answers to one question agree, boundaries meet, answers move one way, no gap in a delegation | 502 thousand |
| `kron` | flow, token bucket, breaker, exchange, branches, graph, builder | safety of each, liveness of flow, call, delivery and stop; the bucket implements `RateMeter` | 194 thousand |
| `platform` | 16 parts of canon | accounting, caches, percentiles, proofs, compiling and executing, failing closed, migration; checkouts and workflows end | 140 thousand |
| `finding_completed`, `finding_final`, `finding_revoked`, `finding_stop`, `finding_locked` | as small as possible | one documented statement each that the code does not keep | |

`PROJECT.json` names the properties of each run; every property has, in its module, a
comment that says what it is about.

*Why the bounds are enough.*

- Two requests are what every race in this code needs: a check and an update by one, a
  write between them by the other. Four phases contain a fork, a join and an await;
  `MixedRequires` has every kind of require node. One crash reaches every prefix of a call.
- Five operations with two slots hold every competition of waiting and running tasks (the
  theorems remove this bound). Four entries hold a lock that is hidden by a later emit,
  and a lost inner row with a row after it.
- `vocab`: two tokens are an old and a new grant of a scope; two scopes one that covers
  the other. Two certificates are an original and its successor. Five waiting rows are a
  creation, pauses and resumptions by both implementations; the clock passes the minimum.
  Three charters let an activation retire one and be overtaken by a third.
- `checks`: two or three rows of a table are enough to tell queries apart that look at
  the newest, any or all rows; the clocks pass every age limit by one unit; 13 days hold
  a weekend on either side. Three actors and a depth of three form chains, branches and
  cycles of delegation.
- `kron`: threshold 2, one trial call and two callers leave a late answer beside a trial;
  two retries reach the last attempt. Two owners and two messages make one overtake the
  other. Three nodes and three edge ids make loops, parallel edges and a cycle of three.
- `platform`: two engines and two borrowers let the pool run empty while a policy is
  added; six leaves give odd levels twice; three policies or sources give every small
  graph of references; the schemas vary one object at a time.

`CHECK_DEADLOCK FALSE` everywhere, because a run, a flow and a bounded table do stop.

*Symmetry* is over interchangeable requests or users, only in runs without liveness.

*Fairness.* `runtime_live`: weak fairness of every request's next statement (a served
request goes on), of the start and of claims; strong fairness of "some request completes
phase p" and "some request fires t", because what enables them (an idle request, a phase in
the right state) comes and goes while others work. It says that assignees act and external
events happen, on which the code depends too. There is no fairness on `Crash`, which its
bound stops. `kron`: weak fairness of the flow's steps, of every caller's next step, of the
clock and of the exchange's loop, which the event loop gives; an endpoint that answers
neither with a result nor with an error hangs the call in the code as well. Nothing makes
callers begin, owners send or `stop` be called. `platform`: weak fairness of every
borrower's and the policy writer's next step (threads are scheduled, the lock is held for
a bounded time) and of the phases of a workflow, whose phrases return or raise.

*Refinement.* `WaitingIsPausableClock`: the time remaining is the end of the newest row
minus the clock, or minus the pause; each implementation by itself, one request at a time,
maps to the clock (with overlapping requests `MinimumWaitKept` is what remains). TLC checks
both in one run, TLAPS proves each by itself.
`BucketIsMeter`: the bucket refills only when it is looked at, so the meter's level is
what it would hold if it were looked at now.

## 5. The proofs

TLAPS proves, for every value of the constants that satisfies the named assumptions:

| Theorem | Statement |
|---|---|
| `CharterRuntimeProofs!TypeCorrect` | `Spec => []TypeOK` |
| `CharterRuntimeProofs!RequiresFirstHolds`, `DependenciesFirstHolds` | no phase leaves PENDING before its requires were met, and so not before the phases it requires were completed: every charter, any number of requests, both connection modes, any number of crashes |
| `CharterTransactionProofs!NeverReopenedHolds` | with one transaction per call no completed, failed or skipped phase becomes open again |
| `CharterTransactionProofs!RowsConsistentHolds` | with one transaction per call a completed run has no open phase and an awaiting phase that went on has its trigger on record, if `complete_charter_run` is called for cancelled and failed runs only (a caller that passes it "completed" closes a run whatever its phases are) |
| `CharterTransactionProofs!TriggerLeavesEvidenceHolds` | with one transaction per call an awaiting phase that went on has its trigger on record, whatever `complete_charter_run` is called with |
| `CharterTransactionProofs!NoLostActivationHolds`, `JoinsExactHolds` | with one transaction per call and no call in flight, a phase that only waits for others is PENDING only while one of them is not completed, whichever requests overlapped or died; with `RequiresFirst` this makes joins exact |
| `KronProofs!TypeCorrect`, `FlowIsSafe` | types of the flow; the three properties below together |
| `KronProofs!PredecessorsFirst` | no operation is invoked before its predecessors settled |
| `KronProofs!LimitRespected` | never more than `max_concurrent` running, no leaked slot |
| `KronProofs!AllSettled` | a flow that returned has exactly one of a result and an error for every operation |
| `KronProofs!MailIsAccounted` | mailboxes refer to exactly the items they hold, each once; what is delivered was sent to that owner and is delivered once; any number of owners and messages |
| `CharterProofs!RulesStayInForce` | a tenant that has had a charter activated keeps one in force, any number of charters and of overlapping activations by both packages; decisions are monotone |
| `CharterProofs!EvidenceFollows` | evidence about a workflow run never runs ahead of its row, any number of runs and requests |
| `CharterProofs!GrantsTypeCorrect`, `NoGap` | types; no step of a delegation leaves a document out of reach that one of the two users could reach |
| `VocabularyProofs!WithdrawalStands` | a settled withdrawal stays one, through any grants, renewals and revocations |
| `VocabularyProofs!ConsentAnswersAgree` | the phrases and constraint functions that answer whether consent is given agree as far as they can |
| `VocabularyProofs!ReferenceSealed`, `SealInStep`, `ExpiryIsFinal` | what is accepted is sealed; status and seal go together; an expired packet stays expired |
| `RecordsProofs!CertificatesCanBeReliedOn` | hashes and signatures cover the row they are in, a superseded certificate has its successor; any number of certificates and requests |
| `RecordsProofs!ReleasesStand` | a release pins what exists, its signature covers its bundle, and a release is resolved exactly when one was published; any number of rows and requests |
| `ClockProofs!MinimumWait` | the statutory minimum is kept by both implementations together, for every minimum and any number of requests |
| `ClockProofs!ServiceImplementsClock`, `PhrasesImplementClock` | the notice service, and the timing phrases, by themselves and one request at a time, implement `PausableClock` |
| `ClockProofs!BucketImplementsMeter` | the token bucket implements `RateMeter` |
| `ClockProofs!CallingCalledOnce` | one Calling reaches its backend at most once |
| `ClockProofs!BreakerCounts`, `BreakerKeepsProtocol` | counters and state of the circuit agree; it moves only as the breaker promises |
| `PlatformProofs!PoolAccounts` | the pool's counts are those of its engines |
| `PlatformProofs!CachesAreCurrent` | a decision served from the cache was the present one within its time to live and the time of one evaluation, the cache never exceeds its size, and a charter served was current at some moment of the lookup; any times to live, sizes and number of lookups |

Assumptions, each evaluated by TLC in a run: `CharterAssumption` (phases are numbered,
requires are sequences of require nodes, no acyclicity needed), `CallerAssumption`,
`FlowAssumption` (finitely many operations, predecessors are operations),
`GrantAssumption`, `ConsentAssumption` and `NullAssumption` (NULL is no scope, status or
number), `WaitAssumption` (the minimum is a natural number and NULL is no row),
`CertAssumption`, `TenantAssumption`, `RunAssumption`, `PolicyAssumption` (NULL is none of
the values the columns hold; finitely many policy requests), `PacketAssumption`,
`CallAssumption` (the refill rate and the failure threshold are positive), `PoolAssumption`
(finitely many threads), `CacheAssumption` (times to live are natural numbers, sizes
positive).

*Runtime.* `DependenciesFirst` alone is not inductive: an activation is written several
statements after the requires were evaluated. The invariant `IInv` adds what a request
knows at each label (`LocFact`): while evaluating, with nothing unsatisfied so far, every
phase reference already passed over is completed in the request's view; before the
activating statements all of them are. What is seen completed is either committed or in the
request's own transaction (`Done`), both only grow until the commit (`LocFactMonotone`), so
that steps of other requests cannot invalidate it (`OtherHandlers`). A transaction is itself
gated (`TxGate`), so publishing it keeps the tables gated (`PublishDb`); the view of a
completed phase counts as of its first completion (`completedOnce`), because a later
overwrite, a failure racing the completion, does not take back that it was completed. Three
lemmas (`ReadStep`, `BufferStep`, `PublishStep`) then cover all statements of all calls.
`RequiresFirst` is the same for every kind of require: what was met is a completed phase or
a recorded trigger, and both are kept.

*Transactions.* With one transaction per call the invariant `TInv` says that no two requests
have written the same row, and for each request what its transaction holds at each label
(`HandlerFact`): which rows it has locked, that it writes over what is still there, and, for
a cascade, that it has the row of the run. The UPDATE of `current_phase` is what
`NeverReopened`, `ClosedRunHasNoOpenPhase` and `NoLostActivation` rest on: from it to the
commit no other request completes or activates a phase, so the statuses a cascade reads stay
true whatever others commit. `Settled` says of the phases the loop has passed that, in the
eyes of the request, they do not wait in vain; at the commit what the request sees becomes
the tables. `TriggerLeavesEvidence` rests on the UPDATE of the phase and the INSERT of the
evidence being committed together. A request that dies leaves nothing. In autocommit mode
`NeverReopened` does not hold, and `JoinsExact` is checked by TLC only.

*Flow.* `TaskInv` ties a task's place to the maps (a task past its wait has settled
predecessors, a task that holds a slot is between acquire and release, a settled operation
is not run again), `GroupInv` that the events of a group not being cancelled come from
settled operations, `SlotInv` that the holders are at most `Limit`, by the cardinality
lemmas of the library.

*Grants.* `GrantIInv` adds to the types that the delegate holds a token for every grant the
delegation has made so far; so the revocation at its end takes nothing that the delegate
does not have, and tokens are otherwise only taken by the other operations, which the
property excludes.

*Consent.* A scope counts as settled once it has a revoked token no renewal under way is
about to write. `ConsentIInv` says that ids are given out in turn and that a request writes
back the scope it read. A renewal reads active rows only, so it never picks up that token,
and no other write brings a revoked row back. `ConsentChecksAgree` needs no more than the
types and a clock that counts up: the answers are functions of the same rows.

*Waiting periods.* `WaitIInv` calls a row lawful if it ends no earlier than the minimum after
the pre-adverse notice and says elapsed only after it. Every stored row is lawful, and every
request knows, when it writes, that its row is, or that the minimum has passed, whatever was
written meanwhile: all changes move the end later or mark a period on which the minimum has
passed, and time does not go back.

*The pausable clock.* With one request at a time nothing comes between what a request reads
and what it writes. `SerialInv` says that what the request under way is about to
write still follows from the newest row (`Current`): it is that row marked elapsed, paused
or resumed at this moment (`Follows`), carries the latest stamp (`Latest`), and a row that
is over is not paused (`Sound`). Between reading and writing the clock does not advance in
these two specifications, so a decision stays current; the write is then one step of the
clock (`WriteStep`), a read is a stutter, and a tick of the time is a tick of the clock if
it runs and a stutter if not (`TickMovesClock`).

*Charters.* `ActiveCharterSurvives` speaks of moments without requests; `Survives` says of
all others that while no charter is in force the activation that retired the last one is
under way. An activation retires the others only after it has read its own charter as
activatable, and its last statement puts that one in force.

*Workflow runs.* A request about to record a completion has written it, and no statement
takes a completed run back (`WorkflowIInv`).

*Certificates.* `CertIInv` says of each row that its hashes cover it and of each request what
it knows of the row it is about to write (`CertKnows`). It stays true because no statement
changes what the hashes cover, takes back a minting or moves a supersession (`CertKept`). A
minting writes the attestations it has hashed together with the hash; only certificates with
a content hash are minted, and the content hash is what is signed, so a minting between the
reading and the writing of a signature does not invalidate it.

*Policy releases.* Definitions and adapters are only added (`Grown`), so what a request has
read it can pin whenever it writes (`Pins`, `PolicyKnows`); a publication changes neither
the entry nor the bundle of a release. Resolution takes the latest of the published
releases, which exists because every finite set has an element where a function to the
integers is largest (`TopmostExists`): the induction over finite sets is carried out on a
smallest counterexample, by the library's theorem on well-founded relations.

*Packets.* `PacketIInv`: a row is what `create_cep` or the last UPDATE made of it, and a
request works on a hash nobody changes any more. That makes the last of several seals as
good as the first.

*Model calls.* The bucket needs only its bounds (`BucketInv`) and the fact that a full age
fills it (`CeilingCovers`, `FullAgeFills`); each look at the bucket is a step of the meter.
`OnceInv`: while the status is pending nobody is past the test, and only the task that
changed it is in the hook. `BreakerInv` adds types to `CountsMatchState`, which is inductive.

*Pool.* `PoolIInv` adds that nothing happens before the pool is filled. `MoveCounts` reduces
each step of a thread to whether it enters or leaves the set of holders, whose cardinality
the library's lemmas give.

*Caches.* What an evaluation stores may be stale when it is stored; `CacheIInv` bounds by how
much. Beside every version of an entry the model keeps for how long it has not been the
present one (`validity`). A running evaluation's version is stale for no longer than the
evaluation runs (`Computing`), a cached one for no longer than its age and the longest
evaluation (`Cached`), so one served within its time to live for no longer than both
(`Served`). For the registry, `seen[r]` holds the versions the row had during the lookup of
`r`; the row of now is always among them, and every entry was compiled from the source whose
hash it carries (`Coherent`), so a verified hash is a version seen.

*Exchange.* The parts of `MailAccounted` need each other: a message is delivered once because
a message in an outbox has not been collected yet, and is so in one outbox only. `MailIInv`
says this of the messages on their way and arrived (`MailFact`, disjoint and as addressed)
and of every mailbox (`BoxFact`): what it has still to send was sent by its owner and is
neither on its way nor arrived anywhere, what it holds for reading came from the sender it is
filed under and has arrived, and its items are those it refers to (`ItemsFact`).

Model-checked only: liveness (`RunCloses`, `EveryFlowEnds`, `InvokeReturns`, `SentArrives`,
`StopEndsLoop`, `CheckoutEnds`, `WorkflowEnds`), since fairness and ENABLED are beyond the
prover; what recursive definitions compute (business days, sorting and paths, Merkle trees,
resolution and orchestration orders), since the modules that define them recursively are
beyond it; what is folded over a log or a batch (metering, evidence chains); the two
implementations of the waiting period in one specification (`WaitingIsPausableClock`, proved
for each); `JoinsExact` in autocommit mode; and the invariants not in the table.

## 6. Divergences met while modelling

Shown by a run (see `findings`):

- A completion and a failure of one phase that both read IN_PROGRESS overwrite each other's
  terminal state (`TerminalIsFinal`).
- A run with a failed phase becomes completed and approved when its other phases complete
  (`CompletedMeansAllCompleted`).
- Recording an access makes a token usable again that was revoked after the check
  (`RevokedStaysRevoked`).
- `stop_on_error` does not stop for an operation that fails, only for one that raises
  outside `invoke` (`StopsOnError`).
- Entries are emitted to a locked chain (`LockedIsFinal`).

Recorded here only; each is visible in one action, one call or one short trace.

*Runtime and DSL*

- `cancel_charter_run` takes phases from IN_PROGRESS or WAITING_TRIGGER to SKIPPED, which
  `PHASE_TRANSITIONS` does not have (`workflow.py:392`).
- Without a transaction two cascades can activate a join twice and reopen it
  (`cascade.py:390`); `NeverReopened` holds with one transaction per call.
- An entry phase with an `await` starts WAITING_USER and waits for nothing
  (`workflow.py:278`).
- `revoke_phase_grants` revokes the grants of all phases of the run (`grants.py:385`).
- The resolver counts every mention of a phase, so that a phase naming another twice is
  reported as cyclic (`resolver.py`, `_topological_sort`).
- The hub executor takes no notice of a requirement's answer unless it is a dict, of awaits
  and of when-blocks; a required phrase without a callable counts as met; its factories
  catch every exception, so that `stop_on_error` has no effect; `all_phases_passed` looks
  at the phases finished so far.
- A phase exactly five days old is overdue in the inbox and not in `get_overdue_phases`; MFA
  and break-glass are accepted from any of the user's sessions; `evaluate_situations`
  compares waiting periods without their units.

*Evidence, consent, certificates, waiting periods*

- Two emits to one chain can write the same sequence; both succeed and the chain no longer
  verifies (`emit_chained_evidence.py:125`). `VerificationExact` and `ForksDetected` state
  exactly this.
- `create_genesis_entry` hashes `content_hash` but stores `content_hash or ""`
  (`chain_evidence.py:196`); a linked child's own chain starts at sequence 1
  (`chain_evidence.py:105`); `verify_evidence_integrity` compares the hash of the whole
  content with that of the data (`verify_evidence_integrity.py:123`).
- `verify_certificate_integrity` says "Recompute hash from the same fields used during
  minting" and hashes fields that none of the minting phrases stores, so that it accepts no
  certificate (`HashesCoverTheRow`).
- Two `seal_cep` calls that both read the draft: the second replaces the seal
  (`seal_cep.py:95`).
- A renewal that read a token before it was revoked writes it back active
  (`renew_token.py:166`); `WithdrawalIsFinal` starts when no such renewal is under way.
- `NoticeService` sends an adverse notice without a waiting row, and looks at `ends_at` but
  not at a pause; it files notices under a type and status the timing phrases do not find;
  a pending delivery is read back as failed; the jurisdiction tables spell their keys
  differently ("ca", "california").
- Activation of a charter retires the others first, so that overlapping activations can
  re-activate a superseded charter, and a ratification may overwrite an activation.
- Two publications of one release both succeed; explicit releases may pair an adapter with
  another definition version.

*Checks*

- At its last instant a policy is active for `require_policy_active` and not for
  `get_applicable_policies`; an access justification is over at the instant of its expiry,
  every other record is not.
- `get_approval_chain` is complete for an empty chain, `verify_approval_chain_complete` is
  not; `require_dual_approval` counts rows, not people; `require_separation_of_duties` keeps
  one actor of a repeated step; `verify_role_approval` does not look at the expiry of a
  delegation.
- Audits and reviews that are unfinished sort first in some queries (`DESC`), last in others;
  `verify_audit_current` rounds the age down to days.
- A hold placed after a deletion clearance is not noticed; `lock_criteria` adds a second
  lock; a missing row is stricter than INTERNAL for `require_limited_audience`; closing
  conditions count as satisfied while immaterial ones are pending; OFAC, BIS and ITAR
  verifications clear nothing outside mock mode; infrastructure derivations return fixed
  figures; a reordered manifest does not verify; an unknown scope is high risk.

*kron*

- A trial call that is cancelled or fails with an excluded error keeps its slot of the
  half-open circuit; failures are counted cumulatively while closed; a late success closes
  a half-open circuit; retries take no further tokens.
- `Exchange.run` clears the stop flag, so that a stop before it is lost; a message collected
  before its recipient registers is dropped.
- A refused `builder.add` leaves its node in the graph, and an operation may depend on
  itself; `Flow.remove_item` takes out one of several references (`OnlyRepeatsDangle`).

*canon services and utilities*

- `add_policy` says "all engines in the pool" and misses those checked out until they come
  back, and the thread-local ones for good; one that does not parse loses the drained
  engines while the total stays.
- `PolicyEngine` imports a metering module that does not exist, so that quotas are not
  applied there; a flush that fails may exceed `max_records`; a cancelled one loses its
  batch; gates and policies are not checked against compute units.
- `DecisionCache.set` evicts even when it replaces a key; a 100 % objective has no budget.
- A Merkle batch `[a, b, c]` has the root of `[a, b, c, c]`.
- A required data source that yields nothing is only noticed when it is planned once; the
  orchestrator's own cache answers later requests; a policy stays although its prerequisite
  was excluded, and exclusion is one-sided.
- A new table is created without its CHECK and UNIQUE constraints, which the next plan adds;
  after a failure in phase B unvalidated foreign keys and invalid indexes are not seen by
  later plans; a table that refers to a later-named new one makes every plan fail.

## 7. Not modelled

Each with its reason in `PROJECT.json`:

- lexer, parser, DDL, Rego and row-level-security text (string processing; a model would be
  a transliteration);
- cryptography, key management and the time-stamp protocol (ideal hashes and signatures
  instead);
- redaction, vendors, HTTP transport and telemetry (I/O or pattern matching, no state);
- discovery and loading of packages, construction of typed specs (import time only);
- the services' dispatch layers, which call one phrase each;
- evidence queries that return rows (`get_case_evidence`, `get_case_history`), supersession
  of evidence beyond waiting periods, `invoke_executive_override` (one INSERT nothing reads);
- `persist_recent` of the meter, summaries, usage reports;
- charter sources and generated catalogs (data).

Tenants are not modelled: every query of the modelled code carries the tenant, and the
models are of one. Nor is a subject other than the one a vocabulary's question is about.

## 8. Running

`tlc -config Vocab.cfg MCVocab`, and likewise for the other pairs in `PROJECT.json`: up to
four minutes each with two workers. `tlapm` on a module named `...Proofs` checks its proofs,
in four to seven minutes each.
