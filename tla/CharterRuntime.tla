--------------------------- MODULE CharterRuntime ---------------------------
(***************************************************************************)
(* One run of a compiled charter workflow: the statements that              *)
(* canon.runtime (workflow, cascade, require_eval, trigger) sends to the    *)
(* database, interleaved between concurrent requests.                       *)
(*                                                                         *)
(* A request ("handler") executes one call of the runtime on a connection.  *)
(* Every SQL statement of the call is one step.  With Transactional the     *)
(* connection comes from canon.db.transaction(): the writes of the call     *)
(* stay in tx[h] until Commit, lock their rows against the other requests,  *)
(* and are visible to the request itself (PostgreSQL, READ COMMITTED).      *)
(* Otherwise the connection comes from canon.db.connection() and every      *)
(* statement commits by itself.                                             *)
(*                                                                         *)
(* Left out: the columns no decision reads (actors, notes, timestamps,      *)
(* current_phase).  The UPDATE of current_phase stays, for its row lock.    *)
(***************************************************************************)
EXTENDS Naturals, Sequences

CONSTANTS
    N,             \* number of phases; phase k is the k-th of workflow.phases
    Requires,      \* Requires[p]: the tuple of require nodes of phase p
    Awaits,        \* Awaits[p]: the triggers of the await directives of p
    Triggers,      \* trigger names
    Handlers,      \* concurrent requests
    Calls,         \* the calls the requests make, a subset of AllCalls
    Outcomes,      \* outcomes passed to complete_charter_run by its callers
    Transactional, \* TRUE: one transaction per call; FALSE: autocommit
    MaxCrashes     \* bound: requests that die in the middle of a call

Phases == 1..N

AllCalls == {"complete", "fail", "fire", "cancel"}

PhaseState == {"pending", "waiting_gate", "waiting_user", "waiting_trigger",
               "in_progress", "completed", "skipped", "failed"}

PHASE_TRANSITIONS ==
    [s \in PhaseState |->
        CASE s = "pending" -> {"waiting_gate", "waiting_user", "waiting_trigger", "skipped"}
          [] s = "waiting_gate" -> {"waiting_user", "failed", "skipped"}
          [] s = "waiting_user" -> {"in_progress", "waiting_trigger", "skipped"}
          [] s = "waiting_trigger" -> {"in_progress", "failed"}
          [] s = "in_progress" -> {"completed", "failed"}
          [] OTHER -> {}]

is_valid_transition(from, to) == from \in PhaseState /\ to \in PHASE_TRANSITIONS[from]

\* get_terminal_states: the states without an outgoing transition.
TerminalStates == {s \in PhaseState : PHASE_TRANSITIONS[s] = {}}

RequireNode ==
    [kind : {"phase"}, phase : Phases, condition : {"passed", "complete", "other"}]
        \cup [kind : {"await"}, trigger : Triggers]
        \cup [kind : {"feature", "builtin"}]

ASSUME CharterAssumption ==
    /\ N \in Nat \ {0}
    /\ Requires \in [Phases -> Seq(RequireNode)]
    /\ Awaits \in [Phases -> SUBSET Triggers]

ASSUME CallerAssumption ==
    /\ Calls \subseteq AllCalls
    /\ Outcomes \subseteq {"completed", "cancelled", "failed", "approved", "rejected"}
    /\ Transactional \in BOOLEAN
    /\ MaxCrashes \in Nat

\* _get_requires_phases: the phases named by the phase references of p.
RequiresPhases(p) ==
    {Requires[p][k].phase : k \in {i \in DOMAIN Requires[p] : Requires[p][i].kind = "phase"}}

\* _get_entry_phases: no phase reference, whatever else the phase requires.
EntryPhases == {p \in Phases : RequiresPhases(p) = {}}

\* Mutant: only the first require of a phase is looked at.
Downstream_FirstRequire(p) ==
    {d \in Phases : \E k \in DOMAIN Requires[d] :
        k = 1 /\ Requires[d][k].kind = "phase" /\ Requires[d][k].phase = p}

\* find_downstream_phases
Downstream(p) == {d \in Phases : p \in RequiresPhases(d)}

VARIABLES
    status,    \* committed status column of phase_executions
    run,       \* committed charter_runs row: status and final_outcome
    evidence,  \* committed trigger.fired evidence: <<phase, trigger>>
    tx,        \* tx[h]: the uncommitted writes of the request's transaction
    pc,        \* pc[h]: the next statement of the request
    loc,       \* loc[h]: the local variables of the call
    crashes,   \* requests that have died so far
    completedOnce  \* history: phases whose completion was ever committed

vars == <<status, run, evidence, tx, pc, loc, crashes, completedOnce>>

Unwritten == "unwritten"
Absent == "absent"  \* the row does not exist yet

NoRunWrite == [status |-> Unwritten, outcome |-> "none"]

EmptyTx == [phase |-> [p \in Phases |-> Unwritten], run |-> NoRunWrite, evidence |-> {}]

IdleLoc == [arg |-> 0, down |-> 0, req |-> 0, unsatisfied |-> 0, todo |-> {}, trig |-> "none",
            outcome |-> "none"]

Init ==
    /\ status = [p \in Phases |-> Absent]
    /\ run = [status |-> Absent, outcome |-> "none"]
    /\ evidence = {}
    /\ tx = [h \in Handlers |-> EmptyTx]
    /\ pc = [h \in Handlers |-> "idle"]
    /\ loc = [h \in Handlers |-> IdleLoc]
    /\ crashes = 0
    /\ completedOnce = {}

-----------------------------------------------------------------------------
(* The database: what a request reads, when it may write, what its          *)
(* statement leaves behind.                                                 *)

View(h, p) == IF tx[h].phase[p] # Unwritten THEN tx[h].phase[p] ELSE status[p]

FreePhase(h, p) == \A g \in Handlers \ {h} : tx[g].phase[p] = Unwritten

FreeRun(h) == \A g \in Handlers \ {h} : tx[g].run = NoRunWrite

\* Make the writes t of request h visible to everybody.
Publish(h, t) ==
    LET new == [p \in Phases |-> IF t.phase[p] # Unwritten THEN t.phase[p] ELSE status[p]]
    IN  /\ status' = new
        /\ run' = IF t.run # NoRunWrite THEN t.run ELSE run
        /\ evidence' = evidence \cup t.evidence
        /\ completedOnce' = completedOnce \cup {p \in Phases : t.phase[p] = "completed"}
        /\ tx' = [tx EXCEPT ![h] = EmptyTx]

\* A finished statement of request h: its transaction now holds the writes t.
Exec(h, t) ==
    \/ /\ Transactional
       /\ tx' = [tx EXCEPT ![h] = t]
       /\ UNCHANGED <<status, run, evidence, completedOnce>>
    \/ /\ ~Transactional
       /\ Publish(h, t)

WritePhase(h, p, s) ==
    /\ FreePhase(h, p)
    /\ Exec(h, [tx[h] EXCEPT !.phase[p] = s])

WriteRun(h, s, o) ==
    /\ FreeRun(h)
    /\ Exec(h, [tx[h] EXCEPT !.run = [status |-> s, outcome |-> o]])

\* UPDATE charter_runs SET current_phase: locks the row, keeps status and outcome.
TouchRun(h) ==
    /\ FreeRun(h)
    /\ Exec(h, [tx[h] EXCEPT !.run = IF @ # NoRunWrite THEN @ ELSE run])

Read == UNCHANGED <<status, run, evidence, completedOnce, tx>>

Goto(h, label, l) ==
    /\ pc' = [pc EXCEPT ![h] = label]
    /\ loc' = [loc EXCEPT ![h] = l]
    /\ UNCHANGED crashes

-----------------------------------------------------------------------------
(* workflow.start_workflow: the run and all phases PENDING, entry phases     *)
(* WAITING_USER.  Its connection "should be in transaction", and nobody     *)
(* knows the rows before the commit, so the call is one step.               *)

start_workflow ==
    /\ run.status = Absent
    /\ run' = [status |-> "active", outcome |-> "none"]
    /\ status' = [p \in Phases |-> IF p \in EntryPhases THEN "waiting_user" ELSE "pending"]
    /\ UNCHANGED <<evidence, tx, pc, loc, crashes, completedOnce>>

\* External: the assignee takes a phase from the inbox (one guarded UPDATE).
claim_phase(p) ==
    /\ status[p] = "waiting_user"
    /\ \A h \in Handlers : tx[h].phase[p] = Unwritten
    /\ status' = [status EXCEPT ![p] = "in_progress"]
    /\ UNCHANGED <<run, evidence, tx, pc, loc, crashes, completedOnce>>

-----------------------------------------------------------------------------
(* cascade.on_phase_completed                                               *)

\* Read the status and validate it; an invalid transition raises, changing nothing.
BeginComplete(h, p) ==
    /\ "complete" \in Calls
    /\ pc[h] = "idle"
    /\ is_valid_transition(status[p], "completed")
    /\ Goto(h, "mark_completed", [IdleLoc EXCEPT !.arg = p])
    /\ Read

MarkCompleted(h) ==
    /\ pc[h] = "mark_completed"
    /\ WritePhase(h, loc[h].arg, "completed")
    /\ Goto(h, "set_current", loc[h])

\* Mutant: the loop over the downstream phases ends after its first round.
NextDownstream_Break(h, k) ==
    LET rest == {d \in Downstream(loc[h].arg) : d > k}
    IN  \/ /\ rest = {} \/ k > 0
           /\ Goto(h, "check_complete", [loc[h] EXCEPT !.down = 0, !.req = 0, !.unsatisfied = 0])
        \/ \E d \in rest :
              /\ k = 0 /\ \A e \in rest : d <= e
              /\ Goto(h, "evaluate", [loc[h] EXCEPT !.down = d, !.req = 1, !.unsatisfied = 0])

\* Go on with the first downstream phase after position k, or end the loop.
NextDownstream(h, k) ==
    LET rest == {d \in Downstream(loc[h].arg) : d > k}
    IN  \/ /\ rest = {}
           /\ Goto(h, "check_complete", [loc[h] EXCEPT !.down = 0, !.req = 0, !.unsatisfied = 0])
        \/ \E d \in rest :
              /\ \A e \in rest : d <= e
              /\ Goto(h, "evaluate", [loc[h] EXCEPT !.down = d, !.req = 1, !.unsatisfied = 0])

SetCurrentPhase(h) ==
    /\ pc[h] = "set_current"
    /\ TouchRun(h)
    /\ NextDownstream(h, 0)

\* require_eval.evaluate_single_require: feature gates and builtins are never
\* satisfied, an unknown phase condition neither.
evaluate_single_require(h, r) ==
    \/ /\ r.kind = "phase"
       /\ r.condition \in {"passed", "complete"}
       /\ View(h, r.phase) = "completed"
    \/ /\ r.kind = "await"
       /\ \E p \in Phases : <<p, r.trigger>> \in evidence \cup tx[h].evidence

\* Mutant: the last require alone decides.
EvaluateRequire_LastWins(h) ==
    LET d == loc[h].down
        r == Requires[d][loc[h].req]
    IN  /\ pc[h] = "evaluate"
        /\ \/ /\ loc[h].req < Len(Requires[d])
              /\ Goto(h, "evaluate", [loc[h] EXCEPT !.req = @ + 1])
           \/ /\ loc[h].req = Len(Requires[d])
              /\ evaluate_single_require(h, r)
              /\ Goto(h, "activate_read", loc[h])
           \/ /\ loc[h].req = Len(Requires[d])
              /\ ~evaluate_single_require(h, r)
              /\ NextDownstream(h, d)
        /\ Read

\* Mutant: the loop stops one require early.
EvaluateRequire_OffByOne(h) ==
    LET d == loc[h].down
        count == loc[h].unsatisfied
                     + (IF evaluate_single_require(h, Requires[d][loc[h].req]) THEN 0 ELSE 1)
    IN  /\ pc[h] = "evaluate"
        /\ \/ /\ loc[h].req < Len(Requires[d])
              /\ Goto(h, "evaluate", [loc[h] EXCEPT !.req = @ + 1, !.unsatisfied = count])
           \/ /\ loc[h].req = Len(Requires[d])
              /\ loc[h].unsatisfied = 0
              /\ Goto(h, "activate_read", loc[h])
           \/ /\ loc[h].req = Len(Requires[d])
              /\ loc[h].unsatisfied > 0
              /\ NextDownstream(h, d)
        /\ Read

\* One round of the loop of evaluate_requires; all requires are evaluated.
EvaluateRequire(h) ==
    LET d == loc[h].down
        count == loc[h].unsatisfied
                     + (IF evaluate_single_require(h, Requires[d][loc[h].req]) THEN 0 ELSE 1)
    IN  /\ pc[h] = "evaluate"
        /\ \/ /\ loc[h].req < Len(Requires[d])
              /\ Goto(h, "evaluate", [loc[h] EXCEPT !.req = @ + 1, !.unsatisfied = count])
           \/ /\ loc[h].req = Len(Requires[d])
              /\ count = 0
              /\ Goto(h, "activate_read", loc[h])
           \/ /\ loc[h].req = Len(Requires[d])
              /\ count > 0
              /\ NextDownstream(h, d)
        /\ Read

TargetState(p) == IF Awaits[p] # {} THEN "waiting_trigger" ELSE "waiting_user"

\* Mutant: only the active states are skipped.
ActivateRead_Terminal(h) ==
    LET d == loc[h].down
        go == View(h, d) \in {"pending", "waiting_gate"} \cup TerminalStates
    IN  /\ pc[h] = "activate_read"
        /\ \/ go /\ Goto(h, "activate_write", loc[h])
           \/ ~go /\ NextDownstream(h, d)
        /\ Read

\* activate_phase returns False on an active or terminal phase; an invalid
\* transition raises and on_phase_completed goes on with the next phase.
ActivateRead(h) ==
    LET d == loc[h].down
        go == /\ View(h, d) \in {"pending", "waiting_gate"}
              /\ is_valid_transition(View(h, d), TargetState(d))
    IN  /\ pc[h] = "activate_read"
        /\ \/ go /\ Goto(h, "activate_write", loc[h])
           \/ ~go /\ NextDownstream(h, d)
        /\ Read

ActivateWrite(h) ==
    /\ pc[h] = "activate_write"
    /\ WritePhase(h, loc[h].down, TargetState(loc[h].down))
    /\ NextDownstream(h, loc[h].down)

\* Mutant: phases that have not been activated do not count.
CheckComplete_IgnorePending(h) ==
    LET done == \A p \in Phases : View(h, p) \in TerminalStates \cup {"pending"}
    IN  /\ pc[h] = "check_complete"
        /\ Goto(h, IF done THEN "complete_run" ELSE "commit", IdleLoc)
        /\ Read

\* is_workflow_complete: every phase of the run is terminal.
CheckComplete(h) ==
    LET done == \A p \in Phases : View(h, p) \in TerminalStates
    IN  /\ pc[h] = "check_complete"
        /\ Goto(h, IF done THEN "complete_run" ELSE "commit", IdleLoc)
        /\ Read

\* _complete_charter_run: unconditional.
CompleteRun(h) ==
    /\ pc[h] = "complete_run"
    /\ WriteRun(h, "completed", "approved")
    /\ Goto(h, "commit", IdleLoc)

-----------------------------------------------------------------------------
(* cascade.on_phase_failed                                                  *)

BeginFail(h, p) ==
    /\ "fail" \in Calls
    /\ pc[h] = "idle"
    /\ is_valid_transition(status[p], "failed")
    /\ Goto(h, "mark_failed", [IdleLoc EXCEPT !.arg = p])
    /\ Read

MarkFailed(h) ==
    /\ pc[h] = "mark_failed"
    /\ WritePhase(h, loc[h].arg, "failed")
    /\ Goto(h, "fail_run", IdleLoc)

FailRun(h) ==
    /\ pc[h] = "fail_run"
    /\ WriteRun(h, "failed", "failed")
    /\ Goto(h, "commit", IdleLoc)

-----------------------------------------------------------------------------
(* trigger.fire_trigger.  SELECT has no ORDER BY: the rows come in any order. *)

NextMatch(h, todo) ==
    \/ /\ todo = {}
       /\ Goto(h, "commit", IdleLoc)
    \/ \E p \in todo :
          Goto(h, "trigger_update", [loc[h] EXCEPT !.arg = p, !.todo = todo \ {p}])

\* No waiting phase matches: TriggerNotFoundError, nothing changes.
BeginFire(h, t) ==
    LET matching == {p \in Phases : status[p] = "waiting_trigger" /\ t \in Awaits[p]}
    IN  /\ "fire" \in Calls
        /\ pc[h] = "idle"
        /\ \E p \in matching :
              Goto(h, "trigger_update",
                   [IdleLoc EXCEPT !.arg = p, !.todo = matching \ {p}, !.trig = t])
        /\ Read

\* UPDATE ... WHERE status = 'waiting_trigger'; "UPDATE 0" goes on with the next row.
TriggerUpdate(h) ==
    LET p == loc[h].arg
    IN  /\ pc[h] = "trigger_update"
        /\ \/ /\ View(h, p) = "waiting_trigger"
              /\ WritePhase(h, p, "in_progress")
              /\ Goto(h, "trigger_evidence", loc[h])
           \/ /\ View(h, p) # "waiting_trigger"
              /\ NextMatch(h, loc[h].todo)
              /\ Read

TriggerEvidence(h) ==
    /\ pc[h] = "trigger_evidence"
    /\ Exec(h, [tx[h] EXCEPT !.evidence = @ \cup {<<loc[h].arg, loc[h].trig>>}])
    /\ NextMatch(h, loc[h].todo)

-----------------------------------------------------------------------------
(* workflow.cancel_charter_run and complete_charter_run                     *)

\* The rows of the multi-row UPDATE are locked one after the other; the next
\* one is chosen here.  The last one ends the statement.
NextRow(h, todo) ==
    \/ /\ todo = {}
       /\ Goto(h, "skip_done", [IdleLoc EXCEPT !.outcome = "cancelled"])
    \/ \E p \in todo :
          Goto(h, "skip_phase", [IdleLoc EXCEPT !.arg = p, !.todo = todo \ {p}])

BeginCancel(h) ==
    /\ "cancel" \in Calls
    /\ pc[h] = "idle"
    /\ run.status # Absent
    /\ NextRow(h, {p \in Phases : status[p] \notin TerminalStates})
    /\ Read

\* Lock one row of the statement's snapshot, re-check its WHERE clause, skip it.
SkipPhase(h) ==
    LET p == loc[h].arg
    IN  /\ pc[h] = "skip_phase"
        /\ FreePhase(h, p)
        /\ tx' = IF status[p] \in TerminalStates
                 THEN tx
                 ELSE [tx EXCEPT ![h].phase[p] = "skipped"]
        /\ NextRow(h, loc[h].todo)
        /\ UNCHANGED <<status, run, evidence, completedOnce>>

\* The end of the multi-row statement (its own commit with autocommit).
SkipDone(h) ==
    /\ pc[h] = "skip_done"
    /\ Exec(h, tx[h])
    /\ Goto(h, "finish_run", loc[h])

\* complete_charter_run called by anybody else.
BeginFinish(h, o) ==
    /\ pc[h] = "idle"
    /\ run.status # Absent
    /\ Goto(h, "finish_run", [IdleLoc EXCEPT !.outcome = o])
    /\ Read

StatusOfOutcome(o) == IF o \in {"cancelled", "failed"} THEN o ELSE "completed"

FinishRun(h) ==
    /\ pc[h] = "finish_run"
    /\ WriteRun(h, StatusOfOutcome(loc[h].outcome), loc[h].outcome)
    /\ Goto(h, "commit", IdleLoc)

-----------------------------------------------------------------------------
(* The end of a call, and the ways it ends early.                           *)

Commit(h) ==
    /\ pc[h] = "commit"
    /\ Publish(h, tx[h])
    /\ Goto(h, "idle", IdleLoc)

Rollback(h) ==
    /\ tx' = [tx EXCEPT ![h] = EmptyTx]
    /\ pc' = [pc EXCEPT ![h] = "idle"]
    /\ loc' = [loc EXCEPT ![h] = IdleLoc]
    /\ UNCHANGED <<status, run, evidence, completedOnce>>

\* The process, or its connection, dies between two statements.
Crash(h) ==
    /\ pc[h] # "idle"
    /\ crashes < MaxCrashes
    /\ crashes' = crashes + 1
    /\ Rollback(h)

\* The requests holding the row that the next statement of h has to lock.
Blockers(h) ==
    {g \in Handlers \ {h} :
        \/ /\ pc[h] \in {"mark_completed", "mark_failed", "skip_phase", "trigger_update"}
           /\ pc[h] = "trigger_update" => View(h, loc[h].arg) = "waiting_trigger"
           /\ tx[g].phase[loc[h].arg] # Unwritten
        \/ /\ pc[h] = "activate_write"
           /\ tx[g].phase[loc[h].down] # Unwritten
        \/ /\ pc[h] \in {"set_current", "complete_run", "fail_run", "finish_run"}
           /\ tx[g].run # NoRunWrite}

\* External: PostgreSQL breaks a cycle of lock waits by aborting one transaction.
DeadlockVictim(h) ==
    /\ \E D \in SUBSET Handlers :
          /\ h \in D
          /\ \A g \in D : Blockers(g) \cap D # {}
    /\ Rollback(h)
    /\ UNCHANGED crashes

-----------------------------------------------------------------------------

Begin(h) ==
    \/ \E p \in Phases : BeginComplete(h, p) \/ BeginFail(h, p)
    \/ \E t \in Triggers : BeginFire(h, t)
    \/ BeginCancel(h)
    \/ \E o \in Outcomes : BeginFinish(h, o)

Step(h) ==
    \/ MarkCompleted(h) \/ SetCurrentPhase(h) \/ EvaluateRequire(h)
    \/ ActivateRead(h) \/ ActivateWrite(h) \/ CheckComplete(h) \/ CompleteRun(h)
    \/ MarkFailed(h) \/ FailRun(h)
    \/ TriggerUpdate(h) \/ TriggerEvidence(h)
    \/ SkipPhase(h) \/ SkipDone(h) \/ FinishRun(h)
    \/ Commit(h) \/ DeadlockVictim(h)

Next ==
    \/ start_workflow
    \/ \E p \in Phases : claim_phase(p)
    \/ \E h \in Handlers : Begin(h) \/ Step(h) \/ Crash(h)

Spec == Init /\ [][Next]_vars

-----------------------------------------------------------------------------
(* Properties.                                                              *)

Labels == {"idle", "mark_completed", "set_current", "evaluate", "activate_read",
           "activate_write", "check_complete", "complete_run", "mark_failed", "fail_run",
           "trigger_update", "trigger_evidence", "skip_phase", "skip_done", "finish_run",
           "commit"}

RunRow == [status : {Absent, "active", "completed", "cancelled", "failed"},
           outcome : {"none", "completed", "cancelled", "failed", "approved", "rejected"}]

TxType == [phase : [Phases -> PhaseState \cup {Unwritten}],
           run : RunRow \cup {NoRunWrite},
           evidence : SUBSET (Phases \X Triggers)]

LocType == [arg : Phases \cup {0}, down : Phases \cup {0}, req : Nat, unsatisfied : Nat,
            todo : SUBSET Phases, trig : Triggers \cup {"none"},
            outcome : Outcomes \cup {"none", "cancelled"}]

\* Every variable keeps its type; the columns hold values of the enumerations
\* PhaseState and CharterRunStatus.
TypeOK ==
    /\ status \in [Phases -> PhaseState \cup {Absent}]
    /\ run \in RunRow
    /\ evidence \subseteq Phases \X Triggers
    /\ tx \in [Handlers -> TxType]
    /\ pc \in [Handlers -> Labels]
    /\ loc \in [Handlers -> LocType]
    /\ crashes \in 0..MaxCrashes
    /\ completedOnce \subseteq Phases

Started == PhaseState \ {"pending", "skipped"}

\* "Downstream phases cannot activate until their dependencies complete": a phase
\* that has left PENDING (other than by being skipped) has all the phases of its
\* require clauses completed before it, whatever the interleaving of requests.
DependenciesFirst ==
    \A p \in Phases : status[p] \in Started => RequiresPhases(p) \subseteq completedOnce

\* The evidence that the requires of a phase are evaluated on: completed phases and
\* recorded triggers.  Feature gates, builtins and unknown conditions have none.
Met(r) ==
    \/ r.kind = "phase" /\ r.condition # "other" /\ r.phase \in completedOnce
    \/ r.kind = "await" /\ \E p \in Phases : <<p, r.trigger>> \in evidence

\* The requires of a phase are a conjunction of gates that fail safe: a phase the
\* cascade has activated has met every one of them, of whatever kind, even when the
\* statements of several requests interleave and requests die half-way.
RequiresFirst ==
    \A p \in Phases \ EntryPhases :
        status[p] \in Started => \A k \in DOMAIN Requires[p] : Met(Requires[p][k])

\* A terminal phase is never reopened: no request that decided to activate a phase
\* earlier brings it back to an inbox.  With one transaction per call the UPDATE of
\* charter_runs that precedes the cascade makes the cascades of a run take turns.
NeverReopened ==
    [][\A p \in Phases : status[p] \in TerminalStates => status'[p] \in TerminalStates]_vars

\* A run that _complete_charter_run has closed has no open phase left.
ClosedRunHasNoOpenPhase ==
    run.status = "completed" => \A p \in Phases : status[p] \in TerminalStates

\* The join is never missed: once no call is in flight, a phase that only waits for
\* other phases is PENDING only while one of them is not completed, also when the
\* last two of them completed concurrently; and with one transaction per call also
\* when a request died.
NoLostActivation ==
    (Transactional \/ crashes = 0) /\ (\A h \in Handlers : pc[h] = "idle") =>
        \A p \in Phases :
            /\ status[p] = "pending"
            /\ \A k \in DOMAIN Requires[p] :
                  /\ Requires[p][k].kind = "phase"
                  /\ Requires[p][k].condition # "other"
            => \E q \in RequiresPhases(p) : status[q] # "completed"

\* An awaiting phase proceeds only on recorded evidence: fire_trigger moves it to
\* IN_PROGRESS and inserts trigger.fired for one of its triggers, both or neither.
TriggerLeavesEvidence ==
    \A p \in Phases \ EntryPhases :
        Awaits[p] # {} /\ status[p] \in {"in_progress", "completed"} =>
            \E t \in Awaits[p] : <<p, t>> \in evidence

\* What a row says has its grounds in the others, whatever overlaps or dies: a closed run has no
\* open phase, and an awaiting phase that went on has its trigger on record.
RowsConsistent == ClosedRunHasNoOpenPhase /\ TriggerLeavesEvidence

\* A phase is activated not before its requires are met (RequiresFirst), and once they are
\* (NoLostActivation).
JoinsExact == RequiresFirst /\ NoLostActivation

\* Requests that are served, assignees that act on their inbox, and triggers that are
\* fired while a phase waits for them.
Fairness ==
    /\ WF_vars(start_workflow)
    /\ \A h \in Handlers : WF_vars(Step(h))
    /\ \A p \in Phases : WF_vars(claim_phase(p))
    /\ \A p \in Phases : SF_vars(\E h \in Handlers : BeginComplete(h, p))
    /\ \A t \in Triggers : SF_vars(\E h \in Handlers : BeginFire(h, t))

FairSpec == Spec /\ Fairness

\* A charter whose phases only require and await each other's completion and
\* triggers runs to the end: the run is closed, whatever requests die on the way.
RunCloses == <>(run.status = "completed")

\* phase_state.py: COMPLETED, SKIPPED and FAILED are "Terminal state".
TerminalIsFinal ==
    [][\A p \in Phases : status[p] \in TerminalStates => status'[p] = status[p]]_vars

\* run.py: COMPLETED is "All phases completed successfully."
CompletedMeansAllCompleted ==
    run.status = "completed" => \A p \in Phases : status[p] = "completed"

=============================================================================
