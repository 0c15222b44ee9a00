----------------------------- MODULE WorkflowRuns -----------------------------
(***************************************************************************)
(* The workflow vocabulary: a run is a row that is created and completed,   *)
(* and every phrase leaves evidence in a statement after the row's.         *)
(***************************************************************************)
EXTENDS Rows

CONSTANTS
    WorkflowClients,   \* concurrent requests
    MaxRuns            \* bound: rows of workflow_runs

ASSUME RunAssumption == Null # "now"

VARIABLES
    workflow_runs,
    runEvidence,     \* [type, run]
    workflowReq      \* workflowReq[c]: the statements c has still to send

workflowVars == <<workflow_runs, runEvidence, workflowReq>>

WorkflowIdle == [at |-> "idle"]

WorkflowInit ==
    /\ workflow_runs = <<>>
    /\ runEvidence = {}
    /\ workflowReq = [c \in WorkflowClients |-> WorkflowIdle]

Then(c, at, run) == workflowReq' = [workflowReq EXCEPT ![c] = [at |-> at, run |-> run]]

create_workflow_run(c) ==
    /\ workflowReq[c] = WorkflowIdle
    /\ Cardinality(DOMAIN workflow_runs) < MaxRuns
    /\ workflow_runs' = insert(workflow_runs, NextId(workflow_runs), [status |-> "pending", completed_at |-> Null])
    /\ Then(c, "created", NextId(workflow_runs))
    /\ UNCHANGED runEvidence

\* Mutant: the evidence of completion is saved before the row is updated
CompleteSelect_RecordsFirst(c, run) ==
    /\ workflowReq[c] = WorkflowIdle
    /\ workflow_runs[run].status \notin {"completed", "failed"}
    /\ Then(c, "completed", run)
    /\ UNCHANGED <<workflow_runs, runEvidence>>

CompleteSelect(c, run) ==
    /\ workflowReq[c] = WorkflowIdle
    /\ workflow_runs[run].status \notin {"completed", "failed"}
    /\ Then(c, "update", run)
    /\ UNCHANGED <<workflow_runs, runEvidence>>

CompleteUpdate(c) ==
    /\ workflowReq[c].at = "update"
    /\ workflow_runs' = [workflow_runs EXCEPT ![workflowReq[c].run] = [status |-> "completed", completed_at |-> "now"]]
    /\ Then(c, "completed", workflowReq[c].run)
    /\ UNCHANGED runEvidence

\* save_evidence, the last statement of a phrase
SaveRunEvidence(c) ==
    /\ workflowReq[c].at \in {"created", "completed"}
    /\ runEvidence' = runEvidence \cup {[type |-> workflowReq[c].at, run |-> workflowReq[c].run]}
    /\ workflowReq' = [workflowReq EXCEPT ![c] = WorkflowIdle]
    /\ UNCHANGED workflow_runs

\* Neither looks at the run.
record_workflow_step(run) ==
    /\ runEvidence' = runEvidence \cup {[type |-> "step", run |-> run]}
    /\ UNCHANGED <<workflow_runs, workflowReq>>

record_vendor_call(run) ==
    /\ runEvidence' = runEvidence \cup {[type |-> "vendor", run |-> run]}
    /\ UNCHANGED <<workflow_runs, workflowReq>>

\* Status changes made by other code
run_status_changed(run, status) ==
    /\ workflow_runs[run].status \in {"pending", "running"}
    /\ workflow_runs' = [workflow_runs EXCEPT ![run].status = status]
    /\ UNCHANGED <<runEvidence, workflowReq>>

WorkflowAbort(c) ==
    /\ workflowReq[c] # WorkflowIdle
    /\ workflowReq' = [workflowReq EXCEPT ![c] = WorkflowIdle]
    /\ UNCHANGED <<workflow_runs, runEvidence>>

require_workflow_complete(run) ==
    IF run \notin DOMAIN workflow_runs THEN "not found"
    ELSE IF workflow_runs[run].status # "completed" THEN "not complete" ELSE "ok"

WorkflowNext ==
    \/ \E c \in WorkflowClients :
          create_workflow_run(c) \/ CompleteUpdate(c) \/ SaveRunEvidence(c) \/ WorkflowAbort(c)
    \/ \E c \in WorkflowClients, run \in DOMAIN workflow_runs : CompleteSelect(c, run)
    \/ \E run \in DOMAIN workflow_runs : record_workflow_step(run) \/ record_vendor_call(run)
    \/ \E run \in DOMAIN workflow_runs, s \in {"running", "failed"} : run_status_changed(run, s)

WorkflowSpec == WorkflowInit /\ [][WorkflowNext]_workflowVars

\* Evidence never runs ahead of the row it is about, whatever overlaps or is cut off: evidence
\* of creation names a run that exists, evidence of completion a run for which
\* require_workflow_complete succeeds, with the time of completion in its row.
EvidenceFollowsRun ==
    \A e \in runEvidence :
        /\ require_workflow_complete(e.run) # "not found"
        /\ e.type = "completed" => /\ require_workflow_complete(e.run) = "ok"
                                   /\ workflow_runs[e.run].completed_at # Null
=============================================================================
