---------------------------- MODULE OperationFlow ----------------------------
(***************************************************************************)
(* kron.operations.flow.DependencyAwareExecutor: one task per operation of  *)
(* a DAG, coordinated by completion events and a capacity limiter inside a  *)
(* CompletionStream, whose task group cancels every task when one raises.   *)
(* A step is what a task does between two await points.                     *)
(*                                                                         *)
(* Names, responses and the progress log are left out.  Operations are      *)
(* kron.core.event.Event objects: invoke() turns every Exception of the     *)
(* operation into a status.                                                 *)
(***************************************************************************)
EXTENDS Integers, FiniteSets

CONSTANTS
    Ops,          \* the Operation nodes of the graph
    Preds,        \* Preds[o]: graph.get_predecessors(o)
    Limit,        \* max_concurrent; 0: no limiter
    StopOnError,  \* stop_on_error
    NoBranch,     \* operations that _preallocate_branches may leave without a branch
    AlreadyRun    \* operations whose invoke() has completed before

ASSUME FlowAssumption ==
    /\ IsFiniteSet(Ops)
    /\ Preds \in [Ops -> SUBSET Ops]
    /\ Limit \in Nat
    /\ StopOnError \in BOOLEAN
    /\ NoBranch \subseteq Ops
    /\ AlreadyRun \subseteq Ops

VARIABLES
    pc,        \* pc[o]: where the task of o waits
    status,    \* operation.execution.status
    results, errors,   \* the operations in self.results and self.errors
    events,    \* the operations whose completion event is set
    holding,   \* the tasks that hold a slot of the limiter
    stream,    \* operations sent to the CompletionStream and not received
    received,  \* operations received by the async for loop
    group,     \* the task group: running, cancelling, and how execute() ended
    noBranch   \* the operations without a branch in this flow

vars == <<pc, status, results, errors, events, holding, stream, received, group, noBranch>>

Init ==
    /\ pc = [o \in Ops |-> "wait"]
    /\ status = [o \in Ops |-> IF o \in AlreadyRun THEN "completed" ELSE "pending"]
    /\ results = {} /\ errors = {}
    /\ events = {}
    /\ holding = {}
    /\ stream = {} /\ received = {}
    /\ group = "running"
    /\ noBranch \in SUBSET NoBranch

Goto(o, label) == pc' = [pc EXCEPT ![o] = label]

\* Mutant: a slot is taken before the dependencies are waited for.
WaitForDependencies_Slot(o) ==
    /\ group = "running"
    /\ \/ /\ pc[o] = "wait" /\ o \notin holding
          /\ Cardinality(holding) < Limit
          /\ holding' = holding \cup {o}
          /\ UNCHANGED pc
       \/ /\ pc[o] = "wait" /\ o \in holding
          /\ Preds[o] \subseteq events
          /\ Goto(o, "invoke")
          /\ UNCHANGED holding
    /\ UNCHANGED <<status, results, errors, events, stream, received, group>>

\* _wait_for_dependencies returns once the event of every predecessor is set.
WaitForDependencies(o) ==
    /\ group = "running"
    /\ pc[o] = "wait"
    /\ Preds[o] \subseteq events
    /\ Goto(o, IF Limit = 0 THEN "invoke" ELSE "acquire")
    /\ UNCHANGED <<status, results, errors, events, holding, stream, received, group>>

Acquire(o) ==
    /\ group = "running"
    /\ pc[o] = "acquire"
    /\ Cardinality(holding) < Limit
    /\ holding' = holding \cup {o}
    /\ Goto(o, "invoke")
    /\ UNCHANGED <<status, results, errors, events, stream, received, group>>

\* The except and finally clauses of _execute_operation for an exception e of
\* _invoke_operation: the slot is released, the error stored, the event set.
Fail(o) ==
    /\ holding' = holding \ {o}
    /\ errors' = errors \cup {o}
    /\ events' = events \cup {o}
    /\ IF StopOnError
       THEN group' = "cancelling" /\ Goto(o, "ended")
       ELSE UNCHANGED group /\ Goto(o, "send")
    /\ UNCHANGED <<status, results, stream, received>>

\* _invoke_operation stored an error or a result; nothing is raised.
Settle(o, ok) ==
    /\ holding' = holding \ {o}
    /\ results' = IF ok THEN results \cup {o} ELSE results
    /\ errors' = IF ok THEN errors ELSE errors \cup {o}
    /\ events' = events \cup {o}
    /\ Goto(o, "send")
    /\ UNCHANGED <<stream, received, group>>

\* No branch: ValueError.  Otherwise invoke(), which is a no-op unless PENDING.  There is
\* no await between the slot and this point, so a cancellation may come later.
BeginInvoke(o) ==
    /\ pc[o] = "invoke"
    /\ \/ /\ o \in noBranch
          /\ Fail(o)
       \/ /\ o \notin noBranch /\ status[o] = "pending"
          /\ status' = [status EXCEPT ![o] = "processing"]
          /\ Goto(o, "run")
          /\ UNCHANGED <<results, errors, events, holding, stream, received, group>>
       \/ /\ o \notin noBranch /\ status[o] # "pending"
          /\ Settle(o, status[o] = "completed")
          /\ UNCHANGED status

\* Event.invoke ends: a response, an Exception (FAILED) or a timeout (CANCELLED).
FinishInvoke(o, s) ==
    /\ pc[o] = "run"
    /\ status' = [status EXCEPT ![o] = s]
    /\ Settle(o, s = "completed")

\* CompletionStream._runner: the buffer has room for every task.
Send(o) ==
    /\ pc[o] = "send"
    /\ group = "running"
    /\ stream' = stream \cup {o}
    /\ Goto(o, "ended")
    /\ UNCHANGED <<status, results, errors, events, holding, received, group>>

\* Mutant: a cancelled task keeps its slot.
Cancelled_KeepsSlot(o) ==
    /\ group = "cancelling"
    /\ pc[o] # "ended"
    /\ status' = [status EXCEPT ![o] = IF pc[o] = "run" THEN "cancelled" ELSE @]
    /\ events' = events \cup {o}
    /\ Goto(o, "ended")
    /\ UNCHANGED <<results, errors, stream, holding, received, group>>

\* CancelledError is no Exception: it passes the except clause of
\* _execute_operation; the finally clauses release the slot and set the event.
Cancelled(o) ==
    /\ group = "cancelling"
    /\ pc[o] # "ended"
    /\ status' = [status EXCEPT ![o] = IF pc[o] = "run" THEN "cancelled" ELSE @]
    /\ holding' = holding \ {o}
    /\ events' = events \cup {o}
    /\ Goto(o, "ended")
    /\ UNCHANGED <<results, errors, stream, received, group>>

\* CompletionStream.__anext__
Receive(o) ==
    /\ group = "running"
    /\ o \in stream
    /\ stream' = stream \ {o}
    /\ received' = received \cup {o}
    /\ UNCHANGED <<pc, status, results, errors, events, holding, group>>

\* The loop has counted every task, or the task group re-raises once all have ended.
Exit ==
    /\ \/ group = "running" /\ received = Ops /\ group' = "returned"
       \/ group = "cancelling" /\ (\A o \in Ops : pc[o] = "ended") /\ group' = "raised"
    /\ UNCHANGED <<pc, status, results, errors, events, holding, stream, received, noBranch>>

Step(o) ==
    /\ \/ WaitForDependencies(o) \/ Acquire(o) \/ BeginInvoke(o)
       \/ \E s \in {"completed", "failed", "cancelled"} : FinishInvoke(o, s)
       \/ Send(o) \/ Cancelled(o) \/ Receive(o)
    /\ UNCHANGED noBranch

Next == Exit \/ \E o \in Ops : Step(o)

Spec == Init /\ [][Next]_vars

\* The event loop runs every task that is ready; operations end.
FairSpec == Spec /\ WF_vars(Exit) /\ \A o \in Ops : WF_vars(Step(o))

-----------------------------------------------------------------------------
(* Properties.                                                              *)

Labels == {"wait", "acquire", "invoke", "run", "send", "ended"}

\* Statuses are EventStatus values and the bookkeeping is about operations of the graph.
TypeOK ==
    /\ pc \in [Ops -> Labels]
    /\ status \in [Ops -> {"pending", "processing", "completed", "failed", "cancelled"}]
    /\ results \subseteq Ops /\ errors \subseteq Ops /\ events \subseteq Ops
    /\ holding \subseteq Ops /\ stream \subseteq Ops /\ received \subseteq Ops
    /\ group \in {"running", "cancelling", "returned", "raised"}
    /\ noBranch \subseteq NoBranch

\* _execute_operation invokes an operation only after every predecessor has left a
\* result or an error, also when siblings fail and the task group is being cancelled.
InvokedAfterPredecessors ==
    \A o \in Ops : pc[o] = "run" => Preds[o] \subseteq results \cup errors

\* "Max parallel operations": never more than max_concurrent operations run, and the
\* slots are all given back however the flow ends.
ConcurrencyLimit ==
    /\ Limit > 0 => Cardinality({o \in Ops : pc[o] = "run"}) <= Limit
    /\ group \in {"returned", "raised"} => holding = {}

\* A flow that returns has, for every operation, a result or an error and not both.
EveryOperationSettled ==
    group = "returned" => results \cup errors = Ops /\ results \cap errors = {}

\* A flow keeps to its dependencies and its limit and leaves nothing open, whatever fails, times
\* out or is cancelled.
FlowSafe == InvokedAfterPredecessors /\ ConcurrencyLimit /\ EveryOperationSettled

\* "This ensures limiter slots are only held by tasks ready to execute": no set of
\* slots and dependencies can block the flow, it returns or raises.
FlowEnds == <>(group \in {"returned", "raised"})

\* flow.py: "Exception: First operation error if stop_on_error=True."
StopsOnError == StopOnError /\ group = "returned" => errors = {}

=============================================================================
