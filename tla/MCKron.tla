-------------------------------- MODULE MCKron --------------------------------
(* kron, the library under the platform: each part by itself, the others at rest.
   The operation flow is a diamond with a tail: a before b and c, both before d;
   e is independent.                                                            *)
EXTENDS OperationFlow, ModelCalls, Exchange, CoreStructures

CONSTANTS a, b, c, d, e, Parts

VARIABLE part

DiamondPreds == (a :> {} @@ b :> {a} @@ c :> {a} @@ d :> {b, c} @@ e :> {})

KronInit ==
    /\ part \in Parts
    /\ Init /\ (part # "flow" => noBranch = {}) /\ ExchangeInit /\ BranchInit /\ GraphInit
    /\ CallInit /\ limited = (part = "bucket") /\ guarded = (part = "breaker")

\* Every component other than this one is at rest.
Only(own) ==
    /\ IF own = "flow" THEN TRUE ELSE UNCHANGED vars
    /\ IF own = "calls" THEN TRUE ELSE UNCHANGED callVars
    /\ IF own = "exchange" THEN TRUE ELSE UNCHANGED exchangeVars
    /\ IF own = "branches" THEN TRUE ELSE UNCHANGED branchVars
    /\ IF own = "graph" THEN TRUE ELSE UNCHANGED <<graphVars, builderVars>>
    /\ UNCHANGED part

KronNext ==
    \/ part = "flow" /\ Next /\ Only("flow")
    \/ part \in {"bucket", "breaker"} /\ CallNext /\ Only("calls")
    \/ part = "exchange" /\ ExchangeNext /\ Only("exchange")
    \/ part = "branches" /\ BranchNext /\ Only("branches")
    \/ part = "graph" /\ GraphNext /\ Only("graph")
    \/ part = "builder" /\ BuilderNext /\ Only("graph")

kronVars == <<vars, callVars, exchangeVars, branchVars, graphVars, builderVars, part>>

\* Each part with the fairness its component states, or less: of the flow only that
\* some task goes on.
KronSpec ==
    /\ KronInit /\ [][KronNext]_kronVars
    /\ WF_vars(part = "flow" /\ Next)
    /\ WF_callVars(part \in {"bucket", "breaker"} /\ Tick)
    /\ \A k \in Callers : WF_callVars(part \in {"bucket", "breaker"} /\ CallerStep(k))
    /\ WF_exchangeVars(part = "exchange" /\ LoopStep)

(* The executor's FlowEnds, in the part that runs a flow. *)
EveryFlowEnds == part = "flow" => FlowEnds

(* iModel.invoke returns to its caller (ReturnsTo), whatever the limiter, the breaker
   and the other callers do. Callers are interchangeable, so one stands for all.   *)
InvokeReturns == ReturnsTo(CHOOSE k \in Callers : TRUE)

(* A message in an outbox to a registered entity arrives (ArrivesAt) while run() loops,
   unless an end of it leaves. Entities are interchangeable, messages are not.     *)
SentArrives == \A i \in 1..MaxMessages : ArrivesAt(CHOOSE o \in Owners : TRUE, i)

(* What kron is asked to do comes to an end: a flow settles, a model call returns to its
   caller, a message reaches its recipient, and stop() ends the loop.              *)
KronProgresses == EveryFlowEnds /\ InvokeReturns /\ SentArrives /\ StopEndsLoop
=============================================================================
