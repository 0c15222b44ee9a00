------------------------------ MODULE EnginePool ------------------------------
(* The pool of policy engines (canon utils/opa/engine.py): a queue of engines
   that threads check out and give back, a lock that guards the bookkeeping but
   not the queue, policies added by draining the queue or lazily on return, and
   one engine per thread outside the queue, which is the one evaluations use.

   An engine is the set of the policies it holds.  A policy of Invalid does not
   parse: loading it raises.                                                   *)
EXTENDS Integers, Sequences, FiniteSets

CONSTANTS Borrowers, RegoFiles, Invalid, PoolSize

ASSUME PoolAssumption == IsFiniteSet(Borrowers) /\ PoolSize \in Nat

NoEngine == {"no engine"}

VARIABLES
    initialized,  \* _initialized
    rego,         \* _policies: the files a new engine is given
    pending,      \* _pending_policies
    available,    \* _available, the queue
    totalEngines, \* _total_engines
    checkedOut,   \* _checked_out
    stage,        \* where each borrower stands in checkout
    inHand,       \* the engine it has
    threadEngine, \* _thread_local.engine of each borrower
    adding,       \* the policy whose add_policy holds the lock, or ""
    drained,      \* the engines it has taken from the queue so far
    dropped       \* how many engines a failed add_policy has left behind

poolVars == <<initialized, rego, pending, available, totalEngines, checkedOut, stage,
              inHand, threadEngine, adding, drained, dropped>>

PoolInit ==
    /\ initialized = FALSE /\ rego = {} /\ pending = {} /\ available = <<>>
    /\ totalEngines = 0 /\ checkedOut = 0
    /\ stage = [b \in Borrowers |-> "idle"]
    /\ inHand = [b \in Borrowers |-> NoEngine]
    /\ threadEngine = [b \in Borrowers |-> NoEngine]
    /\ adding = "" /\ drained = <<>> /\ dropped = 0

LockFree == adding = ""

\* A new engine: every file that parses, the others skipped with a warning.
_create_engine == rego \ Invalid

\* The first caller reads the files there are (_load_policies) and fills the queue;
\* if one engine cannot be made, none is published.
initialize ==
    /\ ~initialized /\ LockFree
    /\ initialized' = TRUE
    /\ \E found \in SUBSET RegoFiles :
        /\ rego' = rego \cup found
        /\ available' = [i \in 1..PoolSize |-> (rego \cup found) \ Invalid]
    /\ totalEngines' = PoolSize
    /\ UNCHANGED <<pending, checkedOut, stage, inHand, threadEngine, adding, drained, dropped>>

\* checkout, up to the queue's answer: an engine, or Empty after the timeout.
TakeEngine(b) ==
    /\ initialized /\ stage[b] = "idle" /\ available # <<>>
    /\ available' = Tail(available)
    /\ inHand' = [inHand EXCEPT ![b] = Head(available)]
    /\ stage' = [stage EXCEPT ![b] = "taken"]
    /\ UNCHANGED <<initialized, rego, pending, totalEngines, checkedOut, threadEngine, adding, drained, dropped>>

Exhausted(b) ==
    /\ initialized /\ stage[b] = "idle" /\ available = <<>>
    /\ stage' = [stage EXCEPT ![b] = "refused"]
    /\ UNCHANGED <<initialized, rego, pending, available, totalEngines, checkedOut, inHand, threadEngine, adding, drained, dropped>>

GiveUp(b) ==
    /\ stage[b] = "refused" /\ LockFree
    /\ stage' = [stage EXCEPT ![b] = "idle"]
    /\ UNCHANGED <<initialized, rego, pending, available, totalEngines, checkedOut, inHand, threadEngine, adding, drained, dropped>>

\* ... the bookkeeping, under the lock the queue does not need.
CountOut(b) ==
    /\ stage[b] = "taken" /\ LockFree
    /\ checkedOut' = checkedOut + 1
    /\ stage' = [stage EXCEPT ![b] = "using"]
    /\ UNCHANGED <<initialized, rego, pending, available, totalEngines, inHand, threadEngine, adding, drained, dropped>>

\* The body ends; an exception in it, or in clearing the input, poisons the engine.
EndUse(b) ==
    /\ stage[b] = "using"
    /\ \E end \in {"clean", "poisoned"} : stage' = [stage EXCEPT ![b] = end]
    /\ UNCHANGED <<initialized, rego, pending, available, totalEngines, checkedOut, inHand, threadEngine, adding, drained, dropped>>

\* A clean engine is given the pending policies that load ...
_apply_pending_policies(b) ==
    /\ stage[b] = "clean" /\ (pending # {} => LockFree)
    /\ inHand' = [inHand EXCEPT ![b] = @ \cup (pending \ Invalid)]
    /\ stage' = [stage EXCEPT ![b] = "returning"]
    /\ UNCHANGED <<initialized, rego, pending, available, totalEngines, checkedOut, threadEngine, adding, drained, dropped>>

\* ... and goes back into the queue; a poisoned one is replaced, or the pool shrinks.
Return_ForgetsPoisoned(b) ==
    /\ stage[b] \in {"returning", "poisoned"} /\ LockFree
    /\ checkedOut' = IF stage[b] = "returning" THEN checkedOut - 1 ELSE checkedOut
    /\ \/ /\ available' = Append(available, IF stage[b] = "returning" THEN inHand[b] ELSE _create_engine)
          /\ UNCHANGED totalEngines
       \/ /\ stage[b] = "poisoned"
          /\ totalEngines' = totalEngines - 1 /\ UNCHANGED available
    /\ inHand' = [inHand EXCEPT ![b] = NoEngine]
    /\ stage' = [stage EXCEPT ![b] = "idle"]
    /\ UNCHANGED <<initialized, rego, pending, threadEngine, adding, drained, dropped>>

Return(b) ==
    /\ stage[b] \in {"returning", "poisoned"} /\ LockFree
    /\ checkedOut' = checkedOut - 1
    /\ \/ /\ available' = Append(available, IF stage[b] = "returning" THEN inHand[b] ELSE _create_engine)
          /\ UNCHANGED totalEngines
       \/ /\ stage[b] = "poisoned"
          /\ totalEngines' = totalEngines - 1 /\ UNCHANGED available
    /\ inHand' = [inHand EXCEPT ![b] = NoEngine]
    /\ stage' = [stage EXCEPT ![b] = "idle"]
    /\ UNCHANGED <<initialized, rego, pending, threadEngine, adding, drained, dropped>>

\* add_policy takes the lock and, once the pool is filled, drains the queue ...
add_policy(p) ==
    /\ LockFree /\ p \notin rego
    /\ rego' = rego \cup {p}
    /\ adding' = IF initialized THEN p ELSE ""
    /\ UNCHANGED <<initialized, pending, available, totalEngines, checkedOut, stage, inHand, threadEngine, drained, dropped>>

\* ... loading each engine it takes; a policy that does not load raises, and the
\* engines taken so far are in no queue any more ...
Drain ==
    /\ adding # "" /\ available # <<>>
    /\ available' = Tail(available)
    /\ \/ /\ adding \notin Invalid
          /\ drained' = Append(drained, Head(available) \cup {adding})
          /\ UNCHANGED <<adding, dropped>>
       \/ /\ adding \in Invalid
          /\ dropped' = dropped + Len(drained) + 1
          /\ drained' = <<>> /\ adding' = ""
    /\ UNCHANGED <<initialized, rego, pending, totalEngines, checkedOut, stage, inHand, threadEngine>>

\* ... until the queue is empty, when all of them are put back.
PutBack_KeepsLock ==
    /\ adding # "" /\ available = <<>> /\ drained # <<>>
    /\ available' = drained /\ drained' = <<>> /\ UNCHANGED adding
    /\ UNCHANGED <<initialized, rego, pending, totalEngines, checkedOut, stage, inHand, threadEngine, dropped>>

PutBack ==
    /\ adding # "" /\ available = <<>>
    /\ available' = drained /\ drained' = <<>> /\ adding' = ""
    /\ UNCHANGED <<initialized, rego, pending, totalEngines, checkedOut, stage, inHand, threadEngine, dropped>>

add_policy_warm(p) ==
    /\ LockFree /\ p \notin rego
    /\ rego' = rego \cup {p} /\ pending' = pending \cup {p}
    /\ UNCHANGED <<initialized, available, totalEngines, checkedOut, stage, inHand, threadEngine, adding, drained, dropped>>

clear_pending_policies ==
    /\ LockFree /\ pending # {} /\ pending' = {}
    /\ UNCHANGED <<initialized, rego, available, totalEngines, checkedOut, stage, inHand, threadEngine, adding, drained, dropped>>

\* A thread makes its engine once and keeps it.
get_thread_engine(b) ==
    /\ initialized /\ threadEngine[b] = NoEngine
    /\ threadEngine' = [threadEngine EXCEPT ![b] = _create_engine]
    /\ UNCHANGED <<initialized, rego, pending, available, totalEngines, checkedOut, stage, inHand, adding, drained, dropped>>

BorrowerStep(b) ==
    CountOut(b) \/ GiveUp(b) \/ EndUse(b) \/ _apply_pending_policies(b) \/ Return(b)

PoolNext ==
    \/ initialize \/ Drain \/ PutBack \/ clear_pending_policies
    \/ \E p \in RegoFiles : add_policy(p) \/ add_policy_warm(p)
    \/ \E b \in Borrowers :
        TakeEngine(b) \/ Exhausted(b) \/ BorrowerStep(b) \/ get_thread_engine(b)

PoolSpec == PoolInit /\ [][PoolNext]_poolVars

-----------------------------------------------------------------------------
Holding(stages) == {b \in Borrowers : stage[b] \in stages}

(* The pool never loses count: the engines in the queue, in a borrower's hands
   and in the hands of a draining add_policy, with those a failed add_policy has
   left behind, are the total the pool reports, and checked_out counts exactly
   the borrowers between the two locked sections of checkout - whatever was
   poisoned, could not be replaced, or was taken while a policy was being added. *)
EnginesAccounted ==
    /\ totalEngines = Len(available) + Len(drained) + dropped
                      + Cardinality(Holding({"taken", "using", "clean", "returning", "poisoned"}))
    /\ checkedOut = Cardinality(Holding({"using", "clean", "returning", "poisoned"}))
    /\ totalEngines <= PoolSize

(* Everyone who checked an engine out gives it back or its replacement, even
   while policies are being added.                                             *)
CheckoutEnds == \A b \in Borrowers : stage[b] # "idle" ~> stage[b] = "idle"
=============================================================================
