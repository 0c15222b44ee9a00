-------------------------- MODULE MCCharterRuntime --------------------------
(* Small charters for CharterRuntime. *)
EXTENDS CharterRuntime, TLC

Passed(p) == [kind |-> "phase", phase |-> p, condition |-> "passed"]
Complete(p) == [kind |-> "phase", phase |-> p, condition |-> "complete"]
Unknown(p) == [kind |-> "phase", phase |-> p, condition |-> "other"]
AwaitRef(t) == [kind |-> "await", trigger |-> t]
Feature == [kind |-> "feature"]

\* A chain behind a join, with a phase that awaits one of two triggers.
ForkRequires == <<<<>>, <<Passed(1)>>, <<Passed(1)>>, <<Passed(2), Passed(3)>>>>
ForkAwaits == <<{}, {"t1"}, {"t1", "t2"}, {}>>

\* Every kind of require node, and a join of the two entry phases.
MixedRequires == <<<<Feature>>, <<>>, <<Passed(1)>>, <<Passed(1), Passed(2), AwaitRef("t1")>>,
                   <<Passed(1), Complete(2)>>, <<Unknown(2), [kind |-> "builtin"]>>>>
MixedAwaits == <<{}, {}, {"t1"}, {}, {}, {}>>

\* Two independent entry phases.
ParallelRequires == <<<<>>, <<>>>>
ParallelAwaits == <<{}, {}>>

Symmetry == Permutations(Handlers)
=============================================================================
