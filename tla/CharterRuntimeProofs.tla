------------------------ MODULE CharterRuntimeProofs ------------------------
(***************************************************************************)
(* TypeOK, RequiresFirst and DependenciesFirst of CharterRuntime, for every *)
(* charter, every set of requests, both connection modes and any number of  *)
(* crashes.  And what the runtime answers from its rows: inboxes, role      *)
(* requirements and the situations of a charter.                            *)
(***************************************************************************)
EXTENDS CharterRuntime, RuntimeChecks, WellFoundedInduction, TLAPS

\* The phases that the writes t complete.
Completions(t) == {p \in Phases : t.phase[p] = "completed"}

\* The phases whose completion request h can see.
Done(h) == completedOnce \cup Completions(tx[h])

\* The trigger evidence that request h can see.
Seen(h) == evidence \cup tx[h].evidence

\* Require node r is met, D being the completed phases and E the trigger evidence.
MetBy(r, D, E) ==
    \/ r.kind = "phase" /\ r.condition # "other" /\ r.phase \in D
    \/ r.kind = "await" /\ \E p \in Phases : <<p, r.trigger>> \in E

\* Phase p may be started.
Ready(p, D, E) ==
    p \in EntryPhases \/ \A k \in DOMAIN Requires[p] : MetBy(Requires[p][k], D, E)

\* The writes t start a phase only when its requires are met.
TxGate(t) ==
    \A p \in Phases :
        t.phase[p] \in Started =>
            Ready(p, completedOnce \cup Completions(t), evidence \cup t.evidence)

\* The labels at which a transaction may hold a completion.
CascadeLabels == {"set_current", "evaluate", "activate_read", "activate_write",
                  "check_complete", "complete_run", "commit"}

\* What the local variables l of a request at a label know, D being the completions
\* and E the evidence it can see and t its uncommitted writes.
LocFact(label, l, D, E, t) ==
    /\ label \in {"mark_completed", "mark_failed"} =>
          l.arg \in Phases /\ Ready(l.arg, D, E)
    /\ label \in {"trigger_update", "trigger_evidence"} =>
          l.arg \in Phases /\ l.trig \in Triggers
    /\ label = "skip_phase" => l.arg \in Phases
    /\ label \in {"evaluate", "activate_read", "activate_write"} => l.down \in Phases
    /\ label = "evaluate" /\ l.unsatisfied = 0 =>
          \A k \in DOMAIN Requires[l.down] :
              k < l.req => MetBy(Requires[l.down][k], D, E)
    /\ label \in {"activate_read", "activate_write"} => Ready(l.down, D, E)
    /\ label = "activate_write" => t.phase[l.down] # "completed"

\* The committed statuses.
DbInv ==
    /\ \A p \in Phases : status[p] = "completed" => p \in completedOnce
    /\ \A p \in Phases : status[p] \in Started => Ready(p, completedOnce, evidence)

HandlerInv(h) ==
    /\ TxGate(tx[h])
    /\ Completions(tx[h]) # {} => pc[h] \in CascadeLabels
    /\ LocFact(pc[h], loc[h], Done(h), Seen(h), tx[h])

\* The inductive invariant.
IInv == TypeOK /\ DbInv /\ \A h \in Handlers : HandlerInv(h)

-----------------------------------------------------------------------------

LEMMA EmptyTxFacts ==
    /\ EmptyTx \in TxType
    /\ Completions(EmptyTx) = {}
    /\ TxGate(EmptyTx)
BY Zenon DEF EmptyTx, TxType, Completions, TxGate, Unwritten, NoRunWrite, Started, PhaseState

LEMMA IdleLocFacts ==
    /\ IdleLoc \in LocType
    /\ \A label \in {"idle", "commit", "complete_run", "fail_run", "check_complete"} :
          \A D, E, t : LocFact(label, IdleLoc, D, E, t)
BY DEF IdleLoc, LocType, LocFact

\* What is met stays met when completions and evidence are added.
LEMMA ReadyMonotone ==
    ASSUME NEW D, NEW E, NEW D1, NEW E1, D \subseteq D1, E \subseteq E1
    PROVE  /\ \A r : MetBy(r, D, E) => MetBy(r, D1, E1)
           /\ \A p : Ready(p, D, E) => Ready(p, D1, E1)
<1>1. \A r : MetBy(r, D, E) => MetBy(r, D1, E1)
  BY Zenon DEF MetBy
<1> QED
  BY <1>1, Zenon DEF Ready

\* Knowledge is never lost when completions and evidence are added.
LEMMA LocFactMonotone ==
    ASSUME NEW label, NEW l, NEW D, NEW E, NEW D1, NEW E1, NEW t,
           D \subseteq D1, E \subseteq E1, LocFact(label, l, D, E, t)
    PROVE  LocFact(label, l, D1, E1, t)
<1>1. /\ \A r : MetBy(r, D, E) => MetBy(r, D1, E1)
      /\ \A p : Ready(p, D, E) => Ready(p, D1, E1)
  BY ReadyMonotone, Zenon
<1> QED
  BY <1>1, Zenon DEF LocFact

\* Publishing gated writes keeps the committed statuses gated.
LEMMA PublishDb ==
    ASSUME TypeOK, DbInv, NEW h \in Handlers, NEW t \in TxType, TxGate(t), Publish(h, t)
    PROVE  /\ DbInv'
           /\ completedOnce' = completedOnce \cup Completions(t)
           /\ tx' = [tx EXCEPT ![h] = EmptyTx]
           /\ status' \in [Phases -> PhaseState \cup {Absent}]
           /\ run' \in RunRow
           /\ evidence' \subseteq Phases \X Triggers
<1> USE DEF Publish, TypeOK, TxType
<1>1. completedOnce' = completedOnce \cup Completions(t)
  BY Zenon DEF Completions
<1>2. /\ status' \in [Phases -> PhaseState \cup {Absent}]
      /\ run' \in RunRow
      /\ evidence' \subseteq Phases \X Triggers
      /\ tx' = [tx EXCEPT ![h] = EmptyTx]
  BY Zenon
<1>3. ASSUME NEW p \in Phases, status'[p] = "completed" PROVE p \in completedOnce'
  BY <1>1, <1>3, Zenon DEF DbInv, Completions, Unwritten
<1>4. ASSUME NEW p \in Phases, status'[p] \in Started
      PROVE  Ready(p, completedOnce', evidence')
  <2>1. CASE t.phase[p] # Unwritten
    BY <1>1, <1>4, <2>1, Zenon DEF TxGate
  <2>2. CASE t.phase[p] = Unwritten
    <3>1. Ready(p, completedOnce, evidence)
      BY <1>4, <2>2, Zenon DEF DbInv
    <3>2. completedOnce \subseteq completedOnce' /\ evidence \subseteq evidence'
      BY Zenon
    <3> HIDE DEF Publish, TypeOK, TxType
    <3>3. Ready(p, completedOnce, evidence) => Ready(p, completedOnce', evidence')
      BY <3>2, ReadyMonotone, Zenon
    <3> QED
      BY <3>1, <3>3, Zenon
  <2> QED
    BY <2>1, <2>2, Zenon
<1>5. DbInv'
  BY <1>3, <1>4, Zenon DEF DbInv
<1> QED
  BY <1>1, <1>2, <1>5, Zenon

\* The other requests keep their invariant when completions are added and their own
\* state is untouched.
LEMMA OtherHandlers ==
    ASSUME NEW g \in Handlers, HandlerInv(g),
           tx'[g] = tx[g], pc'[g] = pc[g], loc'[g] = loc[g],
           completedOnce \subseteq completedOnce', evidence \subseteq evidence'
    PROVE  HandlerInv(g)'
<1>1. Done(g) \subseteq Done(g)' /\ Seen(g) \subseteq Seen(g)'
  BY Zenon DEF Done, Seen, Completions
<1>2. TxGate(tx[g])'
  <2>1. ASSUME NEW p \in Phases, tx[g].phase[p] \in Started
        PROVE  Ready(p, Done(g)', Seen(g)')
    <3>1. Ready(p, Done(g), Seen(g))
      BY <2>1, Zenon DEF HandlerInv, TxGate, Done, Seen
    <3>2. Ready(p, Done(g), Seen(g)) => Ready(p, Done(g)', Seen(g)')
      BY <1>1, ReadyMonotone, Zenon
    <3> QED
      BY <3>1, <3>2, Zenon
  <2> QED
    BY <2>1, Zenon DEF TxGate, Done, Seen, Completions, Ready, MetBy, EntryPhases, RequiresPhases
<1>3. (Completions(tx[g]) # {} => pc[g] \in CascadeLabels)'
  BY Zenon DEF HandlerInv, Completions
<1>4. LocFact(pc[g], loc[g], Done(g)', Seen(g)', tx[g])
  <2>1. LocFact(pc[g], loc[g], Done(g), Seen(g), tx[g])
    BY Zenon DEF HandlerInv
  <2> QED
    BY <1>1, <2>1, LocFactMonotone, Zenon
<1>5. LocFact(pc[g], loc[g], Done(g), Seen(g), tx[g])'
  BY <1>4, Zenon DEF LocFact, Seen, Ready, MetBy,
         EntryPhases, RequiresPhases
<1> QED
  BY <1>2, <1>3, <1>5, Zenon DEF HandlerInv

\* A step that reads and moves on.
LEMMA ReadStep ==
    ASSUME IInv, NEW h \in Handlers, NEW label \in Labels, NEW l \in LocType,
           Read, Goto(h, label, l),
           Completions(tx[h]) # {} => label \in CascadeLabels,
           LocFact(label, l, Done(h), Seen(h), tx[h])
    PROVE  IInv'
<1> USE DEF IInv, Read, Goto
<1>1. TypeOK'
  BY Zenon DEF TypeOK
<1>2. DbInv'
  BY Zenon DEF DbInv
<1>3. /\ tx' = tx /\ completedOnce' = completedOnce
      /\ pc'[h] = label /\ loc'[h] = l
  BY Zenon DEF TypeOK
<1>4. HandlerInv(h)'
  <2>1. TxGate(tx[h])'
    BY <1>3, Zenon DEF HandlerInv, TxGate, Completions
  <2>2. (Completions(tx[h]) # {} => pc[h] \in CascadeLabels)'
    BY <1>3, Zenon DEF Completions
  <2>3. LocFact(pc[h], loc[h], Done(h), Seen(h), tx[h])'
    BY <1>3, ZenonT(40) DEF LocFact, Done, Completions, Seen, Ready, MetBy,
         EntryPhases, RequiresPhases
  <2> QED
    BY <2>1, <2>2, <2>3, Zenon DEF HandlerInv
<1>5. ASSUME NEW g \in Handlers, g # h PROVE HandlerInv(g)'
  BY <1>3, <1>5, OtherHandlers, Zenon DEF TypeOK
<1> QED
  BY <1>1, <1>2, <1>4, <1>5, Zenon

\* A step that adds to the uncommitted writes, and moves on.
LEMMA BufferStep ==
    ASSUME IInv, NEW h \in Handlers, NEW label \in Labels, NEW l \in LocType,
           NEW t \in TxType,
           tx' = [tx EXCEPT ![h] = t], UNCHANGED <<status, run, evidence, completedOnce>>,
           Goto(h, label, l),
           TxGate(t), Completions(t) # {} => label \in CascadeLabels,
           LocFact(label, l, completedOnce \cup Completions(t), evidence \cup t.evidence, t)
    PROVE  IInv'
<1> USE DEF IInv, Goto
<1>1. TypeOK'
  BY Zenon DEF TypeOK
<1>2. DbInv'
  BY Zenon DEF DbInv
<1>3. /\ tx'[h] = t /\ completedOnce' = completedOnce
      /\ pc'[h] = label /\ loc'[h] = l
  BY Zenon DEF TypeOK
<1>4. HandlerInv(h)'
  <2>1. TxGate(tx[h])'
    BY <1>3, Zenon DEF TxGate, Completions
  <2>2. (Completions(tx[h]) # {} => pc[h] \in CascadeLabels)'
    BY <1>3, Zenon DEF Completions
  <2>3. LocFact(pc[h], loc[h], Done(h), Seen(h), tx[h])'
    BY <1>3, ZenonT(40) DEF LocFact, Done, Completions, Seen, Ready, MetBy,
         EntryPhases, RequiresPhases
  <2> QED
    BY <2>1, <2>2, <2>3, Zenon DEF HandlerInv
<1>5. ASSUME NEW g \in Handlers, g # h PROVE HandlerInv(g)'
  BY <1>5, OtherHandlers, Zenon DEF TypeOK
<1> QED
  BY <1>1, <1>2, <1>4, <1>5, Zenon

\* A step that publishes the writes t, and moves on.
LEMMA PublishStep ==
    ASSUME IInv, NEW h \in Handlers, NEW label \in Labels, NEW l \in LocType,
           NEW t \in TxType,
           Publish(h, t), Goto(h, label, l), TxGate(t),
           LocFact(label, l, completedOnce \cup Completions(t), evidence \cup t.evidence, EmptyTx)
    PROVE  IInv'
<1> USE DEF IInv, Goto
<1>1. /\ pc'[h] = label /\ loc'[h] = l
      /\ pc' \in [Handlers -> Labels] /\ loc' \in [Handlers -> LocType]
      /\ crashes' \in 0..MaxCrashes
  BY Zenon DEF TypeOK
<1>2. /\ DbInv'
      /\ completedOnce' = completedOnce \cup Completions(t)
      /\ tx' = [tx EXCEPT ![h] = EmptyTx]
      /\ status' \in [Phases -> PhaseState \cup {Absent}]
      /\ run' \in RunRow
      /\ evidence' \subseteq Phases \X Triggers
  BY PublishDb, Zenon
<1>3. completedOnce' \subseteq Phases
  BY <1>2, Zenon DEF TypeOK, Completions
<1>4. tx'[h] = EmptyTx /\ tx' \in [Handlers -> TxType]
  BY <1>2, EmptyTxFacts, Zenon DEF TypeOK
<1>5. TypeOK'
  BY <1>1, <1>2, <1>3, <1>4, Zenon DEF TypeOK
<1>6. HandlerInv(h)'
  <2>1. TxGate(tx[h])'
    BY <1>4, EmptyTxFacts DEF TxGate, EmptyTx, Unwritten, Started, PhaseState
  <2>2. (Completions(tx[h]) # {} => pc[h] \in CascadeLabels)'
    BY <1>4, EmptyTxFacts, Zenon DEF Completions
  <2>3. Done(h)' = completedOnce \cup Completions(t) /\ Seen(h)' = evidence \cup t.evidence
    BY <1>2, <1>4, EmptyTxFacts DEF Done, Seen, Completions, EmptyTx, Publish
  <2>4. LocFact(pc[h], loc[h], Done(h), Seen(h), tx[h])'
    BY <1>1, <1>4, <2>3, Zenon DEF LocFact, Seen, Ready, MetBy,
         EntryPhases, RequiresPhases
  <2> QED
    BY <2>1, <2>2, <2>4, Zenon DEF HandlerInv
<1>7. ASSUME NEW g \in Handlers, g # h PROVE HandlerInv(g)'
  BY <1>2, <1>7, OtherHandlers, Zenon DEF TypeOK, Publish
<1> QED
  BY <1>2, <1>5, <1>6, <1>7, Zenon

\* A statement that leaves the writes t, in its transaction or in the database.
LEMMA WriteStep ==
    ASSUME IInv, NEW h \in Handlers, NEW label \in Labels, NEW l \in LocType,
           NEW t \in TxType,
           Exec(h, t), Goto(h, label, l),
           TxGate(t), Completions(t) # {} => label \in CascadeLabels,
           LocFact(label, l, completedOnce \cup Completions(t), evidence \cup t.evidence, t),
           LocFact(label, l, completedOnce \cup Completions(t), evidence \cup t.evidence, EmptyTx)
    PROVE  IInv'
BY BufferStep, PublishStep, Zenon DEF Exec

-----------------------------------------------------------------------------
(* What the statements write.                                               *)

\* A write to the run or to the evidence does not touch the phases.
LEMMA OtherRowWrite ==
    ASSUME IInv, NEW h \in Handlers, NEW t \in TxType,
           t.phase = tx[h].phase, tx[h].evidence \subseteq t.evidence
    PROVE  Completions(t) = Completions(tx[h]) /\ TxGate(t)
<1>1. Completions(t) = Completions(tx[h])
  BY Zenon DEF Completions
<1>2. TxGate(tx[h])
  BY Zenon DEF IInv, HandlerInv
<1> DEFINE D == completedOnce \cup Completions(tx[h])
           E == evidence \cup tx[h].evidence
           D1 == completedOnce \cup Completions(t)
           E1 == evidence \cup t.evidence
<1>3. D \subseteq D1 /\ E \subseteq E1
  BY <1>1, Zenon
<1> HIDE DEF D, E, D1, E1
<1>4. \A p : Ready(p, D, E) => Ready(p, D1, E1)
  BY <1>3, ReadyMonotone, Zenon
<1> QED
  BY <1>1, <1>2, <1>4, Zenon DEF TxGate, D, E, D1, E1

LEMMA PhaseWrite ==
    ASSUME IInv, NEW h \in Handlers, NEW p \in Phases, NEW s \in PhaseState,
           tx[h].phase[p] = "completed" => s = "completed",
           s \in Started => Ready(p, Done(h), Seen(h)),
           NEW t, t = [tx[h] EXCEPT !.phase[p] = s]
    PROVE  /\ t \in TxType
           /\ TxGate(t)
           /\ Completions(tx[h]) \subseteq Completions(t)
           /\ s # "completed" => Completions(t) = Completions(tx[h])
<1>1. tx[h] \in TxType
  BY Zenon DEF IInv, TypeOK
<1>2. t \in TxType
  BY <1>1, Zenon DEF TxType
<1>3. t.phase = [tx[h].phase EXCEPT ![p] = s]
  BY <1>1, Zenon DEF TxType
<1>4. /\ t.phase[p] = s
      /\ \A q \in Phases : q # p => t.phase[q] = tx[h].phase[q]
  BY <1>1, <1>3, Zenon DEF TxType
<1>5. Completions(tx[h]) \subseteq Completions(t)
  BY <1>4, Zenon DEF Completions
<1>6. s # "completed" => Completions(t) = Completions(tx[h])
  BY <1>4, Zenon DEF Completions
<1>8. t.evidence = tx[h].evidence
  BY <1>1, Zenon DEF TxType
<1>9. \A q : Ready(q, Done(h), Seen(h)) =>
               Ready(q, completedOnce \cup Completions(t), evidence \cup t.evidence)
  BY <1>5, <1>8, ReadyMonotone DEF Done, Seen
<1>7. ASSUME NEW q \in Phases, t.phase[q] \in Started
      PROVE  Ready(q, completedOnce \cup Completions(t), evidence \cup t.evidence)
  <2>1. CASE q = p
    BY <1>4, <1>7, <1>9, <2>1, Zenon
  <2>2. CASE q # p
    BY <1>4, <1>7, <1>9, <2>2, Zenon DEF IInv, HandlerInv, TxGate, Done, Seen
  <2> QED
    BY <2>1, <2>2, Zenon
<1> QED
  BY <1>2, <1>5, <1>6, <1>7, Zenon DEF TxGate

\* The loop over the downstream phases starts an evaluation knowing nothing yet.
LEMMA NextDownstreamFacts ==
    ASSUME NEW h \in Handlers, loc[h] \in LocType, NEW k, NextDownstream(h, k)
    PROVE  \E label \in Labels, l \in LocType :
              /\ Goto(h, label, l)
              /\ label \in CascadeLabels
              /\ \A D, E, t : LocFact(label, l, D, E, t)
<1> DEFINE rest == {d \in Downstream(loc[h].arg) : d > k}
<1>1. CASE Goto(h, "check_complete",
                [loc[h] EXCEPT !.down = 0, !.req = 0, !.unsatisfied = 0])
  <2> DEFINE l == [loc[h] EXCEPT !.down = 0, !.req = 0, !.unsatisfied = 0]
  <2>1. l \in LocType
    BY Zenon DEF LocType
  <2>2. \A D, E, t : LocFact("check_complete", l, D, E, t)
    BY Zenon DEF LocFact
  <2> QED
    BY <1>1, <2>1, <2>2, Zenon DEF Labels, CascadeLabels
<1>2. ASSUME NEW d \in rest,
             Goto(h, "evaluate", [loc[h] EXCEPT !.down = d, !.req = 1, !.unsatisfied = 0])
      PROVE  \E label \in Labels, l \in LocType :
                /\ Goto(h, label, l)
                /\ label \in CascadeLabels
                /\ \A D, E, t : LocFact(label, l, D, E, t)
  <2> DEFINE l == [loc[h] EXCEPT !.down = d, !.req = 1, !.unsatisfied = 0]
  <2>1. d \in Phases
    BY Zenon DEF Downstream
  <2>2. l \in LocType /\ l.down = d /\ l.req = 1
    BY <2>1, Zenon DEF LocType
  <2>3. \A k1 \in DOMAIN Requires[d] : ~(k1 < 1)
    BY <2>1, CharterAssumption
  <2>4. \A D, E, t : LocFact("evaluate", l, D, E, t)
    BY <2>1, <2>2, <2>3, Zenon DEF LocFact
  <2> QED
    BY <1>2, <2>2, <2>4, Zenon DEF Labels, CascadeLabels
<1> QED
  BY <1>1, <1>2, Zenon DEF NextDownstream

\* Reading "completed" means that the completion is visible.
LEMMA ViewCompleted ==
    ASSUME IInv, NEW h \in Handlers, NEW p \in Phases, View(h, p) = "completed"
    PROVE  p \in Done(h)
BY Zenon DEF IInv, DbInv, View, Done, Completions

\* Reading a started status means that the required phases are done.
LEMMA ViewStarted ==
    ASSUME IInv, NEW h \in Handlers, NEW p \in Phases, View(h, p) \in Started
    PROVE  Ready(p, Done(h), Seen(h))
<1>1. Ready(p, completedOnce, evidence) => Ready(p, Done(h), Seen(h))
  BY ReadyMonotone, SMTT(20) DEF Done, Seen
<1>2. CASE tx[h].phase[p] # Unwritten
  BY <1>2, Zenon DEF IInv, HandlerInv, TxGate, View, Done, Seen
<1>3. CASE tx[h].phase[p] = Unwritten
  BY <1>1, <1>3, Zenon DEF IInv, DbInv, View
<1> QED
  BY <1>2, <1>3, Zenon

-----------------------------------------------------------------------------
(* Every step keeps the inductive invariant: one lemma per group of actions. *)

LEMMA InitIInv == Init => IInv
<1> SUFFICES ASSUME Init PROVE IInv
  BY Zenon
<1>1. TypeOK
  BY EmptyTxFacts, IdleLocFacts, CallerAssumption DEF Init, TypeOK, RunRow, Labels, Absent
<1>2. DbInv
  BY Zenon DEF Init, DbInv, Started, PhaseState, Absent
<1>3. ASSUME NEW h \in Handlers PROVE HandlerInv(h)
  BY EmptyTxFacts, IdleLocFacts, Zenon DEF Init, HandlerInv
<1> QED
  BY <1>1, <1>2, <1>3, Zenon DEF IInv

LEMMA StartStep == ASSUME IInv, start_workflow PROVE IInv'
<1>1. TypeOK'
  BY Zenon DEF IInv, TypeOK, start_workflow, RunRow, PhaseState
<1>2. DbInv'
  BY Zenon DEF IInv, TypeOK, DbInv, start_workflow, Started, PhaseState, Ready, EntryPhases,
         RequiresPhases
<1>3. ASSUME NEW g \in Handlers PROVE HandlerInv(g)'
  BY OtherHandlers, Zenon DEF IInv, start_workflow
<1> QED
  BY <1>1, <1>2, <1>3, Zenon DEF IInv

LEMMA ClaimStep == ASSUME IInv, NEW p \in Phases, claim_phase(p) PROVE IInv'
<1>1. TypeOK'
  BY Zenon DEF IInv, TypeOK, claim_phase, PhaseState
<1>2. DbInv'
  BY Zenon DEF IInv, TypeOK, DbInv, claim_phase, Started, PhaseState
<1>3. ASSUME NEW g \in Handlers PROVE HandlerInv(g)'
  BY OtherHandlers, Zenon DEF IInv, claim_phase
<1> QED
  BY <1>1, <1>2, <1>3, Zenon DEF IInv

\* An idle request has written nothing that completes a phase.
LEMMA NoCompletion ==
    ASSUME IInv, NEW h \in Handlers, pc[h] \notin CascadeLabels
    PROVE  Completions(tx[h]) = {}
BY Zenon DEF IInv, HandlerInv

LEMMA BeginStep == ASSUME IInv, NEW h \in Handlers, Begin(h) PROVE IInv'
<1>1. ASSUME NEW p \in Phases, NEW label \in {"mark_completed", "mark_failed"},
             pc[h] = "idle", status[p] \in Started,
             Goto(h, label, [IdleLoc EXCEPT !.arg = p]), Read
      PROVE  IInv'
  <2> DEFINE l == [IdleLoc EXCEPT !.arg = p]
  <2>1. l \in LocType /\ l.arg = p
    BY IdleLocFacts, Zenon DEF LocType, IdleLoc
  <2>2. Ready(p, Done(h), Seen(h))
    <3>1. Ready(p, completedOnce, evidence)
      BY <1>1, Zenon DEF IInv, DbInv
    <3>2. completedOnce \subseteq Done(h) /\ evidence \subseteq Seen(h)
      BY Zenon DEF Done, Seen
    <3>3. Ready(p, completedOnce, evidence) => Ready(p, Done(h), Seen(h))
      BY <3>2, ReadyMonotone, Zenon
    <3> QED
      BY <3>1, <3>3, Zenon
  <2>3. LocFact(label, l, Done(h), Seen(h), tx[h])
    BY <2>1, <2>2, Zenon DEF LocFact
  <2>4. Completions(tx[h]) = {} /\ label \in Labels
    BY <1>1, NoCompletion, Zenon DEF CascadeLabels, Labels
  <2> QED
    BY <1>1, <2>1, <2>3, <2>4, ReadStep, Zenon
<1>2. ASSUME NEW p \in Phases, BeginComplete(h, p) PROVE IInv'
  <2>1. status[p] \in Started
    BY <1>2, Zenon DEF BeginComplete, is_valid_transition, PHASE_TRANSITIONS, Started, PhaseState
  <2> QED
    BY <1>1, <1>2, <2>1, Zenon DEF BeginComplete
<1>3. ASSUME NEW p \in Phases, BeginFail(h, p) PROVE IInv'
  <2>1. status[p] \in Started
    BY <1>3, Zenon DEF BeginFail, is_valid_transition, PHASE_TRANSITIONS, Started, PhaseState
  <2> QED
    BY <1>1, <1>3, <2>1, Zenon DEF BeginFail
<1>4. ASSUME NEW t \in Triggers, BeginFire(h, t) PROVE IInv'
  <2> DEFINE matching == {q \in Phases : status[q] = "waiting_trigger" /\ t \in Awaits[q]}
             l(p) == [IdleLoc EXCEPT !.arg = p, !.todo = matching \ {p}, !.trig = t]
  <2>1. PICK p \in matching : Goto(h, "trigger_update", l(p))
    BY <1>4, Zenon DEF BeginFire
  <2>2. l(p) \in LocType /\ l(p).arg = p /\ l(p).trig = t
    BY IdleLocFacts, Zenon DEF LocType, IdleLoc
  <2>3. LocFact("trigger_update", l(p), Done(h), Seen(h), tx[h])
    BY <2>2, Zenon DEF LocFact
  <2>4. Completions(tx[h]) = {} /\ Read
    BY <1>4, NoCompletion, Zenon DEF CascadeLabels, BeginFire
  <2> QED
    BY <2>1, <2>2, <2>3, <2>4, ReadStep, Zenon DEF Labels
<1>5. ASSUME BeginCancel(h) PROVE IInv'
  <2> DEFINE rows == {p \in Phases : status[p] \notin TerminalStates}
             l(p) == [IdleLoc EXCEPT !.arg = p, !.todo = rows \ {p}]
             d == [IdleLoc EXCEPT !.outcome = "cancelled"]
  <2>1. Completions(tx[h]) = {} /\ Read
    BY <1>5, NoCompletion, Zenon DEF CascadeLabels, BeginCancel
  <2>2. CASE Goto(h, "skip_done", d)
    <3>1. d \in LocType /\ LocFact("skip_done", d, Done(h), Seen(h), tx[h])
      BY Zenon DEF LocType, LocFact, IdleLoc
    <3> QED
      BY <2>1, <2>2, <3>1, ReadStep, Zenon DEF Labels
  <2>3. ASSUME NEW p \in rows, Goto(h, "skip_phase", l(p)) PROVE IInv'
    <3>1. l(p) \in LocType /\ l(p).arg = p
      BY Zenon DEF LocType, IdleLoc
    <3>2. LocFact("skip_phase", l(p), Done(h), Seen(h), tx[h])
      BY <3>1, Zenon DEF LocFact
    <3> QED
      BY <2>1, <2>3, <3>1, <3>2, ReadStep, Zenon DEF Labels
  <2> QED
    BY <1>5, <2>2, <2>3, Zenon DEF BeginCancel, NextRow
<1>6. ASSUME NEW o \in Outcomes, BeginFinish(h, o) PROVE IInv'
  <2> DEFINE l == [IdleLoc EXCEPT !.outcome = o]
  <2>1. l \in LocType /\ LocFact("finish_run", l, Done(h), Seen(h), tx[h])
    BY Zenon DEF LocType, LocFact, IdleLoc
  <2>2. Completions(tx[h]) = {} /\ Read /\ Goto(h, "finish_run", l)
    BY <1>6, NoCompletion, Zenon DEF CascadeLabels, BeginFinish
  <2> QED
    BY <2>1, <2>2, ReadStep, Zenon DEF Labels
<1> QED
  BY <1>2, <1>3, <1>4, <1>5, <1>6, Zenon DEF Begin

\* on_phase_completed, from the UPDATE of the phase to the last statement.
LEMMA CascadeStep ==
    ASSUME IInv, NEW h \in Handlers,
           \/ MarkCompleted(h) \/ SetCurrentPhase(h) \/ EvaluateRequire(h)
           \/ ActivateRead(h) \/ ActivateWrite(h) \/ CheckComplete(h) \/ CompleteRun(h)
    PROVE  IInv'
<1> DEFINE d == loc[h].down
<1>1. /\ tx[h] \in TxType /\ loc[h] \in LocType /\ run \in RunRow
      /\ LocFact(pc[h], loc[h], Done(h), Seen(h), tx[h])
  BY Zenon DEF IInv, TypeOK, HandlerInv
<1>2. CASE MarkCompleted(h)
  <2> DEFINE t == [tx[h] EXCEPT !.phase[loc[h].arg] = "completed"]
  <2>1. Exec(h, t) /\ Goto(h, "set_current", loc[h])
    BY <1>2, Zenon DEF MarkCompleted, WritePhase
  <2>2. loc[h].arg \in Phases /\ Ready(loc[h].arg, Done(h), Seen(h))
    BY <1>1, <1>2, Zenon DEF LocFact, MarkCompleted
  <2>3. t \in TxType /\ TxGate(t)
    BY <2>2, PhaseWrite, Zenon DEF PhaseState
  <2>4. \A D, E, u : LocFact("set_current", loc[h], D, E, u)
    BY Zenon DEF LocFact
  <2> HIDE DEF t
  <2> QED
    BY <1>1, <2>1, <2>3, <2>4, WriteStep, Zenon DEF Labels, CascadeLabels
<1>3. CASE SetCurrentPhase(h)
  <2> DEFINE t == [tx[h] EXCEPT !.run = IF @ # NoRunWrite THEN @ ELSE run]
  <2>1. Exec(h, t) /\ NextDownstream(h, 0)
    BY <1>3, Zenon DEF SetCurrentPhase, TouchRun
  <2>2. t \in TxType /\ t.phase = tx[h].phase /\ tx[h].evidence \subseteq t.evidence
    BY <1>1, Zenon DEF TxType
  <2>3. TxGate(t)
    BY <2>2, OtherRowWrite, Zenon
  <2> HIDE DEF t
  <2> QED
    BY <1>1, <2>1, <2>2, <2>3, NextDownstreamFacts, WriteStep, Zenon
<1>4. CASE EvaluateRequire(h)
  <2> DEFINE r == Requires[d][loc[h].req]
             count == loc[h].unsatisfied
                          + (IF evaluate_single_require(h, r) THEN 0 ELSE 1)
  <2>1. /\ Read /\ pc[h] = "evaluate" /\ d \in Phases
        /\ loc[h].req \in Nat /\ loc[h].unsatisfied \in Nat
    BY <1>1, <1>4, Zenon DEF EvaluateRequire, LocFact, LocType
  <2>2. /\ Requires[d] \in Seq(RequireNode)
        /\ DOMAIN Requires[d] = 1..Len(Requires[d])
    BY <2>1, CharterAssumption
  <2>3. ASSUME count = 0, NEW k \in DOMAIN Requires[d], k <= loc[h].req
        PROVE  MetBy(Requires[d][k], Done(h), Seen(h))
    <3>1. loc[h].unsatisfied = 0 /\ evaluate_single_require(h, r)
      BY <2>1, <2>3
    <3>2. CASE k < loc[h].req
      BY <1>1, <2>1, <2>3, <3>1, <3>2, Zenon DEF LocFact
    <3>3. CASE k = loc[h].req
      <4>1. r \in RequireNode
        BY <2>2, <2>3, <3>3
      <4>2. CASE r.kind = "phase"
        <5>1. r.phase \in Phases
          BY <4>1, <4>2, Zenon DEF RequireNode
        <5>2. View(h, r.phase) = "completed" /\ r.condition # "other"
          BY <3>1, <4>2, Zenon DEF evaluate_single_require
        <5> QED
          BY <3>3, <4>2, <5>1, <5>2, ViewCompleted, Zenon DEF MetBy
      <4>3. CASE r.kind # "phase"
        BY <3>1, <3>3, <4>3, Zenon DEF evaluate_single_require, MetBy, Seen
      <4> QED
        BY <4>2, <4>3, Zenon
    <3> QED
      BY <2>1, <2>2, <2>3, <3>2, <3>3
  <2>4. CASE Goto(h, "evaluate", [loc[h] EXCEPT !.req = @ + 1, !.unsatisfied = count])
    <3> DEFINE l == [loc[h] EXCEPT !.req = @ + 1, !.unsatisfied = count]
    <3>1. count \in Nat
      BY <2>1
    <3>2. /\ l \in LocType /\ l.down = d
          /\ l.req = loc[h].req + 1 /\ l.unsatisfied = count
      <4>1. PICK n \in Nat : n = loc[h].req + 1
        BY <2>1
      <4>2. PICK c \in Nat : c = count
        BY <3>1, Zenon
      <4>3. l = [loc[h] EXCEPT !.req = n, !.unsatisfied = c]
        <5> HIDE DEF count
        <5> QED
          BY <4>1, <4>2, Zenon
      <4> HIDE DEF l, count
      <4>4. l \in LocType /\ l.down = loc[h].down /\ l.req = n /\ l.unsatisfied = c
        BY <1>1, <4>3, Zenon DEF LocType
      <4> QED
        BY <4>1, <4>2, <4>4, Zenon
    <3>3. l.unsatisfied = 0 =>
             \A k \in DOMAIN Requires[l.down] :
                 k < l.req => MetBy(Requires[l.down][k], Done(h), Seen(h))
      BY <2>1, <2>2, <2>3, <3>2
    <3>4. LocFact("evaluate", l, Done(h), Seen(h), tx[h])
      BY <2>1, <3>2, <3>3, Zenon DEF LocFact
    <3> HIDE DEF l
    <3> QED
      BY <2>1, <2>4, <3>2, <3>4, ReadStep, Zenon DEF Labels, CascadeLabels, l
  <2>5. CASE loc[h].req = Len(Requires[d]) /\ count = 0 /\ Goto(h, "activate_read", loc[h])
    <3>1. Ready(d, Done(h), Seen(h))
      BY <2>2, <2>3, <2>5 DEF Ready
    <3>2. LocFact("activate_read", loc[h], Done(h), Seen(h), tx[h])
      BY <2>1, <3>1, Zenon DEF LocFact
    <3> QED
      BY <1>1, <2>1, <2>5, <3>2, ReadStep, Zenon DEF Labels, CascadeLabels
  <2>6. CASE NextDownstream(h, d)
    BY <1>1, <2>1, <2>6, NextDownstreamFacts, ReadStep, Zenon
  <2> QED
    BY <1>4, <2>4, <2>5, <2>6, Zenon DEF EvaluateRequire
<1>5. CASE ActivateRead(h)
  <2>1. /\ Read /\ pc[h] = "activate_read" /\ d \in Phases
        /\ Ready(d, Done(h), Seen(h))
    BY <1>1, <1>5, Zenon DEF ActivateRead, LocFact
  <2>2. CASE View(h, d) \in {"pending", "waiting_gate"} /\ Goto(h, "activate_write", loc[h])
    <3>1. tx[h].phase[d] # "completed"
      BY <2>2, Zenon DEF View, Unwritten
    <3>2. LocFact("activate_write", loc[h], Done(h), Seen(h), tx[h])
      BY <2>1, <3>1, Zenon DEF LocFact
    <3> QED
      BY <1>1, <2>1, <2>2, <3>2, ReadStep, Zenon DEF Labels, CascadeLabels
  <2>3. CASE NextDownstream(h, d)
    BY <1>1, <2>1, <2>3, NextDownstreamFacts, ReadStep, Zenon
  <2> QED
    BY <1>5, <2>2, <2>3, Zenon DEF ActivateRead
<1>6. CASE ActivateWrite(h)
  <2> DEFINE t == [tx[h] EXCEPT !.phase[d] = TargetState(d)]
  <2>1. Exec(h, t) /\ NextDownstream(h, d)
    BY <1>6, Zenon DEF ActivateWrite, WritePhase
  <2>2. /\ d \in Phases /\ Ready(d, Done(h), Seen(h))
        /\ tx[h].phase[d] # "completed"
    BY <1>1, <1>6, Zenon DEF LocFact, ActivateWrite
  <2>3. TargetState(d) \in PhaseState
    BY Zenon DEF TargetState, PhaseState
  <2>4. t \in TxType /\ TxGate(t)
    BY <2>2, <2>3, PhaseWrite, Zenon
  <2> HIDE DEF t
  <2> QED
    BY <1>1, <2>1, <2>4, NextDownstreamFacts, WriteStep, Zenon
<1>7. CASE CheckComplete(h)
  <2>1. PICK label \in {"complete_run", "commit"} : Goto(h, label, IdleLoc)
    BY <1>7, Zenon DEF CheckComplete
  <2>2. LocFact(label, IdleLoc, Done(h), Seen(h), tx[h]) /\ Read
    BY <1>7, IdleLocFacts, Zenon DEF CheckComplete
  <2> QED
    BY <2>1, <2>2, IdleLocFacts, ReadStep, Zenon DEF Labels, CascadeLabels
<1>8. CASE CompleteRun(h)
  <2> DEFINE t == [tx[h] EXCEPT !.run = [status |-> "completed", outcome |-> "approved"]]
  <2>1. Exec(h, t) /\ Goto(h, "commit", IdleLoc)
    BY <1>8, Zenon DEF CompleteRun, WriteRun
  <2>2. t \in TxType /\ t.phase = tx[h].phase /\ tx[h].evidence \subseteq t.evidence
    BY <1>1, Zenon DEF TxType, RunRow
  <2>3. TxGate(t)
    BY <2>2, OtherRowWrite, Zenon
  <2> HIDE DEF t
  <2> QED
    BY <2>1, <2>2, <2>3, IdleLocFacts, WriteStep, Zenon DEF Labels, CascadeLabels
<1> QED
  BY <1>2, <1>3, <1>4, <1>5, <1>6, <1>7, <1>8, Zenon

LEMMA NextRowFacts ==
    ASSUME NEW h \in Handlers, NEW todo \in SUBSET Phases, NextRow(h, todo)
    PROVE  \E label \in Labels, l \in LocType :
              Goto(h, label, l) /\ \A D, E, t : LocFact(label, l, D, E, t)
<1>1. CASE Goto(h, "skip_done", [IdleLoc EXCEPT !.outcome = "cancelled"])
  <2> DEFINE l == [IdleLoc EXCEPT !.outcome = "cancelled"]
  <2>1. l \in LocType /\ \A D, E, t : LocFact("skip_done", l, D, E, t)
    BY Zenon DEF LocType, LocFact, IdleLoc
  <2> QED
    BY <1>1, <2>1, Zenon DEF Labels
<1>2. ASSUME NEW p \in todo,
             Goto(h, "skip_phase", [IdleLoc EXCEPT !.arg = p, !.todo = todo \ {p}])
      PROVE  \E label \in Labels, l \in LocType :
                Goto(h, label, l) /\ \A D, E, t : LocFact(label, l, D, E, t)
  <2> DEFINE l == [IdleLoc EXCEPT !.arg = p, !.todo = todo \ {p}]
  <2>1. l \in LocType /\ l.arg = p
    BY Zenon DEF LocType, IdleLoc
  <2>2. \A D, E, t : LocFact("skip_phase", l, D, E, t)
    BY <2>1, Zenon DEF LocFact
  <2> QED
    BY <1>2, <2>1, <2>2, Zenon DEF Labels
<1> QED
  BY <1>1, <1>2, Zenon DEF NextRow

\* on_phase_failed, fire_trigger, cancel_charter_run and complete_charter_run.
LEMMA OtherCallStep ==
    ASSUME IInv, NEW h \in Handlers,
           \/ MarkFailed(h) \/ FailRun(h)
           \/ TriggerUpdate(h) \/ TriggerEvidence(h)
           \/ SkipPhase(h) \/ SkipDone(h) \/ FinishRun(h)
    PROVE  IInv'
<1> DEFINE p == loc[h].arg
<1>1. /\ tx[h] \in TxType /\ loc[h] \in LocType
      /\ LocFact(pc[h], loc[h], Done(h), Seen(h), tx[h])
      /\ TxGate(tx[h])
  BY Zenon DEF IInv, TypeOK, HandlerInv
<1>2. Completions(tx[h]) = {}
  BY NoCompletion, Zenon DEF CascadeLabels, MarkFailed, FailRun, TriggerUpdate, TriggerEvidence,
                      SkipPhase, SkipDone, FinishRun
<1>3. \A q \in Phases : tx[h].phase[q] # "completed"
  BY <1>2, Zenon DEF Completions
<1>4. ASSUME NEW r \in RunRow, Exec(h, [tx[h] EXCEPT !.run = r]), Goto(h, "commit", IdleLoc)
      PROVE  IInv'
  <2> DEFINE t == [tx[h] EXCEPT !.run = r]
  <2>1. t \in TxType /\ t.phase = tx[h].phase /\ tx[h].evidence \subseteq t.evidence
    BY <1>1, Zenon DEF TxType
  <2>2. TxGate(t)
    BY <2>1, OtherRowWrite, Zenon
  <2> HIDE DEF t
  <2> QED
    BY <1>4, <2>1, <2>2, IdleLocFacts, WriteStep, Zenon DEF Labels, CascadeLabels, t
<1>5. CASE MarkFailed(h)
  <2> DEFINE t == [tx[h] EXCEPT !.phase[p] = "failed"]
  <2>1. Exec(h, t) /\ Goto(h, "fail_run", IdleLoc)
    BY <1>5, Zenon DEF MarkFailed, WritePhase
  <2>2. p \in Phases /\ Ready(p, Done(h), Seen(h))
    BY <1>1, <1>5, Zenon DEF LocFact, MarkFailed
  <2>3. t \in TxType /\ TxGate(t) /\ Completions(t) = {}
    BY <1>2, <1>3, <2>2, PhaseWrite DEF PhaseState
  <2> HIDE DEF t
  <2> QED
    BY <2>1, <2>3, IdleLocFacts, WriteStep, Zenon DEF Labels
<1>6. CASE FailRun(h)
  BY <1>4, <1>6, Zenon DEF FailRun, WriteRun, RunRow
<1>7. CASE FinishRun(h)
  <2>1. [status |-> StatusOfOutcome(loc[h].outcome), outcome |-> loc[h].outcome] \in RunRow
    BY <1>1, CallerAssumption, Zenon DEF LocType, RunRow, StatusOfOutcome
  <2> QED
    BY <1>4, <1>7, <2>1, Zenon DEF FinishRun, WriteRun
\* The loop of fire_trigger goes on with a matching phase, or ends.
<1>8. ASSUME NEW todo \in SUBSET Phases, NextMatch(h, todo), loc[h].trig \in Triggers
      PROVE  \E label \in Labels, l \in LocType :
                Goto(h, label, l) /\ \A D, E, t : LocFact(label, l, D, E, t)
  <2>1. CASE Goto(h, "commit", IdleLoc)
    BY <2>1, IdleLocFacts, Zenon DEF Labels
  <2>2. ASSUME NEW q \in todo,
               Goto(h, "trigger_update", [loc[h] EXCEPT !.arg = q, !.todo = todo \ {q}])
        PROVE  \E label \in Labels, l \in LocType :
                  Goto(h, label, l) /\ \A D, E, t : LocFact(label, l, D, E, t)
    <3> DEFINE l == [loc[h] EXCEPT !.arg = q, !.todo = todo \ {q}]
    <3>1. l \in LocType /\ l.arg = q /\ l.trig = loc[h].trig
      BY <1>1, Zenon DEF LocType
    <3>2. \A D, E, t : LocFact("trigger_update", l, D, E, t)
      BY <1>8, <3>1, Zenon DEF LocFact
    <3> QED
      BY <2>2, <3>1, <3>2, Zenon DEF Labels
  <2> QED
    BY <1>8, <2>1, <2>2, Zenon DEF NextMatch
<1>9. CASE TriggerUpdate(h)
  <2>1. p \in Phases /\ loc[h].trig \in Triggers /\ loc[h].todo \in SUBSET Phases
    BY <1>1, <1>9, Zenon DEF LocFact, TriggerUpdate, LocType
  <2>2. CASE View(h, p) = "waiting_trigger" /\ WritePhase(h, p, "in_progress")
             /\ Goto(h, "trigger_evidence", loc[h])
    <3> DEFINE t == [tx[h] EXCEPT !.phase[p] = "in_progress"]
    <3>1. Exec(h, t)
      BY <2>2, Zenon DEF WritePhase
    <3>2. Ready(p, Done(h), Seen(h))
      BY <2>1, <2>2, ViewStarted, Zenon DEF Started, PhaseState
    <3>3. t \in TxType /\ TxGate(t) /\ Completions(t) = {}
      BY <1>2, <1>3, <2>1, <3>2, PhaseWrite DEF PhaseState
    <3>4. \A D, E, u : LocFact("trigger_evidence", loc[h], D, E, u)
      BY <2>1, Zenon DEF LocFact
    <3> HIDE DEF t
    <3> QED
      BY <1>1, <2>2, <3>1, <3>3, <3>4, WriteStep, Zenon DEF Labels
  <2>3. CASE NextMatch(h, loc[h].todo) /\ Read
    BY <1>2, <1>8, <2>1, <2>3, ReadStep, Zenon
  <2> QED
    BY <1>9, <2>2, <2>3, Zenon DEF TriggerUpdate
<1>10. CASE TriggerEvidence(h)
  <2> DEFINE t == [tx[h] EXCEPT !.evidence = @ \cup {<<p, loc[h].trig>>}]
  <2>1. p \in Phases /\ loc[h].trig \in Triggers /\ loc[h].todo \in SUBSET Phases
    BY <1>1, <1>10, Zenon DEF LocFact, TriggerEvidence, LocType
  <2>2. Exec(h, t) /\ NextMatch(h, loc[h].todo)
    BY <1>10, Zenon DEF TriggerEvidence
  <2>3. t \in TxType /\ t.phase = tx[h].phase /\ tx[h].evidence \subseteq t.evidence
    BY <1>1, <2>1 DEF TxType
  <2>4. TxGate(t) /\ Completions(t) = {}
    BY <1>2, <2>3, OtherRowWrite, Zenon
  <2> HIDE DEF t
  <2> QED
    BY <1>8, <2>1, <2>2, <2>3, <2>4, WriteStep, Zenon
<1>11. CASE SkipDone(h)
  <2>1. \A D, E, t : LocFact("finish_run", loc[h], D, E, t)
    BY Zenon DEF LocFact
  <2> QED
    BY <1>1, <1>2, <1>11, <2>1, WriteStep, Zenon DEF SkipDone, Labels
\* The multi-row UPDATE of cancel_charter_run goes on with a row, or ends.
<1>12. CASE SkipPhase(h)
  <2>1. /\ p \in Phases /\ loc[h].todo \in SUBSET Phases /\ NextRow(h, loc[h].todo)
        /\ UNCHANGED <<status, run, evidence, completedOnce>>
    BY <1>1, <1>12, Zenon DEF LocFact, SkipPhase, LocType
  <2>2. PICK label \in Labels, l \in LocType :
            Goto(h, label, l) /\ \A D, E, t : LocFact(label, l, D, E, t)
    BY <2>1, NextRowFacts, Zenon
  <2>3. CASE tx' = tx
    BY <1>2, <2>1, <2>2, <2>3, ReadStep, Zenon DEF Read
  <2>4. CASE tx' = [tx EXCEPT ![h].phase[p] = "skipped"]
    <3> DEFINE t == [tx[h] EXCEPT !.phase[p] = "skipped"]
    <3>1. tx' = [tx EXCEPT ![h] = t]
      BY <2>4, Zenon
    <3>2. t \in TxType /\ TxGate(t) /\ Completions(t) = {}
      BY <1>2, <1>3, <2>1, PhaseWrite DEF PhaseState, Started
    <3> HIDE DEF t
    <3> QED
      BY <2>1, <2>2, <3>1, <3>2, BufferStep, Zenon
  <2> QED
    BY <1>12, <2>3, <2>4, Zenon DEF SkipPhase
<1> QED
  BY <1>5, <1>6, <1>7, <1>9, <1>10, <1>11, <1>12, Zenon

\* Commit, and a call that ends early.
LEMMA EndStep ==
    ASSUME IInv, NEW h \in Handlers, Commit(h) \/ Crash(h) \/ DeadlockVictim(h)
    PROVE  IInv'
<1>1. CASE Commit(h)
  BY <1>1, IdleLocFacts, PublishStep, Zenon DEF Commit, Labels, IInv, TypeOK, HandlerInv
<1>2. ASSUME Rollback(h), crashes' \in 0..MaxCrashes PROVE IInv'
  <2>1. TypeOK'
    BY <1>2, EmptyTxFacts, IdleLocFacts, Zenon DEF IInv, TypeOK, Rollback, Labels
  <2>2. DbInv'
    BY <1>2, Zenon DEF IInv, DbInv, Rollback
  <2>3. /\ tx'[h] = EmptyTx /\ pc'[h] = "idle" /\ loc'[h] = IdleLoc
    BY <1>2, Zenon DEF IInv, TypeOK, Rollback
  <2>4. HandlerInv(h)'
    <3>1. TxGate(tx[h])'
      BY <2>3 DEF TxGate, EmptyTx, Unwritten, Started, PhaseState
    <3>2. (Completions(tx[h]) # {} => pc[h] \in CascadeLabels)'
      BY <2>3, EmptyTxFacts, Zenon DEF Completions
    <3>3. LocFact(pc[h], loc[h], Done(h), Seen(h), tx[h])'
      BY <2>3, Zenon DEF LocFact
    <3> QED
      BY <3>1, <3>2, <3>3, Zenon DEF HandlerInv
  <2>5. ASSUME NEW g \in Handlers, g # h PROVE HandlerInv(g)'
    BY <1>2, <2>5, OtherHandlers, Zenon DEF IInv, TypeOK, Rollback
  <2> QED
    BY <2>1, <2>2, <2>4, <2>5, Zenon DEF IInv
<1>3. CASE Crash(h)
  BY <1>2, <1>3, CallerAssumption DEF Crash, IInv, TypeOK
<1>4. CASE DeadlockVictim(h)
  BY <1>2, <1>4, Zenon DEF DeadlockVictim, IInv, TypeOK
<1> QED
  BY <1>1, <1>3, <1>4, Zenon

LEMMA NextIInv == IInv /\ [Next]_vars => IInv'
<1> SUFFICES ASSUME IInv, [Next]_vars PROVE IInv'
  BY Zenon
<1>1. CASE UNCHANGED vars
  <2>1. TypeOK' /\ DbInv'
    BY <1>1, Zenon DEF IInv, vars, TypeOK, DbInv
  <2>2. ASSUME NEW g \in Handlers PROVE HandlerInv(g)'
    BY <1>1, OtherHandlers, Zenon DEF IInv, vars
  <2> QED
    BY <2>1, <2>2, Zenon DEF IInv
<1>2. CASE Next
  BY <1>2, StartStep, ClaimStep, BeginStep, CascadeStep, OtherCallStep, EndStep, Zenon DEF Next, Step
<1> QED
  BY <1>1, <1>2, Zenon

-----------------------------------------------------------------------------

LEMMA InductiveInvariant == Spec => []IInv
BY InitIInv, NextIInv, PTL DEF Spec

\* The columns status of phase_executions and charter_runs, the local variables of the
\* calls and the uncommitted writes keep their types.
THEOREM TypeCorrect == Spec => []TypeOK
<1>1. IInv => TypeOK
  BY Zenon DEF IInv
<1> QED
  BY <1>1, InductiveInvariant, PTL

\* The requires of a phase are a conjunction of gates that fail safe: whatever the charter,
\* however many requests run concurrently, with or without a transaction around each call,
\* and whichever of them die, the cascade activates a phase only when every one of its
\* requires, of whatever kind, is met by a completed phase or a recorded trigger.
THEOREM RequiresFirstHolds == Spec => []RequiresFirst
<1>1. IInv => RequiresFirst
  BY Zenon DEF IInv, DbInv, RequiresFirst, Ready, MetBy, Met
<1> QED
  BY <1>1, InductiveInvariant, PTL

\* "Downstream phases cannot activate until their dependencies complete" holds of the
\* cascade for every charter, however many requests run concurrently, with or without
\* a transaction around each call, and whichever of them die.
THEOREM DependenciesFirstHolds == Spec => []DependenciesFirst
<1>1. RequiresFirst => DependenciesFirst
  <2> SUFFICES ASSUME RequiresFirst, NEW p \in Phases, status[p] \in Started
               PROVE  RequiresPhases(p) \subseteq completedOnce
    BY Zenon DEF DependenciesFirst
  <2>1. CASE p \in EntryPhases
    BY <2>1, Zenon DEF EntryPhases
  <2>2. CASE p \notin EntryPhases
    BY <2>2, Zenon DEF RequiresFirst, RequiresPhases, Met
  <2> QED
    BY <2>1, <2>2, Zenon
<1> QED
  BY <1>1, RequiresFirstHolds, PTL

-----------------------------------------------------------------------------
(* Inboxes, role requirements and situations.                                *)

\* A set of numbers that is not empty has a least one.
LEMMA LeastNumber ==
    ASSUME NEW S \in SUBSET Nat, S # {}
    PROVE  \E m \in S : \A k \in S : m <= k
<1> DEFINE R == {pair \in Nat \X Nat : pair[1] < pair[2]}
<1>1. IsWellFoundedOn(R, Nat)
  BY NatLessThanWellFounded, Zenon DEF OpToRel
<1>2. \A k, m \in Nat : <<k, m>> \in R <=> k < m
  BY Zenon
<1> HIDE DEF R
<1>3. PICK m \in S : \A k \in S : <<k, m>> \notin R
  BY <1>1, WFMin, Zenon
<1>4. m \in Nat /\ \A k \in S : k \in Nat /\ ~(k < m)
  BY <1>2, <1>3, Zenon
<1>5. \A k \in S : m <= k
  BY <1>4
<1> QED  BY <1>5, Zenon

PhaseRow == [status : {"waiting_user", "completed"}, role : Roles, assignee : Users \cup {NobodyU},
             run : {"active", "terminated"}, age : Nat]

Situation == [op : {"==", "!=", ">", "<", ">=", "<="}, bound : Bounds, wait : 0..2]

\* What the inboxes rely on of the rows: one assignee at most, who is a user.
InboxType == \A p \in DOMAIN phaseRows : phaseRows[p] \in PhaseRow

\* Claiming, completing, terminating and waiting keep the shape of a phase row.
LEMMA InboxKeeps == ASSUME InboxType, InboxNext PROVE InboxType'
<1>1. ASSUME NEW p \in DOMAIN phaseRows, NEW row \in PhaseRow, phaseRows' = [phaseRows EXCEPT ![p] = row]
      PROVE  InboxType'
  BY <1>1, Zenon DEF InboxType
<1>2. CASE InboxTick
  <2>1. DOMAIN phaseRows' = DOMAIN phaseRows
    BY <1>2, Zenon DEF InboxTick
  <2>2. ASSUME NEW p \in DOMAIN phaseRows PROVE phaseRows'[p] \in PhaseRow
    <3>1. phaseRows[p] \in PhaseRow /\ phaseRows[p].age \in Nat
      BY Zenon DEF InboxType, PhaseRow
    <3>2. phaseRows'[p] = [phaseRows[p] EXCEPT !.age = IF Ageing(p) THEN @ + 1 ELSE @]
      BY <1>2, Zenon DEF InboxTick
    <3>3. phaseRows'[p] = phaseRows[p] \/ phaseRows'[p] = [phaseRows[p] EXCEPT !.age = phaseRows[p].age + 1]
      BY <3>1, <3>2, Zenon DEF PhaseRow
    <3> QED  BY <3>1, <3>3 DEF PhaseRow
  <2> QED  BY <2>1, <2>2, Zenon DEF InboxType
<1>3. ASSUME NEW p \in PhaseIds, NEW r \in Roles, NEW a \in Users \cup {NobodyU}, PhaseWaits(p, r, a) PROVE InboxType'
  <2> DEFINE row == [status |-> "waiting_user", role |-> r, assignee |-> a, run |-> "active", age |-> 0]
  <2>1. row \in PhaseRow
    BY Zenon DEF PhaseRow
  <2>2. phaseRows' = [q \in DOMAIN phaseRows \cup {p} |-> IF q = p THEN row ELSE phaseRows[q]]
    BY <1>3, Zenon DEF PhaseWaits
  <2> HIDE DEF row
  <2> QED  BY <2>1, <2>2, Zenon DEF InboxType
<1>4. ASSUME NEW p \in PhaseIds, NEW u \in Users, ClaimPhase(p, u) PROVE InboxType'
  <2>1. phaseRows[p] \in PhaseRow /\ p \in DOMAIN phaseRows
    BY <1>4, Zenon DEF ClaimPhase, InboxType
  <2>2. [phaseRows[p] EXCEPT !.assignee = u] \in PhaseRow
    BY <2>1, Zenon DEF PhaseRow
  <2> QED  BY <1>1, <1>4, <2>1, <2>2, Zenon DEF ClaimPhase, SetPhase
<1>5. ASSUME NEW p \in PhaseIds, LeavePhase(p) PROVE InboxType'
  <2>1. phaseRows[p] \in PhaseRow /\ p \in DOMAIN phaseRows
    BY <1>5, Zenon DEF LeavePhase, InboxType
  <2>2. [phaseRows[p] EXCEPT !.status = "completed"] \in PhaseRow /\ [phaseRows[p] EXCEPT !.run = "terminated"] \in PhaseRow
    BY <2>1, Zenon DEF PhaseRow
  <2> QED  BY <1>1, <1>5, <2>1, <2>2, Zenon DEF LeavePhase, SetPhase
<1> QED  BY <1>2, <1>3, <1>4, <1>5, Zenon DEF InboxNext

\* The inboxes, their badges and the overdue list agree on rows of that shape.
LEMMA InboxesFollow == ASSUME InboxType PROVE InboxesAgree
<1>1. ASSUME NEW u \in Users
      PROVE  /\ get_inbox_count(u) = Cardinality(get_user_inbox(u, FALSE))
             /\ get_user_inbox(u, FALSE) \subseteq get_user_inbox(u, TRUE)
             /\ get_user_inbox(u, TRUE) \ get_user_inbox(u, FALSE) \subseteq get_inbox_by_role(UserRole[u])
  <2>1. {p \in DOMAIN phaseRows : Waiting(p) /\ ForUser(p, u) /\ phaseRows[p].assignee \in {NobodyU, u}} = get_user_inbox(u, FALSE)
    BY Zenon DEF get_user_inbox
  <2>2. get_inbox_count(u) = Cardinality(get_user_inbox(u, FALSE))
    BY <2>1, Zenon DEF get_inbox_count
  <2>3. get_user_inbox(u, TRUE) \ get_user_inbox(u, FALSE) \subseteq get_inbox_by_role(UserRole[u])
    BY Zenon DEF get_user_inbox, get_inbox_by_role, ForUser
  <2>4. get_user_inbox(u, FALSE) \subseteq get_user_inbox(u, TRUE)
    BY Zenon DEF get_user_inbox
  <2> QED  BY <2>2, <2>3, <2>4, Zenon
<1>2. ASSUME NEW p \in DOMAIN phaseRows, Waiting(p)
      PROVE  {u \in Users : p \in get_user_inbox(u, FALSE)}
                = (IF phaseRows[p].assignee = NobodyU THEN {u \in Users : UserRole[u] = phaseRows[p].role}
                   ELSE {phaseRows[p].assignee})
  <2>1. phaseRows[p].assignee \in Users \cup {NobodyU} /\ NobodyU \notin Users
    BY RuntimeAssumption, Zenon DEF InboxType, PhaseRow
  <2>2. \A u \in Users : p \in get_user_inbox(u, FALSE) <=>
            ForUser(p, u) /\ phaseRows[p].assignee \in {NobodyU, u}
    BY <1>2, Zenon DEF get_user_inbox
  <2> QED  BY <2>1, <2>2, Zenon DEF ForUser
<1>3. ASSUME NEW p \in DOMAIN phaseRows, Waiting(p)
      PROVE  /\ p \in get_overdue_phases => is_overdue(p)
             /\ is_overdue(p) => is_priority(p) /\ (p \in get_overdue_phases \/ phaseRows[p].age = 2 * OVERDUE_DAYS)
  <2>1. phaseRows[p].age \in Nat
    BY Zenon DEF InboxType, PhaseRow
  <2>2. p \in get_overdue_phases <=> phaseRows[p].age > 2 * OVERDUE_DAYS
    BY <1>3, Zenon DEF get_overdue_phases
  <2> QED  BY <2>1, <2>2, RuntimeAssumption DEF is_overdue, is_priority, waiting_days
<1> QED  BY <1>1, <1>2, <1>3, Zenon DEF InboxesAgree

-----------------------------------------------------------------------------
\* enforce_role_requirements checks every requirement by itself, so more requirements let in fewer.
LEMMA RolesNarrow == RequirementsNarrow
<1> SUFFICES ASSUME NEW u \in Users, NEW a \in RoleDefinitions, NEW b \in RoleDefinitions
    PROVE
        LET own == {s \in DOMAIN sessionRows : sessionRows[s].user = u /\ ~sessionRows[s].revoked} IN
        /\ (a.mfa => b.mfa) /\ (a.break_glass => b.break_glass) /\ enforce_role_requirements(u, b) = "allowed"
            => enforce_role_requirements(u, a) = "allowed"
        /\ enforce_role_requirements(u, find_role_for_phase({"view"}, <<a, b>>)) = "allowed"
            => \/ "view" \notin a.actions \cup b.actions
               \/ LET governing == IF "view" \in a.actions THEN a ELSE b IN
                  /\ governing.mfa => \E s \in own : sessionRows[s].mfa
                  /\ governing.break_glass => \E s \in own : sessionRows[s].method = "break_glass"
  BY Zenon DEF RequirementsNarrow
<1> DEFINE own == {s \in DOMAIN sessionRows : sessionRows[s].user = u /\ ~sessionRows[s].revoked}
<1>1. \A r : enforce_role_requirements(u, r) = "allowed"
            <=> (r.mfa => _check_mfa_verified(u)) /\ (r.break_glass => _check_break_glass_active(u))
  BY Zenon DEF enforce_role_requirements
<1>2. /\ _check_mfa_verified(u) => \E s \in own : sessionRows[s].mfa
      /\ _check_break_glass_active(u) => \E s \in own : sessionRows[s].method = "break_glass"
  BY Zenon DEF _check_mfa_verified, _check_break_glass_active
<1>3. ASSUME "view" \in a.actions \cup b.actions
      PROVE  find_role_for_phase({"view"}, <<a, b>>) = IF "view" \in a.actions THEN a ELSE b
  <2> DEFINE roles == <<a, b>>
             governing == {i \in 1..Len(roles) : roles[i].actions \cap {"view"} # {}}
             first == CHOOSE i \in governing : \A j \in governing : i <= j
  <2>1. find_role_for_phase({"view"}, roles)
            = IF governing = {} THEN [actions |-> {}, mfa |-> FALSE, break_glass |-> FALSE] ELSE roles[first]
    BY Zenon DEF find_role_for_phase
  <2>2. /\ 1 \in governing <=> "view" \in a.actions
        /\ 2 \in governing <=> "view" \in b.actions
        /\ \A i \in governing : i = 1 \/ i = 2
        /\ roles[1] = a /\ roles[2] = b
    OBVIOUS
  <2> HIDE DEF roles, governing
  <2>3. governing # {} /\ \E i \in governing : \A j \in governing : i <= j
    BY <1>3, <2>2
  <2>4. first \in governing /\ \A j \in governing : first <= j
    BY <2>3, Zenon
  <2> HIDE DEF first
  <2>5. find_role_for_phase({"view"}, roles) = roles[first]
    BY <2>1, <2>3, Zenon
  <2>6. CASE "view" \in a.actions
    <3>1. first = 1
      BY <2>2, <2>4, <2>6
    <3> QED  BY <2>2, <2>5, <2>6, <3>1, Zenon DEF roles
  <2>7. CASE "view" \notin a.actions
    <3>1. first = 2
      BY <2>2, <2>4, <2>7, Zenon
    <3> QED  BY <2>2, <2>5, <2>7, <3>1, Zenon DEF roles
  <2> QED  BY <2>6, <2>7, Zenon
<1> QED  BY <1>1, <1>2, <1>3, Zenon

-----------------------------------------------------------------------------
\* The situation that gives the waiting period is one that matched, and the longest.
LEMMA OverrideLongest ==
    ASSUME NEW list \in Seq(Situation), NEW matched \in SUBSET (1..Len(list))
    PROVE  /\ (\A i \in matched : list[i].wait = 0) => Override(list, matched) = 0
           /\ (\E i \in matched : list[i].wait > 0) =>
                /\ Override(list, matched) \in matched /\ Override(list, matched) # 0
                /\ \A j \in matched : list[j].wait <= list[Override(list, matched)].wait
<1> DEFINE waits == {i \in matched : list[i].wait > 0}
           Best(i) == /\ \A j \in waits : list[j].wait <= list[i].wait
                      /\ \A j \in waits : list[j].wait = list[i].wait => i <= j
           best == CHOOSE i \in waits : Best(i)
<1>1. \A i \in matched : list[i].wait \in 0..2 /\ i \in Nat \ {0}
  <2> TAKE i \in matched
  <2>1. i \in 1..Len(list) /\ Len(list) \in Nat
    OBVIOUS
  <2>2. list[i] \in Situation
    BY <2>1
  <2> QED  BY <2>1, <2>2 DEF Situation
<1>2. Override(list, matched) = IF waits = {} THEN 0 ELSE best
  BY Zenon DEF Override
<1>3. (\A i \in matched : list[i].wait = 0) => waits = {}
  <2>1. ~(0 > 0)
    OBVIOUS
  <2> QED  BY <2>1, Zenon
<1>4. ASSUME NEW i \in matched, list[i].wait > 0
      PROVE  waits # {} /\ best \in waits /\ Best(best)
  <2>1. waits # {} /\ \A j \in waits : list[j].wait \in 1..2 /\ j \in Nat
    BY <1>1, <1>4
  <2> HIDE DEF waits
  <2> DEFINE S == {2 - list[j].wait : j \in waits}
  <2>2. S \in SUBSET Nat /\ S # {}
    <3>1. \A j \in waits : 2 - list[j].wait \in Nat
      BY <2>1
    <3> QED  BY <2>1, <3>1, Zenon
  <2>3. PICK m \in S : \A k \in S : m <= k
    <3> HIDE DEF S
    <3> QED  BY <2>2, LeastNumber, Zenon
  <2> DEFINE T == {j \in waits : 2 - list[j].wait = m}
  <2>4. T \in SUBSET Nat /\ T # {}
    BY <2>1, <2>3, Zenon
  <2>5. PICK t \in T : \A j \in T : t <= j
    <3> HIDE DEF T
    <3> QED  BY <2>4, LeastNumber, Zenon
  <2>6. t \in waits /\ 2 - list[t].wait = m
    BY <2>5, Zenon
  <2>7. ASSUME NEW j \in waits PROVE list[j].wait <= list[t].wait /\ (list[j].wait = list[t].wait => t <= j)
    <3>1. 2 - list[j].wait \in S
      BY Zenon
    <3>2. m <= 2 - list[j].wait
      BY <2>3, <3>1, Zenon
    <3>3. list[j].wait = list[t].wait => j \in T
      BY <2>6, Zenon
    <3> QED  BY <2>1, <2>5, <2>6, <3>2, <3>3, SMTT(20)
  <2>8. Best(t)
    BY <2>7, Zenon
  <2>9. best \in waits /\ Best(best)
    <3> HIDE DEF Best
    <3> QED  BY <2>6, <2>8, Zenon
  <2> QED  BY <2>1, <2>9, Zenon
<1>5. ASSUME NEW i \in matched, list[i].wait > 0
      PROVE  /\ Override(list, matched) \in matched /\ Override(list, matched) # 0
             /\ \A j \in matched : list[j].wait <= list[Override(list, matched)].wait
  <2>1. Override(list, matched) = best /\ best \in waits /\ Best(best)
    <3> HIDE DEF waits, best
    <3> QED  BY <1>2, <1>4, <1>5, Zenon
  <2> HIDE DEF best
  <2>2. best \in matched /\ best # 0 /\ list[best].wait > 0
    BY <1>1, <2>1, Zenon
  <2>3. \A j \in matched : list[j].wait <= list[best].wait
    BY <1>1, <2>1, <2>2
  <2> QED  BY <2>1, <2>2, <2>3, Zenon
<1> HIDE DEF waits, best
<1> QED  BY <1>2, <1>3, <1>5, Zenon

\* The waiting period is the longest of those that matched.
LEMMA LongestWait ==
    ASSUME NEW list \in Seq(Situation), NEW v
    PROVE  /\ evaluate_situations(list, v).requires = evaluate_when_blocks(list, v)
           /\ evaluate_situations(list, v).wait \in Nat
           /\ \A j \in evaluate_when_blocks(list, v) : list[j].wait <= evaluate_situations(list, v).wait
           /\ \/ evaluate_situations(list, v).wait = 0
              \/ \E j \in evaluate_when_blocks(list, v) : evaluate_situations(list, v).wait = list[j].wait
<1> DEFINE matched == evaluate_when_blocks(list, v)
           best == Override(list, matched)
<1>1. matched \in SUBSET (1..Len(list)) /\ \A j \in 1..Len(list) : list[j].wait \in 0..2
  <2>1. matched \in SUBSET (1..Len(list)) /\ \A j \in 1..Len(list) : list[j] \in Situation
    BY DEF evaluate_when_blocks
  <2> QED  BY <2>1, Zenon DEF Situation
<1>2. evaluate_situations(list, v) = [requires |-> matched, wait |-> IF best = 0 THEN 0 ELSE list[best].wait]
  BY Zenon DEF evaluate_situations
<1> HIDE DEF matched
<1>3. CASE \A i \in matched : list[i].wait = 0
  <2>1. best = 0
    BY <1>1, <1>3, OverrideLongest, Zenon
  <2> HIDE DEF best
  <2> QED  BY <1>1, <1>2, <1>3, <2>1 DEF matched
<1>4. CASE \E i \in matched : list[i].wait > 0
  <2>1. best \in matched /\ best # 0 /\ \A j \in matched : list[j].wait <= list[best].wait
    BY <1>1, <1>4, OverrideLongest, Zenon
  <2> HIDE DEF best
  <2>2. evaluate_situations(list, v).requires = matched /\ evaluate_situations(list, v).wait = list[best].wait
    BY <1>2, <2>1
  <2> QED  BY <1>1, <2>1, <2>2 DEF matched
<1>5. (\A i \in matched : list[i].wait = 0) \/ (\E i \in matched : list[i].wait > 0)
  BY <1>1
<1> QED  BY <1>3, <1>4, <1>5, Zenon

\* A charter without one of its situations asks for no more and waits no longer.
LEMMA SituationsAdd == ASSUME situations \in Seq(Situation) PROVE SituationsOnlyAdd
<1> SUFFICES ASSUME NEW v \in Answers, NEW i \in DOMAIN situations
    PROVE  /\ \A k \in evaluate_situations(SituationsWithout(situations, i), v).requires :
                (IF k < i THEN k ELSE k + 1) \in evaluate_situations(situations, v).requires
           /\ evaluate_situations(SituationsWithout(situations, i), v).wait <= evaluate_situations(situations, v).wait
  BY Zenon DEF SituationsOnlyAdd
<1> DEFINE n == Len(situations)
           r == SituationsWithout(situations, i)
           Place(k) == IF k < i THEN k ELSE k + 1
           E(x) == evaluate_predicate(x.op, x.bound, v)
<1>1. n \in Nat /\ i \in 1..n
  OBVIOUS
<1>2. /\ r \in Seq(Situation) /\ Len(r) = n - 1
      /\ \A k \in 1..(n - 1) : r[k] = situations[Place(k)] /\ Place(k) \in 1..n
  <2>1. /\ SubSeq(situations, 1, i - 1) \in Seq(Situation) /\ Len(SubSeq(situations, 1, i - 1)) = i - 1
        /\ \A k \in 1..(i - 1) : SubSeq(situations, 1, i - 1)[k] = situations[k]
    BY <1>1
  <2>2. /\ SubSeq(situations, i + 1, n) \in Seq(Situation) /\ Len(SubSeq(situations, i + 1, n)) = n - i
        /\ \A k \in 1..(n - i) : SubSeq(situations, i + 1, n)[k] = situations[k + i]
    BY <1>1
  <2> DEFINE x == SubSeq(situations, 1, i - 1)
             y == SubSeq(situations, i + 1, n)
  <2>3. r = x \o y
    BY Zenon DEF SituationsWithout
  <2>4. x \in Seq(Situation) /\ Len(x) = i - 1 /\ y \in Seq(Situation) /\ Len(y) = n - i
    BY <2>1, <2>2, Zenon
  <2>5. /\ \A k \in 1..(i - 1) : x[k] = situations[k]
        /\ \A k \in 1..(n - i) : y[k] = situations[k + i]
    BY <2>1, <2>2, SMTT(20)
  <2> HIDE DEF x, y, n
  <2>6. /\ r \in Seq(Situation) /\ Len(r) = (i - 1) + (n - i)
        /\ \A k \in 1..(i - 1) : r[k] = x[k]
        /\ \A k \in 1..(n - i) : r[(i - 1) + k] = y[k]
    <3>1. /\ x \o y \in Seq(Situation) /\ Len(x \o y) = Len(x) + Len(y)
          /\ \A k \in 1..Len(x) : (x \o y)[k] = x[k]
          /\ \A k \in 1..Len(y) : (x \o y)[Len(x) + k] = y[k]
      <4>1. x \in Seq(Situation) /\ y \in Seq(Situation)
        BY <2>4, Zenon
      <4> QED  BY <4>1
    <3> QED  BY <2>3, <2>4, <3>1, Zenon
  <2>7. ASSUME NEW k \in 1..(n - 1) PROVE r[k] = situations[Place(k)] /\ Place(k) \in 1..n
    <3>1. CASE k < i
      <4>1. k \in 1..(i - 1) /\ k \in 1..n
        BY <1>1, <3>1
      <4> QED  BY <2>5, <2>6, <3>1, <4>1, Zenon
    <3>2. CASE ~(k < i)
      <4>1. k - (i - 1) \in 1..(n - i) /\ (i - 1) + (k - (i - 1)) = k /\ (k - (i - 1)) + i = k + 1 /\ k + 1 \in 1..n
        BY <1>1, <3>2
      <4>2. r[k] = y[k - (i - 1)] /\ y[k - (i - 1)] = situations[k + 1]
        <5> DEFINE j == k - (i - 1)
        <5>1. j \in 1..(n - i) /\ (i - 1) + j = k /\ j + i = k + 1
          BY <4>1, Zenon
        <5> HIDE DEF j
        <5>2. r[(i - 1) + j] = y[j] /\ y[j] = situations[j + i]
          BY <2>5, <2>6, <5>1, Zenon
        <5> QED  BY <5>1, <5>2, Zenon DEF j
      <4> QED  BY <3>2, <4>1, <4>2, Zenon
    <3> QED  BY <3>1, <3>2, Zenon
  <2>8. (i - 1) + (n - i) = n - 1
    BY <1>1
  <2> QED  BY <2>6, <2>7, <2>8, Zenon
<1> HIDE DEF r, Place
<1>3. /\ evaluate_when_blocks(r, v) = {k \in 1..(n - 1) : E(r[k])}
      /\ evaluate_when_blocks(situations, v) = {k \in 1..n : E(situations[k])}
  BY <1>2, Zenon DEF evaluate_when_blocks
<1> HIDE DEF E, n
<1>4. \A k \in evaluate_when_blocks(r, v) :
        Place(k) \in evaluate_when_blocks(situations, v) /\ r[k] = situations[Place(k)]
  BY <1>2, <1>3, Zenon
<1>5. evaluate_situations(r, v).wait <= evaluate_situations(situations, v).wait
  <2>1. CASE evaluate_situations(r, v).wait = 0
    BY <2>1, LongestWait
  <2>2. CASE \E j \in evaluate_when_blocks(r, v) : evaluate_situations(r, v).wait = r[j].wait
    <3>1. PICK j \in evaluate_when_blocks(r, v) : evaluate_situations(r, v).wait = r[j].wait
      BY <2>2, Zenon
    <3>2. situations[Place(j)].wait <= evaluate_situations(situations, v).wait
      BY <1>4, <3>1, LongestWait, Zenon
    <3> QED  BY <1>4, <3>1, <3>2, Zenon
  <2> QED  BY <1>2, <2>1, <2>2, LongestWait, Zenon
<1>6. \A k \in evaluate_situations(r, v).requires : Place(k) \in evaluate_situations(situations, v).requires
  BY <1>2, <1>4, LongestWait, Zenon
<1> QED  BY <1>5, <1>6, Zenon DEF r, Place

\* For any users, roles, sessions, phases and situations: inboxes, badges and the overdue list agree;
\* requirements of a role only narrow who is let in; and a further situation only adds requirements and
\* waiting time (inbox queries, enforce_role_requirements, evaluate_situations).
THEOREM RuntimeAnswers == RuntimeChecksSpec => []RuntimeAnswersSound
<1> DEFINE Move == \/ InboxNext /\ UNCHANGED <<roleVars, situationVars>>
                   \/ RoleNext /\ UNCHANGED <<inboxVars, situationVars>>
                   \/ SituationNext /\ UNCHANGED <<inboxVars, roleVars>>
           Inv == InboxType /\ situations \in Seq(Situation)
<1>1. InboxInit /\ SituationInit => Inv
  BY DEF InboxInit, SituationInit, InboxType
<1>2. ASSUME Inv, [Move]_runtimeCheckVars PROVE Inv'
  <2>1. ASSUME UNCHANGED inboxVars PROVE InboxType'
    BY <1>2, <2>1, Zenon DEF inboxVars, InboxType
  <2>2. ASSUME SituationNext PROVE situations' \in Seq(Situation)
    <3>1. PICK op \in {"==", "!=", ">", "<", ">=", "<="}, b \in Bounds, w \in 0..2 : AddSituation(op, b, w)
      BY <2>2, Zenon DEF SituationNext
    <3>2. [op |-> op, bound |-> b, wait |-> w] \in Situation
      BY Zenon DEF Situation
    <3> QED  BY <1>2, <3>1, <3>2 DEF AddSituation
  <2>3. UNCHANGED situationVars => situations' = situations
    BY Zenon DEF situationVars
  <2> QED  BY <1>2, <2>1, <2>2, <2>3, InboxKeeps, Zenon DEF runtimeCheckVars
<1>3. Inv => RuntimeAnswersSound
  BY InboxesFollow, RolesNarrow, SituationsAdd, Zenon DEF RuntimeAnswersSound
<1> QED  BY <1>1, <1>2, <1>3, PTL DEF RuntimeChecksSpec
=============================================================================
