---------------------- MODULE CharterTransactionProofs ----------------------
(***************************************************************************)
(* What CharterRuntime promises when every call runs in one transaction:    *)
(* NeverReopened, RowsConsistent and NoLostActivation, for every charter    *)
(* and any number of requests and crashes.                                  *)
(*                                                                         *)
(* The facts are about a request at a label with the local variables l and  *)
(* the uncommitted writes t, over committed rows: the statuses S, the run R *)
(* and the trigger evidence E.                                              *)
(***************************************************************************)
EXTENDS CharterRuntimeProofs

\* Every call runs in one transaction.
OneTransaction == Transactional

\* The status of phase p in the eyes of the request.
Sees(t, S, p) == IF t.phase[p] # Unwritten THEN t.phase[p] ELSE S[p]

\* The request has locked the row of the run.
Locked(t) == t.run # NoRunWrite

FireLabels == {"trigger_update", "trigger_evidence"}

\* The labels of on_phase_completed at which it has locked the row of the run.
LockLabels == {"evaluate", "activate_read", "activate_write", "check_complete",
               "complete_run"}

\* Two requests never hold the same row.
Locks ==
    \A g, h \in Handlers : g # h =>
        /\ ~(Locked(tx[g]) /\ Locked(tx[h]))
        /\ \A p \in Phases : tx[g].phase[p] = Unwritten \/ tx[h].phase[p] = Unwritten

\* What the transaction has written over what.
WriteFact(t, S) ==
    /\ Locked(t) => t.run.status # Absent
    /\ \A p \in Phases :
          /\ t.phase[p] \notin {"pending", "waiting_gate"}
          /\ t.phase[p] = "in_progress" => S[p] = "waiting_trigger"
          /\ t.phase[p] \in {"waiting_user", "waiting_trigger"} =>
                S[p] = "pending" /\ t.phase[p] = TargetState(p)
          /\ t.phase[p] \in {"completed", "failed"} => S[p] \notin {"pending", Absent}

\* What the request has written and locked when it comes to a label.
LabelFact(label, l, t, S, R) ==
    /\ label \in {"idle", "mark_completed", "mark_failed"} => t = EmptyTx
    /\ label # "idle" => R.status # Absent
    /\ label \in {"mark_completed", "mark_failed"} =>
          l.arg \in Phases /\ S[l.arg] \notin {"pending", Absent}
    /\ label \in LockLabels => Locked(t)
    /\ label \in FireLabels => ~Locked(t)
    /\ label \in FireLabels \/ (label = "commit" /\ ~Locked(t)) =>
          \A p \in Phases : t.phase[p] \in {Unwritten, "in_progress"}
    /\ label = "activate_write" => l.down \in Phases /\ Sees(t, S, l.down) = "pending"
    /\ label \in {"skip_done", "finish_run"} => l.outcome # "none"

\* complete_charter_run is called for cancelled and failed runs only.
OnlyCascadeCompletes == Outcomes \subseteq {"cancelled", "failed"}

\* A transaction that closes the run leaves no open phase.
CloseFact(label, t, S) ==
    /\ OnlyCascadeCompletes
    /\ label = "complete_run" \/ (Locked(t) /\ t.run.status = "completed")
    => \A p \in Phases : Sees(t, S, p) \in TerminalStates

\* One of the triggers of phase p is on record in E.
OnRecord(p, E) == \E t \in Awaits[p] : <<p, t>> \in E

MustAwait(p) == p \notin EntryPhases /\ Awaits[p] # {}

\* A phase that goes on from a trigger has it on record, or is about to.
EvidenceFact(label, l, t, E) ==
    /\ label \in FireLabels => \A p \in l.todo \cup {l.arg} : l.trig \in Awaits[p]
    /\ label = "mark_completed" /\ MustAwait(l.arg) => OnRecord(l.arg, E)
    /\ \A p \in Phases : MustAwait(p) =>
          /\ t.phase[p] = "in_progress" =>
                \/ OnRecord(p, E \cup t.evidence)
                \/ label = "trigger_evidence" /\ l.arg = p
          /\ t.phase[p] = "completed" => OnRecord(p, E)

\* Phase p waits for other phases and nothing else.
Simple(p) ==
    \A k \in DOMAIN Requires[p] :
        Requires[p][k].kind = "phase" /\ Requires[p][k].condition # "other"

\* In the eyes of the request, phase p does not wait in vain.
Settled(t, S, p) ==
    Simple(p) /\ Sees(t, S, p) = "pending" =>
        \E q \in RequiresPhases(p) : Sees(t, S, q) # "completed"

\* The cascade settles every phase: those that do not require the completed one are,
\* the others become so one after the other.
JoinFact(label, l, t, S) ==
    /\ label \in {"set_current", "evaluate", "activate_read", "activate_write"} =>
          \A q \in Phases : t.phase[q] = "completed" => q = l.arg
    /\ label \in {"evaluate", "activate_read", "activate_write"} =>
          /\ l.down \in Phases
          /\ \A p \in Phases : p \notin Downstream(l.arg) \/ p < l.down => Settled(t, S, p)
    /\ label = "evaluate" => l.req >= 1
    /\ label = "evaluate" /\ l.unsatisfied > 0 /\ Simple(l.down) =>
          \E q \in RequiresPhases(l.down) : Sees(t, S, q) # "completed"
    /\ label \in {"check_complete", "complete_run"} \/ (label = "commit" /\ Locked(t)) =>
          \A p \in Phases : Settled(t, S, p)

HandlerFact(label, l, t, S, R, E) ==
    /\ WriteFact(t, S)
    /\ LabelFact(label, l, t, S, R)
    /\ CloseFact(label, t, S)
    /\ EvidenceFact(label, l, t, E)
    /\ JoinFact(label, l, t, S)

\* The committed rows.
RowFact(S, R, E) ==
    /\ \A p \in Phases :
          /\ S[p] # "waiting_gate"
          /\ R.status = Absent <=> S[p] = Absent
          /\ MustAwait(p) => S[p] # "waiting_user"
          /\ MustAwait(p) /\ S[p] \in {"in_progress", "completed"} => OnRecord(p, E)
          /\ Simple(p) /\ S[p] = "pending" => \E q \in RequiresPhases(p) : S[q] # "completed"
    /\ OnlyCascadeCompletes /\ R.status = "completed" =>
          \A p \in Phases : S[p] \in TerminalStates

\* The inductive invariant with one transaction per call.
TInv ==
    /\ RowFact(status, run, evidence)
    /\ Locks
    /\ \A h \in Handlers : HandlerFact(pc[h], loc[h], tx[h], status, run, evidence)

-----------------------------------------------------------------------------
(* Which changes of the committed rows a request does not notice.           *)

LEMMA TerminalFacts == TerminalStates = {"completed", "skipped", "failed"}
<1>1. \A s \in PhaseState : PHASE_TRANSITIONS[s] = {} <=> s \in {"completed", "skipped", "failed"}
  BY Zenon DEF PHASE_TRANSITIONS, PhaseState
<1> QED
  BY <1>1, Zenon DEF TerminalStates, PhaseState

LEMMA RequiresArePhases ==
    ASSUME NEW p \in Phases
    PROVE  RequiresPhases(p) \subseteq Phases
<1>1. \A k \in DOMAIN Requires[p] : Requires[p][k] \in RequireNode
  BY CharterAssumption
<1> QED
  BY <1>1, Zenon DEF RequiresPhases, RequireNode

Statuses == [Phases -> PhaseState \cup {Absent}]

\* The facts about a request survive what others commit: they do not touch the rows it has
\* written, reopen nothing, put nothing back to PENDING, and complete or activate nothing
\* while it holds the row of the run.
LEMMA FactStable ==
    ASSUME NEW label, NEW l, NEW t \in TxType, NEW S \in Statuses, NEW S1 \in Statuses,
           NEW R, NEW R1, NEW E, NEW E1, E \subseteq E1,
           HandlerFact(label, l, t, S, R, E),
           R.status # Absent => R1.status # Absent,
           \A p \in Phases : t.phase[p] # Unwritten => S1[p] = S[p],
           \A p \in Phases : S[p] \in TerminalStates => S1[p] \in TerminalStates,
           \A p \in Phases : S[p] \notin {"pending", Absent} => S1[p] \notin {"pending", Absent},
           Locked(t) => \A p \in Phases : /\ S1[p] = "pending" <=> S[p] = "pending"
                                          /\ S1[p] = "completed" <=> S[p] = "completed"
    PROVE  HandlerFact(label, l, t, S1, R1, E1)
<1>1. WriteFact(t, S1)
  BY Zenon DEF HandlerFact, WriteFact, TxType, Unwritten, Absent
<1>2. LabelFact(label, l, t, S1, R1)
  <2>1. ASSUME label = "activate_write"
        PROVE  l.down \in Phases /\ Sees(t, S1, l.down) = "pending"
    BY <2>1, Zenon DEF HandlerFact, LabelFact, WriteFact, Sees, LockLabels
  <2> QED
    BY <2>1, Zenon DEF HandlerFact, LabelFact
<1>3. CloseFact(label, t, S1)
  BY Zenon DEF HandlerFact, CloseFact, Sees
<1>4. EvidenceFact(label, l, t, E1)
  <2>1. \A p : OnRecord(p, E) => OnRecord(p, E1)
    BY Zenon DEF OnRecord
  <2>2. \A p : OnRecord(p, E \cup t.evidence) => OnRecord(p, E1 \cup t.evidence)
    BY Zenon DEF OnRecord
  <2> QED
    BY Zenon, <2>1, <2>2 DEF HandlerFact, EvidenceFact
<1>5. JoinFact(label, l, t, S1)
  <2>1. ASSUME Locked(t), NEW p \in Phases
        PROVE  /\ Sees(t, S1, p) = "pending" <=> Sees(t, S, p) = "pending"
               /\ Sees(t, S1, p) = "completed" <=> Sees(t, S, p) = "completed"
    BY <2>1, Zenon DEF Sees
  <2>2. \A p \in Phases : RequiresPhases(p) \subseteq Phases
    BY RequiresArePhases, Zenon
  <2>3. ASSUME Locked(t), NEW p \in Phases, Settled(t, S, p) PROVE Settled(t, S1, p)
    BY <2>1, <2>2, <2>3, Zenon DEF Settled
  <2>4. label \in {"evaluate", "activate_read", "activate_write", "check_complete",
                   "complete_run"} => Locked(t)
    BY Zenon DEF HandlerFact, LabelFact, LockLabels
  <2> QED
    BY <2>1, <2>2, <2>3, <2>4, Zenon DEF HandlerFact, JoinFact
<1> QED
  BY <1>1, <1>2, <1>3, <1>4, <1>5, Zenon DEF HandlerFact

-----------------------------------------------------------------------------
(* The kinds of steps.                                                      *)

LEMMA IdleFact ==
    ASSUME NEW S, NEW R, NEW E
    PROVE  HandlerFact("idle", IdleLoc, EmptyTx, S, R, E)
<1>1. /\ ~Locked(EmptyTx)
      /\ \A p \in Phases : EmptyTx.phase[p] = "unwritten"
  BY Zenon DEF Locked, EmptyTx, Unwritten
<1> QED
  BY <1>1, Zenon DEF HandlerFact, WriteFact, LabelFact, CloseFact, EvidenceFact, JoinFact,
         LockLabels, FireLabels

\* A statement of request h that leaves its transaction with the writes t.
LEMMA LocalStep ==
    ASSUME TypeOK, TInv, NEW h \in Handlers, NEW label, NEW l, NEW t \in TxType,
           UNCHANGED <<status, run, evidence>>,
           tx' = [tx EXCEPT ![h] = t],
           pc' = [pc EXCEPT ![h] = label],
           loc' = [loc EXCEPT ![h] = l],
           Locked(t) => Locked(tx[h]) \/ FreeRun(h),
           \A p \in Phases : t.phase[p] # Unwritten =>
               tx[h].phase[p] # Unwritten \/ FreePhase(h, p),
           HandlerFact(label, l, t, status, run, evidence)
    PROVE  TInv'
<1>1. /\ pc'[h] = label /\ loc'[h] = l /\ tx'[h] = t
      /\ \A g \in Handlers \ {h} : pc'[g] = pc[g] /\ loc'[g] = loc[g] /\ tx'[g] = tx[g]
  BY Zenon DEF TypeOK
<1>2. RowFact(status, run, evidence)'
  BY Zenon DEF TInv
<1>3. Locks'
  <2>1. ASSUME NEW g \in Handlers, g # h
        PROVE  /\ ~(Locked(tx[g]) /\ Locked(t))
               /\ \A p \in Phases : tx[g].phase[p] = Unwritten \/ t.phase[p] = Unwritten
    BY <2>1, Zenon DEF TInv, Locks, Locked, FreeRun, FreePhase
  <2>2. ASSUME NEW g \in Handlers, NEW k \in Handlers, g # k
        PROVE  /\ ~(Locked(tx'[g]) /\ Locked(tx'[k]))
               /\ \A p \in Phases : tx'[g].phase[p] = Unwritten \/ tx'[k].phase[p] = Unwritten
    <3>1. CASE g = h
      BY <1>1, <2>1, <2>2, <3>1
    <3>2. CASE k = h
      BY <1>1, <2>1, <2>2, <3>2
    <3>3. CASE g # h /\ k # h
      BY <1>1, <2>2, <3>3 DEF TInv, Locks
    <3> QED
      BY <3>1, <3>2, <3>3, Zenon
  <2> QED
    BY <2>2, Zenon DEF Locks
<1>4. ASSUME NEW g \in Handlers
      PROVE  HandlerFact(pc'[g], loc'[g], tx'[g], status', run', evidence')
  BY <1>1, Zenon DEF TInv
<1> QED
  BY <1>2, <1>3, <1>4, Zenon DEF TInv

\* A statement that writes nothing.
LEMMA ReadLocal ==
    ASSUME TypeOK, TInv, NEW h \in Handlers, NEW label, NEW l,
           Read, Goto(h, label, l), HandlerFact(label, l, tx[h], status, run, evidence)
    PROVE  TInv'
<1>1. tx' = [tx EXCEPT ![h] = tx[h]] /\ tx[h] \in TxType
  BY Zenon DEF TypeOK, Read
<1>2. /\ UNCHANGED <<status, run, evidence>>
      /\ pc' = [pc EXCEPT ![h] = label] /\ loc' = [loc EXCEPT ![h] = l]
  BY Zenon DEF Read, Goto
<1>3. \A p \in Phases : tx[h].phase[p] # Unwritten =>
          tx[h].phase[p] # Unwritten \/ FreePhase(h, p)
  BY Zenon
<1> QED
  BY Zenon, <1>1, <1>2, <1>3, LocalStep

\* With one transaction per call, a statement leaves its writes in the transaction.
LEMMA WriteLocal ==
    ASSUME OneTransaction, TypeOK, TInv, NEW h \in Handlers, NEW label, NEW l, NEW t \in TxType,
           Exec(h, t), Goto(h, label, l),
           Locked(t) => Locked(tx[h]) \/ FreeRun(h),
           \A p \in Phases : t.phase[p] # Unwritten =>
               tx[h].phase[p] # Unwritten \/ FreePhase(h, p),
           HandlerFact(label, l, t, status, run, evidence)
    PROVE  TInv'
<1>1. /\ tx' = [tx EXCEPT ![h] = t] /\ UNCHANGED <<status, run, evidence>>
      /\ pc' = [pc EXCEPT ![h] = label] /\ loc' = [loc EXCEPT ![h] = l]
  BY Zenon DEF OneTransaction, Exec, Goto
<1> QED
  BY Zenon, <1>1, LocalStep

\* What the requests know survives a change of the committed rows; the request h, if any,
\* has just ended its transaction.
LEMMA GlobalStep ==
    ASSUME TypeOK, TypeOK', TInv, NEW D \in SUBSET Handlers,
           \A g \in D : pc'[g] = "idle" /\ loc'[g] = IdleLoc /\ tx'[g] = EmptyTx,
           \A g \in Handlers \ D : pc'[g] = pc[g] /\ loc'[g] = loc[g] /\ tx'[g] = tx[g],
           evidence \subseteq evidence',
           run.status # Absent => run'.status # Absent,
           \A g \in Handlers \ D : \A p \in Phases :
               tx[g].phase[p] # Unwritten => status'[p] = status[p],
           \A p \in Phases : status[p] \in TerminalStates => status'[p] \in TerminalStates,
           \A p \in Phases : status[p] \notin {"pending", Absent} =>
               status'[p] \notin {"pending", Absent},
           \A g \in Handlers \ D : Locked(tx[g]) =>
               \A p \in Phases : /\ status'[p] = "pending" <=> status[p] = "pending"
                                 /\ status'[p] = "completed" <=> status[p] = "completed",
           RowFact(status, run, evidence)'
    PROVE  TInv'
<1>1. Locks'
  <2>1. \A g \in D : ~Locked(tx'[g]) /\ \A p \in Phases : tx'[g].phase[p] = Unwritten
    BY DEF Locked, EmptyTx
  <2> QED
    BY <2>1 DEF TInv, Locks
<1>2. ASSUME NEW g \in Handlers
      PROVE  HandlerFact(pc'[g], loc'[g], tx'[g], status', run', evidence')
  <2>1. CASE g \in D
    BY <2>1, IdleFact, Zenon
  <2>2. CASE g \notin D
    <3>1. /\ HandlerFact(pc[g], loc[g], tx[g], status, run, evidence)
          /\ tx[g] \in TxType /\ status \in Statuses /\ status' \in Statuses
      BY Zenon DEF TInv, TypeOK, Statuses
    <3>2. HandlerFact(pc[g], loc[g], tx[g], status', run', evidence')
      BY <2>2, <3>1, FactStable
    <3> QED
      BY <2>2, <3>2, Zenon
  <2> QED
    BY <2>1, <2>2, Zenon
<1> QED
  BY <1>1, <1>2, Zenon DEF TInv

-----------------------------------------------------------------------------
(* The steps that change the committed rows.                                *)

LEMMA InitTInv == Init => TInv
<1> SUFFICES ASSUME Init PROVE TInv
  BY Zenon
<1>1. RowFact(status, run, evidence)
  BY Zenon DEF Init, RowFact, Absent
<1>2. Locks
  BY Zenon DEF Init, Locks, Locked, EmptyTx
<1>3. ASSUME NEW h \in Handlers
      PROVE  HandlerFact(pc[h], loc[h], tx[h], status, run, evidence)
  BY IdleFact, Zenon DEF Init
<1> QED
  BY <1>1, <1>2, <1>3, Zenon DEF TInv

LEMMA StartTInv == ASSUME TypeOK, TypeOK', TInv, start_workflow PROVE TInv'
<1> USE DEF start_workflow
<1>1. \A p \in Phases : status[p] = Absent
  BY Zenon DEF TInv, RowFact
<1>2. \A g \in Handlers : pc[g] = "idle" /\ tx[g] = EmptyTx
  BY Zenon DEF TInv, HandlerFact, LabelFact
<1>3. \A g \in Handlers : ~Locked(tx[g]) /\ \A p \in Phases : tx[g].phase[p] = Unwritten
  BY <1>2 DEF Locked, EmptyTx
<1>4. \A p \in Phases : status'[p] = IF p \in EntryPhases THEN "waiting_user" ELSE "pending"
  BY Zenon
<1>5. RowFact(status, run, evidence)'
  <2>1. ASSUME NEW p \in Phases, status'[p] = "pending"
        PROVE  \E q \in RequiresPhases(p) : status'[q] # "completed"
    <3>1. RequiresPhases(p) # {}
      BY <1>4, <2>1, Zenon DEF EntryPhases
    <3> QED
      BY <1>4, <3>1, RequiresArePhases, Zenon
  <2>2. \A p \in Phases : MustAwait(p) => status'[p] = "pending"
    BY <1>4, Zenon DEF MustAwait
  <2> QED
    BY <1>4, <2>1, <2>2, Zenon DEF RowFact, Absent
<1>6. \A p \in Phases : status[p] \notin TerminalStates
  BY <1>1, TerminalFacts, Zenon DEF Absent
<1> QED
  <2> DEFINE D == {}
  <2>1. /\ D \in SUBSET Handlers
        /\ \A g \in D : pc'[g] = "idle" /\ loc'[g] = IdleLoc /\ tx'[g] = EmptyTx
        /\ \A g \in Handlers \ D : pc'[g] = pc[g] /\ loc'[g] = loc[g] /\ tx'[g] = tx[g]
        /\ \A g \in Handlers \ D : \A p \in Phases :
              tx[g].phase[p] # Unwritten => status'[p] = status[p]
        /\ \A g \in Handlers \ D : ~Locked(tx[g])
    BY <1>3, Zenon
  <2>2. evidence \subseteq evidence' /\ run.status = Absent
    BY Zenon
  <2> HIDE DEF D, start_workflow
  <2> QED
    BY <1>1, <1>5, <1>6, <2>1, <2>2, GlobalStep, Zenon

LEMMA ClaimTInv == ASSUME TypeOK, TypeOK', TInv, NEW p \in Phases, claim_phase(p) PROVE TInv'
<1> USE DEF claim_phase
<1>1. /\ status[p] = "waiting_user" /\ status'[p] = "in_progress"
      /\ \A q \in Phases : q # p => status'[q] = status[q]
  BY Zenon DEF TypeOK
<1>2. RowFact(status, run, evidence)'
  <2>1. \A q \in Phases : status'[q] = "pending" =>
            status[q] = "pending" /\ \A r \in Phases : status[r] # "completed" => status'[r] # "completed"
    BY <1>1, Zenon
  <2>2. OnlyCascadeCompletes /\ run.status = "completed" => FALSE
    BY <1>1, TerminalFacts, Zenon DEF TInv, RowFact
  <2>3. ~MustAwait(p)
    BY <1>1, Zenon DEF TInv, RowFact
  <2>4. ASSUME NEW q \in Phases, Simple(q), status'[q] = "pending"
        PROVE  \E r \in RequiresPhases(q) : status'[r] # "completed"
    BY <2>1, <2>4, RequiresArePhases, Zenon DEF TInv, RowFact
  <2> QED
    BY <1>1, <2>2, <2>3, <2>4, Zenon DEF TInv, RowFact, Absent
<1>3. \A q \in Phases : status[q] \in TerminalStates => status'[q] \in TerminalStates
  BY <1>1, TerminalFacts, Zenon
<1> QED
  <2> DEFINE D == {}
  <2>1. /\ D \in SUBSET Handlers
        /\ \A g \in D : pc'[g] = "idle" /\ loc'[g] = IdleLoc /\ tx'[g] = EmptyTx
        /\ \A g \in Handlers \ D : pc'[g] = pc[g] /\ loc'[g] = loc[g] /\ tx'[g] = tx[g]
        /\ \A g \in Handlers \ D : \A q \in Phases :
              tx[g].phase[q] # Unwritten => status'[q] = status[q]
    BY <1>1, Zenon
  <2>2. /\ evidence \subseteq evidence' /\ run' = run
        /\ \A q \in Phases : status[q] \notin {"pending", Absent} =>
              status'[q] \notin {"pending", Absent}
        /\ \A q \in Phases : /\ status'[q] = "pending" <=> status[q] = "pending"
                             /\ status'[q] = "completed" <=> status[q] = "completed"
    BY <1>1, Zenon DEF Absent
  <2> HIDE DEF D, claim_phase
  <2> QED
    BY <1>2, <1>3, <2>1, <2>2, GlobalStep, Zenon

\* What a commit changes: nothing is reopened or put back, and a transaction that does not
\* hold the row of the run only sends phases on that waited for a trigger.
LEMMA CommitChanges ==
    ASSUME TypeOK, TInv, NEW h \in Handlers, Commit(h)
    PROVE  /\ \A p \in Phases : status'[p] = Sees(tx[h], status, p)
           /\ \A p \in Phases : status[p] \in TerminalStates => status'[p] \in TerminalStates
           /\ \A p \in Phases : status[p] \notin {"pending", Absent} =>
                 status'[p] \notin {"pending", Absent}
           /\ ~Locked(tx[h]) => \A p \in Phases :
                 status'[p] # status[p] =>
                     status[p] = "waiting_trigger" /\ status'[p] = "in_progress"
<1>1. \A p \in Phases : status'[p] = Sees(tx[h], status, p)
  BY Zenon DEF Commit, Publish, Sees
<1>2. /\ WriteFact(tx[h], status) /\ LabelFact("commit", loc[h], tx[h], status, run)
      /\ tx[h] \in TxType
  BY Zenon DEF TInv, HandlerFact, Commit, TypeOK
<1>3. \A p \in Phases : tx[h].phase[p] \in PhaseState \cup {Unwritten}
  BY <1>2, Zenon DEF TxType
<1>4. \A p \in Phases : status[p] \in TerminalStates => status'[p] \in TerminalStates
  BY <1>1, <1>2, <1>3, TerminalFacts, Zenon DEF WriteFact, Sees, PhaseState
<1>5. \A p \in Phases : status[p] \notin {"pending", Absent} =>
          status'[p] \notin {"pending", Absent}
  BY <1>1, <1>2, <1>3, Zenon DEF WriteFact, Sees, PhaseState, Absent, Unwritten
<1>6. ~Locked(tx[h]) => \A p \in Phases :
          status'[p] # status[p] => status[p] = "waiting_trigger" /\ status'[p] = "in_progress"
  BY <1>1, <1>2, Zenon DEF WriteFact, LabelFact, Sees
<1> QED
  BY <1>1, <1>4, <1>5, <1>6, Zenon

LEMMA CommitTInv ==
    ASSUME TypeOK, TypeOK', TInv, NEW h \in Handlers, Commit(h)
    PROVE  TInv'
<1> DEFINE t == tx[h]
<1>1. HandlerFact("commit", loc[h], t, status, run, evidence) /\ t \in TxType
  BY Zenon DEF TInv, Commit, TypeOK
<1>2. /\ \A p \in Phases : status'[p] = Sees(t, status, p)
      /\ \A p \in Phases : status[p] \in TerminalStates => status'[p] \in TerminalStates
      /\ \A p \in Phases : status[p] \notin {"pending", Absent} =>
            status'[p] \notin {"pending", Absent}
      /\ ~Locked(t) => \A p \in Phases :
            status'[p] # status[p] => status[p] = "waiting_trigger" /\ status'[p] = "in_progress"
  BY CommitChanges, Zenon
<1>3. /\ run' = IF Locked(t) THEN t.run ELSE run
      /\ evidence' = evidence \cup t.evidence
      /\ tx' = [tx EXCEPT ![h] = EmptyTx]
      /\ pc' = [pc EXCEPT ![h] = "idle"]
      /\ loc' = [loc EXCEPT ![h] = IdleLoc]
  BY Zenon DEF Commit, Publish, Goto, Locked
<1>4. /\ tx'[h] = EmptyTx /\ pc'[h] = "idle" /\ loc'[h] = IdleLoc
      /\ \A g \in Handlers \ {h} : pc'[g] = pc[g] /\ loc'[g] = loc[g] /\ tx'[g] = tx[g]
  BY <1>3, Zenon DEF TypeOK
<1>5. run.status # Absent /\ run'.status # Absent
  BY <1>1, <1>3, Zenon DEF HandlerFact, LabelFact, WriteFact
<1>6. RowFact(status, run, evidence)'
  <2>1. \A p \in Phases : t.phase[p] \in PhaseState \cup {Unwritten}
    BY <1>1, Zenon DEF TxType
  <2>2. ASSUME NEW p \in Phases PROVE status'[p] # "waiting_gate" /\ status'[p] # Absent
    BY Zenon, <1>1, <1>2, <1>5, <2>1 DEF HandlerFact, WriteFact, TInv, RowFact, Sees,
       PhaseState, Absent
  <2>3. ASSUME NEW p \in Phases, MustAwait(p) PROVE status'[p] # "waiting_user"
    BY Zenon, <1>1, <1>2, <2>3
    DEF HandlerFact, WriteFact, TInv, RowFact, Sees, TargetState, MustAwait
  <2>4. ASSUME NEW p \in Phases, MustAwait(p), status'[p] \in {"in_progress", "completed"}
        PROVE  OnRecord(p, evidence')
    <3>1. OnRecord(p, evidence) => OnRecord(p, evidence')
      BY <1>3, Zenon DEF OnRecord
    <3> QED
      BY Zenon, <1>1, <1>2, <1>3, <2>4, <3>1 DEF HandlerFact, EvidenceFact, TInv, RowFact, Sees
  <2>5. ASSUME NEW p \in Phases, Simple(p), status'[p] = "pending"
        PROVE  \E q \in RequiresPhases(p) : status'[q] # "completed"
    <3>1. CASE Locked(t)
      <4>1. Settled(t, status, p)
        BY <1>1, <3>1, Zenon DEF HandlerFact, JoinFact
      <4> QED
        BY <1>2, <2>5, <4>1, RequiresArePhases, Zenon DEF Settled
    <3>2. CASE ~Locked(t)
      BY <1>2, <2>5, <3>2, RequiresArePhases, Zenon DEF TInv, RowFact
    <3> QED
      BY <3>1, <3>2, Zenon
  <2>6. ASSUME OnlyCascadeCompletes, run'.status = "completed", NEW p \in Phases
        PROVE  status'[p] \in TerminalStates
    BY <1>1, <1>2, <1>3, <2>6, Zenon DEF HandlerFact, CloseFact, TInv, RowFact
  <2> QED
    BY <1>5, <2>2, <2>3, <2>4, <2>5, <2>6, Zenon DEF RowFact
<1>7. \A g \in Handlers \ {h} : \A p \in Phases :
          tx[g].phase[p] # Unwritten => status'[p] = status[p]
  BY <1>2, Zenon DEF TInv, Locks, Sees
<1>8. \A g \in Handlers \ {h} : Locked(tx[g]) =>
          \A p \in Phases : /\ status'[p] = "pending" <=> status[p] = "pending"
                            /\ status'[p] = "completed" <=> status[p] = "completed"
  <2>1. \A g \in Handlers \ {h} : Locked(tx[g]) => ~Locked(t)
    BY Zenon DEF TInv, Locks
  <2> QED
    BY <1>2, <2>1, Zenon
<1> DEFINE D == {h}
<1>9. /\ D \in SUBSET Handlers
      /\ \A g \in D : pc'[g] = "idle" /\ loc'[g] = IdleLoc /\ tx'[g] = EmptyTx
      /\ evidence \subseteq evidence'
  BY <1>3, <1>4, Zenon
<1>10. \A g \in Handlers \ D : pc'[g] = pc[g] /\ loc'[g] = loc[g] /\ tx'[g] = tx[g]
  BY <1>4, Zenon
<1>11. /\ \A g \in Handlers \ D : \A p \in Phases :
             tx[g].phase[p] # Unwritten => status'[p] = status[p]
       /\ \A g \in Handlers \ D : Locked(tx[g]) =>
             \A p \in Phases : /\ status'[p] = "pending" <=> status[p] = "pending"
                               /\ status'[p] = "completed" <=> status[p] = "completed"
  BY <1>7, <1>8, Zenon
<1> HIDE DEF t, D
<1> QED
  BY <1>2, <1>5, <1>6, <1>9, <1>10, <1>11, GlobalStep, Zenon

\* Crash and DeadlockVictim
LEMMA RollbackTInv ==
    ASSUME TypeOK, TInv, NEW h \in Handlers, Rollback(h)
    PROVE  TInv'
<1>1. \A p \in Phases : EmptyTx.phase[p] = Unwritten
  BY Zenon DEF EmptyTx
<1> QED
  BY Zenon, <1>1, IdleFact, EmptyTxFacts, LocalStep DEF Rollback, Locked, EmptyTx

-----------------------------------------------------------------------------
(* The statements of the calls.                                             *)

LEMMA PhaseWritten ==
    ASSUME NEW t0 \in TxType, NEW p \in Phases, NEW s \in PhaseState,
           NEW t, t = [t0 EXCEPT !.phase[p] = s]
    PROVE  /\ t \in TxType /\ t.run = t0.run /\ t.evidence = t0.evidence
           /\ t.phase[p] = s
           /\ \A q \in Phases : q # p => t.phase[q] = t0.phase[q]
<1>1. t \in TxType /\ t.run = t0.run /\ t.evidence = t0.evidence
  BY Zenon DEF TxType
<1>2. t.phase = [t0.phase EXCEPT ![p] = s]
  BY Zenon DEF TxType
<1> QED
  BY <1>1, <1>2, Zenon DEF TxType

LEMMA RunWritten ==
    ASSUME NEW t0 \in TxType, NEW r \in RunRow, NEW t, t = [t0 EXCEPT !.run = r]
    PROVE  /\ t \in TxType /\ t.phase = t0.phase /\ t.evidence = t0.evidence
           /\ t.run = r /\ Locked(t)
<1>1. t \in TxType /\ t.phase = t0.phase /\ t.evidence = t0.evidence /\ t.run = r
  BY Zenon DEF TxType
<1>2. r.status # Unwritten
  BY Zenon DEF RunRow, Unwritten, Absent
<1> QED
  BY <1>1, <1>2 DEF Locked, NoRunWrite

\* Without a completion of what p requires, a transaction leaves p as settled as it was.
LEMMA SettledWithout ==
    ASSUME NEW S, NEW R, NEW E, NEW t, RowFact(S, R, E), WriteFact(t, S), NEW p \in Phases,
           \A q \in Phases : t.phase[q] = "completed" => q \notin RequiresPhases(p)
    PROVE  Settled(t, S, p)
BY RequiresArePhases, Zenon DEF RowFact, WriteFact, Settled, Sees

\* A transaction never waits in its own writes for what it has closed.
LEMMA WrittenOverOpen ==
    ASSUME NEW t \in TxType, NEW S, WriteFact(t, S), NEW p \in Phases,
           S[p] \in TerminalStates
    PROVE  Sees(t, S, p) \in TerminalStates
BY TerminalFacts, Zenon DEF WriteFact, Sees, TxType, PhaseState

\* The loop over the downstream phases goes on after position k, or ends.
LEMMA NextDownstreamSettles ==
    ASSUME NEW h \in Handlers, loc[h] \in LocType, NEW k \in Nat, NextDownstream(h, k),
           NEW t, NEW S, NEW R, NEW E, R.status # Absent, Locked(t),
           WriteFact(t, S), CloseFact("commit", t, S), EvidenceFact("commit", loc[h], t, E),
           \A q \in Phases : t.phase[q] = "completed" => q = loc[h].arg,
           \A p \in Phases : p \notin Downstream(loc[h].arg) \/ p <= k => Settled(t, S, p)
    PROVE  \E label, l : Goto(h, label, l) /\ HandlerFact(label, l, t, S, R, E)
<1> DEFINE rest == {d \in Downstream(loc[h].arg) : d > k}
<1>0. Phases \subseteq Nat /\ Downstream(loc[h].arg) \subseteq Phases
  BY DEF Phases, Downstream
<1>1. CASE rest = {} /\ Goto(h, "check_complete",
                             [loc[h] EXCEPT !.down = 0, !.req = 0, !.unsatisfied = 0])
  <2> DEFINE l == [loc[h] EXCEPT !.down = 0, !.req = 0, !.unsatisfied = 0]
  <2>1. \A p \in Phases : Settled(t, S, p)
    BY <1>0, <1>1
  <2>2. JoinFact("check_complete", l, t, S)
    BY <2>1, Zenon DEF JoinFact
  <2>3. LabelFact("check_complete", l, t, S, R)
    BY Zenon DEF LabelFact, LockLabels, FireLabels
  <2>4. CloseFact("check_complete", t, S) /\ EvidenceFact("check_complete", l, t, E)
    BY Zenon DEF CloseFact, EvidenceFact, FireLabels
  <2>5. HandlerFact("check_complete", l, t, S, R, E)
    BY <2>2, <2>3, <2>4, Zenon DEF HandlerFact
  <2> QED
    BY <1>1, <2>5, Zenon
<1>2. ASSUME NEW d \in rest, \A e \in rest : d <= e,
             Goto(h, "evaluate", [loc[h] EXCEPT !.down = d, !.req = 1, !.unsatisfied = 0])
      PROVE  \E label, l : Goto(h, label, l) /\ HandlerFact(label, l, t, S, R, E)
  <2> DEFINE l == [loc[h] EXCEPT !.down = d, !.req = 1, !.unsatisfied = 0]
  <2>1. l.arg = loc[h].arg /\ l.down = d /\ l.req = 1 /\ l.unsatisfied = 0
    BY Zenon DEF LocType
  <2>2. ASSUME NEW p \in Phases, p \notin Downstream(l.arg) \/ p < d PROVE Settled(t, S, p)
    <3>1. CASE p \notin Downstream(loc[h].arg)
      BY <3>1, Zenon
    <3>2. CASE p \in Downstream(loc[h].arg)
      <4>1. ~(p > k)
        BY <1>0, <1>2, <2>1, <2>2, <3>2
      <4> QED
        BY <1>0, <4>1
    <3> QED
      BY <3>1, <3>2, Zenon
  <2>3. JoinFact("evaluate", l, t, S)
    <3> HIDE DEF l
    <3> QED
      BY <1>0, <1>2, <2>1, <2>2 DEF JoinFact
  <2>4. LabelFact("evaluate", l, t, S, R)
    BY Zenon DEF LabelFact, LockLabels, FireLabels
  <2>5. CloseFact("evaluate", t, S) /\ EvidenceFact("evaluate", l, t, E)
    BY Zenon DEF CloseFact, EvidenceFact, FireLabels
  <2>6. HandlerFact("evaluate", l, t, S, R, E)
    BY <2>3, <2>4, <2>5, Zenon DEF HandlerFact
  <2> QED
    BY <1>2, <2>6, Zenon
<1> QED
  BY Zenon, <1>1, <1>2 DEF NextDownstream

\* The facts about a request in flight, spelled out.
LEMMA AtLabel ==
    ASSUME TypeOK, TInv, NEW h \in Handlers
    PROVE  /\ tx[h] \in TxType /\ loc[h] \in LocType
           /\ RowFact(status, run, evidence)
           /\ WriteFact(tx[h], status)
           /\ LabelFact(pc[h], loc[h], tx[h], status, run)
           /\ CloseFact(pc[h], tx[h], status)
           /\ EvidenceFact(pc[h], loc[h], tx[h], evidence)
           /\ JoinFact(pc[h], loc[h], tx[h], status)
BY Zenon DEF TypeOK, TInv, HandlerFact

\* A request that has written nothing knows nothing that could be wrong.
LEMMA NothingWritten ==
    ASSUME NEW label, NEW l, NEW S, NEW R, NEW E,
           label \notin LockLabels \cup {"commit", "activate_write", "complete_run"},
           LabelFact(label, l, EmptyTx, S, R),
           label \in FireLabels => \A p \in l.todo \cup {l.arg} : l.trig \in Awaits[p],
           label = "mark_completed" /\ MustAwait(l.arg) => OnRecord(l.arg, E)
    PROVE  HandlerFact(label, l, EmptyTx, S, R, E)
<1>1. /\ ~Locked(EmptyTx)
      /\ \A p \in Phases : EmptyTx.phase[p] = "unwritten"
  BY Zenon DEF Locked, EmptyTx, Unwritten
<1>2. WriteFact(EmptyTx, S) /\ CloseFact(label, EmptyTx, S)
  BY <1>1, Zenon DEF WriteFact, CloseFact
<1>3. EvidenceFact(label, l, EmptyTx, E)
  BY <1>1, Zenon DEF EvidenceFact
<1>4. JoinFact(label, l, EmptyTx, S)
  BY <1>1, Zenon DEF JoinFact, LockLabels
<1> QED
  BY <1>2, <1>3, <1>4, Zenon DEF HandlerFact

LEMMA NextRowLabel ==
    ASSUME NEW h \in Handlers, NEW todo, NextRow(h, todo)
    PROVE  \E label, l :
              /\ label \in {"skip_phase", "skip_done"}
              /\ Goto(h, label, l) /\ (label = "skip_done" => l.outcome # "none")
<1> DEFINE d == [IdleLoc EXCEPT !.outcome = "cancelled"]
<1>1. d.outcome # "none"
  BY Zenon DEF IdleLoc
<1>2. CASE Goto(h, "skip_done", d)
  <2> HIDE DEF d
  <2> QED
    BY <1>1, <1>2
<1>3. ASSUME NEW l, Goto(h, "skip_phase", l)
      PROVE  \E label, m :
                /\ label \in {"skip_phase", "skip_done"}
                /\ Goto(h, label, m) /\ (label = "skip_done" => m.outcome # "none")
  BY <1>3
<1> QED
  BY Zenon, <1>2, <1>3 DEF NextRow

LEMMA BeginTInv ==
    ASSUME TypeOK, TInv, NEW h \in Handlers, Begin(h)
    PROVE  TInv'
<1>1. ASSUME pc[h] = "idle" PROVE tx[h] = EmptyTx
  BY <1>1, AtLabel, Zenon DEF LabelFact
<1>2. ASSUME NEW p \in Phases, status[p] \notin {"pending", Absent} PROVE run.status # Absent
  BY <1>2, Zenon DEF TInv, RowFact
<1>3. ASSUME NEW p \in Phases, BeginComplete(h, p) PROVE TInv'
  <2> DEFINE l == [IdleLoc EXCEPT !.arg = p]
  <2>1. status[p] = "in_progress"
    BY <1>3, Zenon DEF BeginComplete, is_valid_transition, PHASE_TRANSITIONS, PhaseState
  <2>2. l.arg = p
    BY Zenon DEF IdleLoc
  <2>3. LabelFact("mark_completed", l, EmptyTx, status, run)
    <3> HIDE DEF l
    <3> QED
      BY <1>2, <2>1, <2>2, Zenon DEF LabelFact, LockLabels, FireLabels, Absent
  <2>4. MustAwait(l.arg) => OnRecord(l.arg, evidence)
    BY <2>1, <2>2, Zenon DEF TInv, RowFact
  <2>5. HandlerFact("mark_completed", l, EmptyTx, status, run, evidence)
    <3> HIDE DEF l
    <3> QED
      BY <2>3, <2>4, NothingWritten, Zenon DEF LockLabels, FireLabels
  <2> QED
    BY <1>1, <1>3, <2>5, ReadLocal, Zenon DEF BeginComplete
<1>4. ASSUME NEW p \in Phases, BeginFail(h, p) PROVE TInv'
  <2> DEFINE l == [IdleLoc EXCEPT !.arg = p]
  <2>1. status[p] \notin {"pending", Absent}
    BY <1>4, Zenon DEF BeginFail, is_valid_transition, PHASE_TRANSITIONS, PhaseState, Absent
  <2>2. l.arg = p
    BY Zenon DEF IdleLoc
  <2>3. LabelFact("mark_failed", l, EmptyTx, status, run)
    <3> HIDE DEF l
    <3> QED
      BY <1>2, <2>1, <2>2, Zenon DEF LabelFact, LockLabels, FireLabels, Absent
  <2>5. HandlerFact("mark_failed", l, EmptyTx, status, run, evidence)
    <3> HIDE DEF l
    <3> QED
      BY <2>3, NothingWritten, Zenon DEF LockLabels, FireLabels
  <2> QED
    BY <1>1, <1>4, <2>5, ReadLocal, Zenon DEF BeginFail
<1>5. ASSUME NEW t \in Triggers, BeginFire(h, t) PROVE TInv'
  <2> DEFINE matching == {q \in Phases : status[q] = "waiting_trigger" /\ t \in Awaits[q]}
             l(p) == [IdleLoc EXCEPT !.arg = p, !.todo = matching \ {p}, !.trig = t]
  <2>1. PICK p \in matching : Goto(h, "trigger_update", l(p))
    BY Zenon, <1>5 DEF BeginFire
  <2>2. l(p).todo = matching \ {p} /\ l(p).arg = p /\ l(p).trig = t
    BY Zenon DEF IdleLoc
  <2>3. \A q \in l(p).todo \cup {l(p).arg} : l(p).trig \in Awaits[q]
    BY <2>2, Zenon
  <2>4. LabelFact("trigger_update", l(p), EmptyTx, status, run)
    <3>1. ~Locked(EmptyTx) /\ \A q \in Phases : EmptyTx.phase[q] = Unwritten
      BY Zenon DEF Locked, EmptyTx
    <3> QED
      BY <1>2, <3>1, Zenon DEF LabelFact, LockLabels, FireLabels, Absent
  <2>5. HandlerFact("trigger_update", l(p), EmptyTx, status, run, evidence)
    <3> HIDE DEF l
    <3> QED
      BY <2>3, <2>4, NothingWritten, Zenon DEF LockLabels, FireLabels
  <2>6. pc[h] = "idle" /\ Read
    BY <1>5, Zenon DEF BeginFire
  <2> HIDE DEF l
  <2> QED
    BY <1>1, <2>1, <2>5, <2>6, ReadLocal, Zenon
<1>6. ASSUME BeginCancel(h) PROVE TInv'
  <2>1. PICK label, l :
            /\ label \in {"skip_phase", "skip_done"}
            /\ Goto(h, label, l) /\ (label = "skip_done" => l.outcome # "none")
    BY <1>6, NextRowLabel, Zenon DEF BeginCancel
  <2>2. LabelFact(label, l, EmptyTx, status, run)
    BY <1>6, <2>1, Zenon DEF LabelFact, LockLabels, FireLabels, BeginCancel
  <2>3. HandlerFact(label, l, EmptyTx, status, run, evidence)
    BY <2>1, <2>2, NothingWritten, Zenon DEF LockLabels, FireLabels
  <2> QED
    BY <1>1, <1>6, <2>1, <2>3, ReadLocal, Zenon DEF BeginCancel
<1>7. ASSUME NEW o \in Outcomes, BeginFinish(h, o) PROVE TInv'
  <2> DEFINE l == [IdleLoc EXCEPT !.outcome = o]
  <2>1. l.outcome # "none"
    BY CallerAssumption, Zenon DEF IdleLoc
  <2>2. LabelFact("finish_run", l, EmptyTx, status, run)
    <3> HIDE DEF l
    <3> QED
      BY <1>7, <2>1, Zenon DEF LabelFact, LockLabels, FireLabels, BeginFinish
  <2>3. HandlerFact("finish_run", l, EmptyTx, status, run, evidence)
    <3> HIDE DEF l
    <3> QED
      BY <2>2, NothingWritten, Zenon DEF LockLabels, FireLabels
  <2> QED
    BY <1>1, <1>7, <2>3, ReadLocal, Zenon DEF BeginFinish
<1> QED
  BY <1>3, <1>4, <1>5, <1>6, <1>7, Zenon DEF Begin

LEMMA PhaseNumbers ==
    /\ Phases \subseteq Nat
    /\ \A p, q \in Phases : p <= q => p < q \/ p = q
BY DEF Phases

LEMMA RequiresTuples ==
    ASSUME NEW p \in Phases
    PROVE  /\ Requires[p] \in Seq(RequireNode)
           /\ DOMAIN Requires[p] = 1..Len(Requires[p])
BY CharterAssumption

\* on_phase_completed, from the UPDATE of the phase to the last statement.
LEMMA CascadeTInv ==
    ASSUME OneTransaction, TypeOK, TInv, NEW h \in Handlers,
           \/ MarkCompleted(h) \/ SetCurrentPhase(h) \/ EvaluateRequire(h)
           \/ ActivateRead(h) \/ ActivateWrite(h) \/ CheckComplete(h) \/ CompleteRun(h)
    PROVE  TInv'
<1> DEFINE d == loc[h].down
           t0 == tx[h]
<1>1. /\ t0 \in TxType /\ loc[h] \in LocType
      /\ RowFact(status, run, evidence)
      /\ WriteFact(t0, status)
      /\ LabelFact(pc[h], loc[h], t0, status, run)
      /\ CloseFact(pc[h], t0, status)
      /\ EvidenceFact(pc[h], loc[h], t0, evidence)
      /\ JoinFact(pc[h], loc[h], t0, status)
  BY AtLabel, Zenon
\* The loop goes on after a phase that has been looked at.
<1>2. ASSUME Read, pc[h] \in {"evaluate", "activate_read"}, Settled(t0, status, d),
             NextDownstream(h, d)
      PROVE  TInv'
  <2>1. d \in Phases /\ d \in Nat /\ Locked(t0) /\ run.status # Absent
    BY Zenon, <1>1, <1>2, PhaseNumbers DEF JoinFact, LabelFact, LockLabels
  <2>2. CloseFact("commit", t0, status) /\ EvidenceFact("commit", loc[h], t0, evidence)
    BY Zenon, <1>1, <1>2 DEF CloseFact, EvidenceFact, FireLabels
  <2>3. \A q \in Phases : t0.phase[q] = "completed" => q = loc[h].arg
    BY Zenon, <1>1, <1>2 DEF JoinFact
  <2>4. \A p \in Phases : p \notin Downstream(loc[h].arg) \/ p <= d => Settled(t0, status, p)
    BY Zenon, <1>1, <1>2, <2>1, PhaseNumbers DEF JoinFact
  <2>5. PICK label, l : Goto(h, label, l) /\ HandlerFact(label, l, t0, status, run, evidence)
    BY Zenon, <1>1, <1>2, <2>1, <2>2, <2>3, <2>4, NextDownstreamSettles
  <2> QED
    BY <1>2, <2>5, ReadLocal, Zenon
<1>3. CASE MarkCompleted(h)
  <2> DEFINE p == loc[h].arg
             t == [t0 EXCEPT !.phase[p] = "completed"]
  <2>1. pc[h] = "mark_completed" /\ FreePhase(h, p) /\ Exec(h, t) /\ Goto(h, "set_current", loc[h])
    BY <1>3, Zenon DEF MarkCompleted, WritePhase
  <2>2. p \in Phases /\ status[p] \notin {"pending", Absent} /\ t0 = EmptyTx /\ run.status # Absent
    BY <1>1, <2>1, Zenon DEF LabelFact
  <2>3. /\ t \in TxType /\ t.run = t0.run /\ t.evidence = t0.evidence
        /\ t.phase[p] = "completed"
        /\ \A q \in Phases : q # p => t.phase[q] = t0.phase[q]
    BY <1>1, <2>2, PhaseWritten DEF PhaseState
  <2>4. ~Locked(t) /\ \A q \in Phases : q # p => t.phase[q] = "unwritten"
    BY <2>2, <2>3 DEF Locked, EmptyTx, Unwritten
  <2>5. MustAwait(p) => OnRecord(p, evidence)
    BY <1>1, <2>1, Zenon DEF EvidenceFact
  <2> HIDE DEF t, p
  <2>6. HandlerFact("set_current", loc[h], t, status, run, evidence)
    <3>1. WriteFact(t, status)
      BY <2>2, <2>3, <2>4, Zenon DEF WriteFact
    <3>2. LabelFact("set_current", loc[h], t, status, run)
      BY <2>2, Zenon DEF LabelFact, LockLabels, FireLabels
    <3>3. CloseFact("set_current", t, status)
      BY <2>4, Zenon DEF CloseFact
    <3>4. EvidenceFact("set_current", loc[h], t, evidence)
      BY <2>3, <2>4, <2>5, Zenon DEF EvidenceFact, FireLabels
    <3>5. JoinFact("set_current", loc[h], t, status)
      BY <2>3, <2>4, Zenon DEF JoinFact, p
    <3> QED
      BY <3>1, <3>2, <3>3, <3>4, <3>5, Zenon DEF HandlerFact
  <2>7. \A q \in Phases : t.phase[q] # Unwritten => FreePhase(h, q)
    BY <2>1, <2>4, Zenon DEF Unwritten
  <2> QED
    BY Zenon, <2>1, <2>3, <2>4, <2>6, <2>7, WriteLocal DEF p
<1>4. CASE SetCurrentPhase(h)
  <2> DEFINE r == IF Locked(t0) THEN t0.run ELSE run
             t == [t0 EXCEPT !.run = r]
  <2>1. pc[h] = "set_current" /\ FreeRun(h) /\ Exec(h, t) /\ NextDownstream(h, 0)
    BY <1>4, Zenon DEF SetCurrentPhase, TouchRun, Locked
  <2>2. r \in RunRow /\ run.status # Absent
    BY <1>1, <2>1, Zenon DEF TxType, TypeOK, Locked, LabelFact
  <2> HIDE DEF r
  <2>3. /\ t \in TxType /\ t.phase = t0.phase /\ t.evidence = t0.evidence
        /\ t.run = r /\ Locked(t)
    BY <1>1, <2>2, RunWritten, Zenon
  <2> HIDE DEF t
  <2>4. WriteFact(t, status)
    BY Zenon, <1>1, <2>2, <2>3 DEF WriteFact, r
  <2>5. CloseFact("commit", t, status)
    <3>1. CASE Locked(t0)
      BY Zenon, <1>1, <2>3, <3>1 DEF CloseFact, r, Sees
    <3>2. CASE ~Locked(t0)
      BY Zenon, <1>1, <2>3, <2>4, <3>2, WrittenOverOpen DEF CloseFact, RowFact, r
    <3> QED
      BY <3>1, <3>2, Zenon
  <2>6. EvidenceFact("commit", loc[h], t, evidence)
    BY Zenon, <1>1, <2>1, <2>3 DEF EvidenceFact, FireLabels
  <2>7. \A q \in Phases : t.phase[q] = "completed" => q = loc[h].arg
    BY Zenon, <1>1, <2>1, <2>3 DEF JoinFact
  <2>8. ASSUME NEW p \in Phases, p \notin Downstream(loc[h].arg) \/ p <= 0
        PROVE  Settled(t, status, p)
    <3>1. loc[h].arg \notin RequiresPhases(p)
      BY <2>8 DEF Downstream, Phases
    <3> QED
      BY Zenon, <1>1, <2>4, <2>7, <3>1, SettledWithout
  <2>9. PICK label, l : Goto(h, label, l) /\ HandlerFact(label, l, t, status, run, evidence)
    BY Zenon, <1>1, <2>1, <2>2, <2>3, <2>4, <2>5, <2>6, <2>7, <2>8, NextDownstreamSettles
  <2> QED
    BY Zenon, <2>1, <2>3, <2>9, WriteLocal
<1>5. CASE EvaluateRequire(h)
  <2> DEFINE r == Requires[d][loc[h].req]
             count == loc[h].unsatisfied
                          + (IF evaluate_single_require(h, r) THEN 0 ELSE 1)
  <2>1. /\ Read /\ pc[h] = "evaluate" /\ d \in Phases
        /\ loc[h].req \in Nat /\ loc[h].req >= 1 /\ loc[h].unsatisfied \in Nat
        /\ Locked(t0) /\ run.status # Absent
    BY <1>1, <1>5, Zenon DEF EvaluateRequire, JoinFact, LocType, LabelFact, LockLabels
  <2>2. /\ Requires[d] \in Seq(RequireNode)
        /\ DOMAIN Requires[d] = 1..Len(Requires[d])
    BY Zenon, <2>1, RequiresTuples
  <2>3. count \in Nat
    BY <2>1
  <2>4. ASSUME count > 0, Simple(d), loc[h].req <= Len(Requires[d])
        PROVE  \E q \in RequiresPhases(d) : Sees(t0, status, q) # "completed"
    <3>1. CASE loc[h].unsatisfied > 0
      BY Zenon, <1>1, <2>1, <2>4, <3>1 DEF JoinFact
    <3>2. CASE ~(loc[h].unsatisfied > 0)
      <4>1. ~evaluate_single_require(h, r)
        BY <2>1, <2>4, <3>2
      <4>2. loc[h].req \in DOMAIN Requires[d]
        BY <2>1, <2>2, <2>4, SMTT(20)
      <4>3. r \in RequireNode /\ r.kind = "phase" /\ r.condition # "other"
        BY <2>2, <2>4, <4>2 DEF Simple
      <4>4. r.condition \in {"passed", "complete"}
        BY <4>3, Zenon DEF RequireNode
      <4>5. r.phase \in RequiresPhases(d)
        BY Zenon, <4>2, <4>3 DEF RequiresPhases
      <4>6. View(h, r.phase) # "completed"
        BY Zenon, <4>1, <4>3, <4>4 DEF evaluate_single_require
      <4> QED
        BY Zenon, <4>5, <4>6 DEF View, Sees
    <3> QED
      BY <3>1, <3>2, Zenon
  <2>5. CASE loc[h].req < Len(Requires[d])
             /\ Goto(h, "evaluate", [loc[h] EXCEPT !.req = @ + 1, !.unsatisfied = count])
    <3> DEFINE l == [loc[h] EXCEPT !.req = @ + 1, !.unsatisfied = count]
    <3>1. /\ l.arg = loc[h].arg /\ l.down = d
          /\ l.req = loc[h].req + 1 /\ l.unsatisfied = count
      <4> HIDE DEF count
      <4> QED
        BY <1>1, Zenon DEF LocType
    <3> HIDE DEF l, count
    <3>2. JoinFact("evaluate", l, t0, status)
      BY <1>1, <2>1, <2>2, <2>4, <2>5, <3>1 DEF JoinFact
    <3>3. LabelFact("evaluate", l, t0, status, run)
      BY <2>1, Zenon DEF LabelFact, LockLabels, FireLabels
    <3>4. CloseFact("evaluate", t0, status) /\ EvidenceFact("evaluate", l, t0, evidence)
      BY Zenon, <1>1, <2>1 DEF CloseFact, EvidenceFact, FireLabels
    <3>5. HandlerFact("evaluate", l, t0, status, run, evidence)
      BY Zenon, <1>1, <3>2, <3>3, <3>4 DEF HandlerFact
    <3> QED
      BY <2>1, <2>5, <3>5, ReadLocal, Zenon DEF l
  <2>6. CASE Goto(h, "activate_read", loc[h])
    <3>1. JoinFact("activate_read", loc[h], t0, status)
      BY Zenon, <1>1, <2>1 DEF JoinFact
    <3>2. LabelFact("activate_read", loc[h], t0, status, run)
      BY Zenon, <2>1 DEF LabelFact, LockLabels, FireLabels
    <3>3. CloseFact("activate_read", t0, status)
          /\ EvidenceFact("activate_read", loc[h], t0, evidence)
      BY Zenon, <1>1, <2>1 DEF CloseFact, EvidenceFact, FireLabels
    <3>4. HandlerFact("activate_read", loc[h], t0, status, run, evidence)
      BY Zenon, <1>1, <3>1, <3>2, <3>3 DEF HandlerFact
    <3> QED
      BY <2>1, <2>6, <3>4, ReadLocal, Zenon
  <2>7. CASE loc[h].req = Len(Requires[d]) /\ count > 0 /\ NextDownstream(h, d)
    <3>1. loc[h].req <= Len(Requires[d])
      BY <2>1, <2>7
    <3>2. Settled(t0, status, d)
      BY Zenon, <2>4, <2>7, <3>1 DEF Settled
    <3> QED
      BY Zenon, <1>2, <2>1, <2>7, <3>2
  <2> QED
    BY <1>5, <2>5, <2>6, <2>7, Zenon DEF EvaluateRequire
<1>6. CASE ActivateRead(h)
  <2>1. /\ Read /\ pc[h] = "activate_read" /\ d \in Phases
        /\ Locked(t0) /\ run.status # Absent
        /\ Sees(t0, status, d) = View(h, d)
    BY Zenon, <1>1, <1>6 DEF ActivateRead, JoinFact, LabelFact, LockLabels, View, Sees
  <2>2. CASE View(h, d) \in {"pending", "waiting_gate"} /\ Goto(h, "activate_write", loc[h])
    <3>1. Sees(t0, status, d) = "pending"
      BY Zenon, <1>1, <2>1, <2>2 DEF RowFact, WriteFact, Sees
    <3>2. JoinFact("activate_write", loc[h], t0, status)
      BY Zenon, <1>1, <2>1 DEF JoinFact
    <3>3. LabelFact("activate_write", loc[h], t0, status, run)
      BY <2>1, <3>1, Zenon DEF LabelFact, LockLabels, FireLabels
    <3>4. CloseFact("activate_write", t0, status)
          /\ EvidenceFact("activate_write", loc[h], t0, evidence)
      BY Zenon, <1>1, <2>1 DEF CloseFact, EvidenceFact, FireLabels
    <3>5. HandlerFact("activate_write", loc[h], t0, status, run, evidence)
      BY Zenon, <1>1, <3>2, <3>3, <3>4 DEF HandlerFact
    <3> QED
      BY Zenon, <2>1, <2>2, <3>5, ReadLocal
  <2>3. CASE ~(/\ View(h, d) \in {"pending", "waiting_gate"}
               /\ is_valid_transition(View(h, d), TargetState(d)))
             /\ NextDownstream(h, d)
    <3>1. is_valid_transition("pending", TargetState(d))
      BY Zenon DEF is_valid_transition, TargetState, PHASE_TRANSITIONS, PhaseState
    <3>2. Settled(t0, status, d)
      BY <2>1, <2>3, <3>1, Zenon DEF Settled
    <3> QED
      BY Zenon, <1>2, <2>1, <2>3, <3>2
  <2> QED
    BY Zenon, <1>6, <2>2, <2>3 DEF ActivateRead
<1>7. CASE ActivateWrite(h)
  <2> DEFINE t == [t0 EXCEPT !.phase[d] = TargetState(d)]
  <2>1. /\ pc[h] = "activate_write" /\ FreePhase(h, d) /\ Exec(h, t) /\ NextDownstream(h, d)
    BY <1>7, Zenon DEF ActivateWrite, WritePhase
  <2>2. /\ d \in Phases /\ d \in Nat /\ Sees(t0, status, d) = "pending"
        /\ Locked(t0) /\ run.status # Absent
    BY <1>1, <2>1 DEF LabelFact, LockLabels, Phases
  <2>3. TargetState(d) \in {"waiting_user", "waiting_trigger"}
    BY Zenon DEF TargetState
  <2>4. /\ t \in TxType /\ t.run = t0.run /\ t.evidence = t0.evidence
        /\ t.phase[d] = TargetState(d)
        /\ \A q \in Phases : q # d => t.phase[q] = t0.phase[q]
    BY <1>1, <2>2, <2>3, PhaseWritten DEF PhaseState
  <2> HIDE DEF t
  <2>5. status[d] = "pending"
    BY Zenon, <1>1, <2>2 DEF WriteFact, Sees
  <2>6. /\ Sees(t, status, d) \in {"waiting_user", "waiting_trigger"}
        /\ \A q \in Phases : q # d => Sees(t, status, q) = Sees(t0, status, q)
    BY <2>3, <2>4, Zenon DEF Sees, Unwritten
  <2>7. WriteFact(t, status)
    BY Zenon, <1>1, <2>3, <2>4, <2>5 DEF WriteFact, Locked
  <2>8. CloseFact("commit", t, status)
    BY Zenon, <1>1, <2>2, <2>4, TerminalFacts DEF CloseFact, Locked
  <2>9. EvidenceFact("commit", loc[h], t, evidence)
    BY Zenon, <1>1, <2>1, <2>3, <2>4 DEF EvidenceFact, FireLabels
  <2>10. \A q \in Phases : t.phase[q] = "completed" => q = loc[h].arg
    BY Zenon, <1>1, <2>1, <2>3, <2>4 DEF JoinFact
  <2>11. ASSUME NEW p \in Phases, p \notin Downstream(loc[h].arg) \/ p <= d
         PROVE  Settled(t, status, p)
    <3>1. CASE p = d
      BY <2>6, <3>1, Zenon DEF Settled
    <3>2. CASE p # d
      <4>1. Settled(t0, status, p)
        BY Zenon, <1>1, <2>1, <2>2, <2>11, <3>2, PhaseNumbers DEF JoinFact
      <4> QED
        BY <2>6, <3>2, <4>1, RequiresArePhases, Zenon DEF Settled
    <3> QED
      BY <3>1, <3>2, Zenon
  <2>12. Locked(t)
    BY Zenon, <2>2, <2>4 DEF Locked
  <2>13. PICK label, l : Goto(h, label, l) /\ HandlerFact(label, l, t, status, run, evidence)
    BY Zenon, <1>1, <2>1, <2>2, <2>7, <2>8, <2>9, <2>10, <2>11, <2>12, NextDownstreamSettles
  <2>14. \A q \in Phases : t.phase[q] # Unwritten =>
             t0.phase[q] # Unwritten \/ FreePhase(h, q)
    BY Zenon, <2>1, <2>4
  <2> QED
    BY Zenon, <2>1, <2>2, <2>4, <2>13, <2>14, WriteLocal
<1>8. CASE CheckComplete(h)
  <2> DEFINE done == \A p \in Phases : View(h, p) \in TerminalStates
  <2>1. /\ Read /\ pc[h] = "check_complete" /\ Locked(t0) /\ run.status # Absent
        /\ \A p \in Phases : Sees(t0, status, p) = View(h, p)
    BY Zenon, <1>1, <1>8 DEF CheckComplete, LabelFact, LockLabels, View, Sees
  <2>2. PICK label \in {"complete_run", "commit"} :
            Goto(h, label, IdleLoc) /\ (label = "complete_run" => done)
    BY <1>8, Zenon DEF CheckComplete
  <2>3. JoinFact(label, IdleLoc, t0, status)
    BY Zenon, <1>1, <2>1, <2>2 DEF JoinFact
  <2>4. LabelFact(label, IdleLoc, t0, status, run)
    BY Zenon, <2>1, <2>2 DEF LabelFact, LockLabels, FireLabels
  <2>5. CloseFact(label, t0, status) /\ EvidenceFact(label, IdleLoc, t0, evidence)
    BY Zenon, <1>1, <2>1, <2>2 DEF CloseFact, EvidenceFact, FireLabels
  <2>6. HandlerFact(label, IdleLoc, t0, status, run, evidence)
    BY Zenon, <1>1, <2>3, <2>4, <2>5 DEF HandlerFact
  <2> QED
    BY Zenon, <2>1, <2>2, <2>6, ReadLocal
<1>9. CASE CompleteRun(h)
  <2> DEFINE r == [status |-> "completed", outcome |-> "approved"]
             t == [t0 EXCEPT !.run = r]
  <2>1. pc[h] = "complete_run" /\ FreeRun(h) /\ Exec(h, t) /\ Goto(h, "commit", IdleLoc)
    BY <1>9, Zenon DEF CompleteRun, WriteRun
  <2>2. r \in RunRow /\ r.status # Absent
    BY Zenon DEF RunRow, Absent
  <2>3. /\ t \in TxType /\ t.phase = t0.phase /\ t.evidence = t0.evidence
        /\ t.run = r /\ Locked(t)
    BY <1>1, <2>2, RunWritten, Zenon
  <2> HIDE DEF t, r
  <2>4. WriteFact(t, status)
    BY Zenon, <1>1, <2>2, <2>3 DEF WriteFact
  <2>5. LabelFact("commit", IdleLoc, t, status, run)
    BY Zenon, <1>1, <2>1, <2>3 DEF LabelFact, LockLabels, FireLabels
  <2>6. CloseFact("commit", t, status)
    BY Zenon, <1>1, <2>1, <2>3 DEF CloseFact, Sees
  <2>7. EvidenceFact("commit", IdleLoc, t, evidence)
    BY Zenon, <1>1, <2>1, <2>3 DEF EvidenceFact, FireLabels
  <2>8. JoinFact("commit", IdleLoc, t, status)
    <3>1. \A p \in Phases : Settled(t0, status, p)
      BY Zenon, <1>1, <2>1 DEF JoinFact
    <3>2. \A p : Sees(t, status, p) = Sees(t0, status, p)
      BY Zenon, <2>3 DEF Sees
    <3>3. \A p \in Phases : Settled(t, status, p)
      BY Zenon, <3>1, <3>2 DEF Settled
    <3> QED
      BY Zenon, <3>3 DEF JoinFact
  <2>9. HandlerFact("commit", IdleLoc, t, status, run, evidence)
    BY <2>4, <2>5, <2>6, <2>7, <2>8, Zenon DEF HandlerFact
  <2> QED
    BY Zenon, <2>1, <2>3, <2>9, WriteLocal
<1> QED
  BY <1>3, <1>4, <1>5, <1>6, <1>7, <1>8, <1>9, Zenon

\* A request that has completed nothing leaves every phase settled.
LEMMA AllSettled ==
    ASSUME NEW S, NEW R, NEW E, NEW t, RowFact(S, R, E), WriteFact(t, S),
           \A q \in Phases : t.phase[q] # "completed"
    PROVE  \A p \in Phases : Settled(t, S, p)
BY SettledWithout, Zenon

\* on_phase_failed, cancel_charter_run and complete_charter_run.
LEMMA CloseTInv ==
    ASSUME OneTransaction, IInv, TInv, NEW h \in Handlers,
           \/ MarkFailed(h) \/ FailRun(h) \/ SkipPhase(h) \/ SkipDone(h) \/ FinishRun(h)
    PROVE  TInv'
<1> DEFINE p == loc[h].arg
           t0 == tx[h]
<1>0. TypeOK
  BY Zenon DEF IInv
<1>1. /\ t0 \in TxType /\ loc[h] \in LocType
      /\ RowFact(status, run, evidence)
      /\ WriteFact(t0, status)
      /\ LabelFact(pc[h], loc[h], t0, status, run)
      /\ CloseFact(pc[h], t0, status)
      /\ EvidenceFact(pc[h], loc[h], t0, evidence)
      /\ JoinFact(pc[h], loc[h], t0, status)
  BY Zenon, <1>0, AtLabel
<1>2. pc[h] \in {"mark_failed", "fail_run", "skip_phase", "skip_done", "finish_run"}
  BY Zenon DEF MarkFailed, FailRun, SkipPhase, SkipDone, FinishRun
<1>3. \A q \in Phases : t0.phase[q] # "completed"
  BY <1>2, NoCompletion, Zenon DEF CascadeLabels, Completions
<1>4. run.status # Absent
  BY Zenon, <1>1, <1>2 DEF LabelFact
\* The statement writes a phase that is not pending any more, or skips one.
<1>5. ASSUME NEW q \in Phases, NEW s \in {"failed", "skipped"},
             s = "failed" => status[q] \notin {"pending", Absent},
             NEW t, t = [t0 EXCEPT !.phase[q] = s],
             NEW label \in {"fail_run", "skip_phase", "skip_done"}, NEW l,
             label = "skip_done" => l.outcome # "none"
      PROVE  /\ t \in TxType /\ t.run = t0.run
             /\ \A r \in Phases : r # q => t.phase[r] = t0.phase[r]
             /\ HandlerFact(label, l, t, status, run, evidence)
  <2>1. /\ t \in TxType /\ t.run = t0.run /\ t.evidence = t0.evidence
        /\ t.phase[q] = s
        /\ \A r \in Phases : r # q => t.phase[r] = t0.phase[r]
    BY <1>1, <1>5, PhaseWritten DEF PhaseState
  <2>2. WriteFact(t, status)
    BY <1>1, <1>5, <2>1, Zenon DEF WriteFact, Locked
  <2>3. LabelFact(label, l, t, status, run)
    BY <1>4, <1>5, Zenon DEF LabelFact, LockLabels, FireLabels
  <2>4. CloseFact(label, t, status)
    BY <1>1, <1>5, <2>1, TerminalFacts DEF CloseFact, Locked, Sees, Unwritten
  <2>5. EvidenceFact(label, l, t, evidence)
    BY <1>1, <1>2, <1>5, <2>1, Zenon DEF EvidenceFact, FireLabels
  <2>6. JoinFact(label, l, t, status)
    BY <1>5, Zenon DEF JoinFact
  <2> QED
    BY Zenon, <2>1, <2>2, <2>3, <2>4, <2>5, <2>6 DEF HandlerFact
\* The statement writes the run, as not completed by the cascade.
<1>6. ASSUME NEW r \in RunRow, r.status # Absent, OnlyCascadeCompletes => r.status # "completed",
             FreeRun(h), Exec(h, [t0 EXCEPT !.run = r]), Goto(h, "commit", IdleLoc)
      PROVE  TInv'
  <2> DEFINE t == [t0 EXCEPT !.run = r]
  <2>1. /\ t \in TxType /\ t.phase = t0.phase /\ t.evidence = t0.evidence
        /\ t.run = r /\ Locked(t)
    BY <1>1, RunWritten, Zenon
  <2>2. Exec(h, t)
    BY <1>6, Zenon
  <2> HIDE DEF t
  <2>3. WriteFact(t, status)
    BY <1>1, <1>6, <2>1, Zenon DEF WriteFact
  <2>4. LabelFact("commit", IdleLoc, t, status, run)
    BY <1>4, <2>1, Zenon DEF LabelFact, LockLabels, FireLabels
  <2>5. CloseFact("commit", t, status)
    BY <1>6, <2>1, Zenon DEF CloseFact
  <2>6. EvidenceFact("commit", IdleLoc, t, evidence)
    BY Zenon, <1>1, <1>2, <2>1 DEF EvidenceFact, FireLabels
  <2>7. JoinFact("commit", IdleLoc, t, status)
    BY Zenon, <1>1, <1>3, <2>1, <2>3, AllSettled DEF JoinFact
  <2>8. HandlerFact("commit", IdleLoc, t, status, run, evidence)
    BY <2>3, <2>4, <2>5, <2>6, <2>7, Zenon DEF HandlerFact
  <2> QED
    BY <1>0, <1>6, <2>1, <2>2, <2>8, WriteLocal, Zenon
<1>7. CASE MarkFailed(h)
  <2> DEFINE t == [t0 EXCEPT !.phase[p] = "failed"]
  <2>1. pc[h] = "mark_failed" /\ FreePhase(h, p) /\ Exec(h, t) /\ Goto(h, "fail_run", IdleLoc)
    BY <1>7, Zenon DEF MarkFailed, WritePhase
  <2>2. p \in Phases /\ status[p] \notin {"pending", Absent}
    BY <1>1, <2>1, Zenon DEF LabelFact
  <2>3. /\ t \in TxType /\ t.run = t0.run
        /\ \A q \in Phases : q # p => t.phase[q] = t0.phase[q]
        /\ HandlerFact("fail_run", IdleLoc, t, status, run, evidence)
    BY <1>5, <2>2, Zenon
  <2> HIDE DEF t
  <2> QED
    <3>1. \A q \in Phases : t.phase[q] # Unwritten =>
              tx[h].phase[q] # Unwritten \/ FreePhase(h, q)
      BY Zenon, <2>1, <2>3
    <3>2. Locked(t) => Locked(tx[h])
      BY Zenon, <2>3 DEF Locked
    <3> QED
      BY Zenon, <1>0, <2>1, <2>3, <3>1, <3>2, WriteLocal
<1>8. CASE FailRun(h)
  <2> DEFINE r == [status |-> "failed", outcome |-> "failed"]
  <2>1. FreeRun(h) /\ Exec(h, [t0 EXCEPT !.run = r]) /\ Goto(h, "commit", IdleLoc)
    BY <1>8, Zenon DEF FailRun, WriteRun
  <2>2. r \in RunRow /\ r.status # Absent /\ r.status # "completed"
    BY Zenon DEF RunRow, Absent
  <2> HIDE DEF r
  <2> QED
    BY <1>6, <2>1, <2>2, Zenon
<1>9. CASE FinishRun(h)
  <2> DEFINE o == loc[h].outcome
             r == [status |-> StatusOfOutcome(o), outcome |-> o]
  <2>1. /\ pc[h] = "finish_run" /\ FreeRun(h) /\ Exec(h, [t0 EXCEPT !.run = r])
        /\ Goto(h, "commit", IdleLoc)
    BY <1>9, Zenon DEF FinishRun, WriteRun
  <2>2. o \in Outcomes \cup {"cancelled"}
    BY <1>1, <2>1, Zenon DEF LocType, LabelFact
  <2>3. r \in RunRow /\ r.status # Absent
    BY Zenon, <2>2, CallerAssumption DEF RunRow, StatusOfOutcome, Absent
  <2>4. OnlyCascadeCompletes => r.status # "completed"
    BY Zenon, <2>2 DEF OnlyCascadeCompletes, StatusOfOutcome
  <2> QED
    BY <1>6, <2>1, <2>3, <2>4, Zenon
<1>10. CASE SkipPhase(h)
  <2>1. /\ pc[h] = "skip_phase" /\ FreePhase(h, p) /\ NextRow(h, loc[h].todo)
        /\ UNCHANGED <<status, run, evidence>>
        /\ \/ tx' = tx
           \/ tx' = [tx EXCEPT ![h].phase[p] = "skipped"]
    BY <1>10, Zenon DEF SkipPhase
  <2>2. p \in Phases
    BY <2>1, Zenon DEF IInv, HandlerInv, LocFact
  <2>3. PICK label, l :
            /\ label \in {"skip_phase", "skip_done"}
            /\ Goto(h, label, l) /\ (label = "skip_done" => l.outcome # "none")
    BY <2>1, NextRowLabel, Zenon
  <2>4. CASE tx' = tx
    <3>1. HandlerFact(label, l, t0, status, run, evidence)
      <4>1. LabelFact(label, l, t0, status, run)
        BY <1>4, <2>3, Zenon DEF LabelFact, LockLabels, FireLabels
      <4>2. CloseFact(label, t0, status) /\ EvidenceFact(label, l, t0, evidence)
        BY Zenon, <1>1, <2>1, <2>3 DEF CloseFact, EvidenceFact, FireLabels
      <4>3. JoinFact(label, l, t0, status)
        BY <2>3, Zenon DEF JoinFact
      <4> QED
        BY Zenon, <1>1, <4>1, <4>2, <4>3 DEF HandlerFact
    <3>2. tx' = [tx EXCEPT ![h] = t0]
      BY <1>0, <2>4, Zenon DEF TypeOK
    <3> QED
      BY Zenon, <1>0, <1>1, <2>1, <2>3, <3>1, <3>2, LocalStep DEF Goto
  <2>5. CASE tx' = [tx EXCEPT ![h].phase[p] = "skipped"]
    <3> DEFINE t == [t0 EXCEPT !.phase[p] = "skipped"]
    <3>1. tx' = [tx EXCEPT ![h] = t]
      BY <2>5, Zenon
    <3>2. /\ t \in TxType /\ t.run = t0.run
          /\ \A q \in Phases : q # p => t.phase[q] = t0.phase[q]
          /\ HandlerFact(label, l, t, status, run, evidence)
      BY ZenonT(40), <1>5, <2>2, <2>3
    <3> HIDE DEF t
    <3>3. \A q \in Phases : t.phase[q] # Unwritten =>
              tx[h].phase[q] # Unwritten \/ FreePhase(h, q)
      BY <2>1, <3>2, Zenon
    <3>4. Locked(t) => Locked(tx[h])
      BY <3>2, Zenon DEF Locked
    <3>5. /\ UNCHANGED <<status, run, evidence>>
          /\ pc' = [pc EXCEPT ![h] = label] /\ loc' = [loc EXCEPT ![h] = l]
      BY <2>1, <2>3, Zenon DEF Goto
    <3> QED
      BY Zenon, <1>0, <3>1, <3>2, <3>3, <3>4, <3>5, LocalStep
  <2> QED
    BY <2>1, <2>4, <2>5, Zenon
<1>11. CASE SkipDone(h)
  <2>1. pc[h] = "skip_done" /\ Exec(h, t0) /\ Goto(h, "finish_run", loc[h])
    BY <1>11, Zenon DEF SkipDone
  <2>2. LabelFact("finish_run", loc[h], t0, status, run)
    BY Zenon, <1>1, <1>4, <2>1 DEF LabelFact, LockLabels, FireLabels
  <2>3. /\ CloseFact("finish_run", t0, status) /\ EvidenceFact("finish_run", loc[h], t0, evidence)
        /\ JoinFact("finish_run", loc[h], t0, status)
    BY Zenon, <1>1, <2>1 DEF CloseFact, EvidenceFact, JoinFact, FireLabels
  <2>4. HandlerFact("finish_run", loc[h], t0, status, run, evidence)
    BY Zenon, <1>1, <2>2, <2>3 DEF HandlerFact
  <2> QED
    BY Zenon, <1>0, <1>1, <2>1, <2>4, WriteLocal
<1> QED
  BY <1>7, <1>8, <1>9, <1>10, <1>11, Zenon

\* fire_trigger goes on with one of the rows it has left, or ends.
LEMMA NextMatchLabel ==
    ASSUME NEW h \in Handlers, loc[h] \in LocType, NextMatch(h, loc[h].todo)
    PROVE  \E label, l :
              /\ label \in {"trigger_update", "commit"}
              /\ Goto(h, label, l)
              /\ label = "trigger_update" =>
                    l.trig = loc[h].trig /\ l.todo \cup {l.arg} \subseteq loc[h].todo
<1>1. CASE loc[h].todo = {} /\ Goto(h, "commit", IdleLoc)
  BY <1>1
<1>2. ASSUME NEW p \in loc[h].todo,
             Goto(h, "trigger_update", [loc[h] EXCEPT !.arg = p, !.todo = loc[h].todo \ {p}])
      PROVE  \E label, l :
                /\ label \in {"trigger_update", "commit"}
                /\ Goto(h, label, l)
                /\ label = "trigger_update" =>
                      l.trig = loc[h].trig /\ l.todo \cup {l.arg} \subseteq loc[h].todo
  <2> DEFINE m == [loc[h] EXCEPT !.arg = p, !.todo = loc[h].todo \ {p}]
  <2>1. m.trig = loc[h].trig /\ m.todo = loc[h].todo \ {p} /\ m.arg = p
    BY Zenon DEF LocType
  <2>2. Goto(h, "trigger_update", m)
    BY <1>2, Zenon
  <2> HIDE DEF m
  <2> QED
    BY <1>2, <2>1, <2>2
<1> QED
  BY Zenon, <1>1, <1>2 DEF NextMatch

\* fire_trigger
LEMMA FireTInv ==
    ASSUME OneTransaction, IInv, TInv, NEW h \in Handlers,
           TriggerUpdate(h) \/ TriggerEvidence(h)
    PROVE  TInv'
<1> DEFINE p == loc[h].arg
           t0 == tx[h]
<1>0. TypeOK
  BY Zenon DEF IInv
<1>1. /\ t0 \in TxType /\ loc[h] \in LocType
      /\ WriteFact(t0, status)
      /\ LabelFact(pc[h], loc[h], t0, status, run)
      /\ EvidenceFact(pc[h], loc[h], t0, evidence)
  BY Zenon, <1>0, AtLabel
<1>2. /\ pc[h] \in FireLabels /\ run.status # Absent /\ ~Locked(t0)
      /\ \A q \in Phases : t0.phase[q] \in {Unwritten, "in_progress"}
  BY <1>1, Zenon DEF TriggerUpdate, TriggerEvidence, FireLabels, LabelFact
<1>3. p \in Phases /\ loc[h].trig \in Triggers
  BY Zenon, <1>2 DEF IInv, HandlerInv, LocFact, FireLabels
\* What has to be shown of the writes t at the next label.
<1>4. ASSUME NEW label \in {"trigger_update", "trigger_evidence", "commit"}, NEW l, NEW t,
             ~Locked(t), \A q \in Phases : t.phase[q] \in {Unwritten, "in_progress"},
             \A q \in Phases : t.phase[q] = "in_progress" => status[q] = "waiting_trigger",
             label \in FireLabels => \A q \in l.todo \cup {l.arg} : l.trig \in Awaits[q],
             \A q \in Phases : MustAwait(q) /\ t.phase[q] = "in_progress" =>
                 \/ OnRecord(q, evidence \cup t.evidence)
                 \/ label = "trigger_evidence" /\ l.arg = q
      PROVE  HandlerFact(label, l, t, status, run, evidence)
  <2>1. WriteFact(t, status)
    BY <1>4, Zenon DEF WriteFact, Unwritten
  <2>2. LabelFact(label, l, t, status, run)
    BY <1>2, <1>4, Zenon DEF LabelFact, LockLabels
  <2>3. CloseFact(label, t, status)
    BY <1>4, Zenon DEF CloseFact
  <2>4. EvidenceFact(label, l, t, evidence)
    BY <1>4, Zenon DEF EvidenceFact, Unwritten
  <2>5. JoinFact(label, l, t, status)
    BY <1>4, Zenon DEF JoinFact
  <2> QED
    BY <2>1, <2>2, <2>3, <2>4, <2>5, Zenon DEF HandlerFact
<1>5. ASSUME TriggerUpdate(h), View(h, p) = "waiting_trigger",
             WritePhase(h, p, "in_progress"), Goto(h, "trigger_evidence", loc[h])
      PROVE  TInv'
  <2> DEFINE t == [t0 EXCEPT !.phase[p] = "in_progress"]
  <2>1. /\ t \in TxType /\ t.run = t0.run /\ t.evidence = t0.evidence
        /\ t.phase[p] = "in_progress"
        /\ \A q \in Phases : q # p => t.phase[q] = t0.phase[q]
    BY <1>1, <1>3, PhaseWritten DEF PhaseState
  <2>2. Exec(h, t) /\ FreePhase(h, p) /\ pc[h] = "trigger_update"
    BY <1>5, Zenon DEF WritePhase, TriggerUpdate
  <2>3. status[p] = "waiting_trigger"
    BY Zenon, <1>2, <1>3, <1>5 DEF View
  <2> HIDE DEF t
  <2>4. ~Locked(t)
    BY <1>2, <2>1, Zenon DEF Locked
  <2>5. \A q \in Phases : t.phase[q] \in {Unwritten, "in_progress"}
    BY <1>2, <2>1, Zenon
  <2>6. \A q \in Phases : t.phase[q] = "in_progress" => status[q] = "waiting_trigger"
    BY Zenon, <1>1, <2>1, <2>3 DEF WriteFact
  <2>7. \A q \in loc[h].todo \cup {loc[h].arg} : loc[h].trig \in Awaits[q]
    BY Zenon, <1>1, <1>2 DEF EvidenceFact
  <2>8. \A q \in Phases : MustAwait(q) /\ t.phase[q] = "in_progress" =>
            \/ OnRecord(q, evidence \cup t.evidence)
            \/ "trigger_evidence" = "trigger_evidence" /\ loc[h].arg = q
    BY Zenon, <1>1, <2>1, <2>2 DEF EvidenceFact
  <2>9. HandlerFact("trigger_evidence", loc[h], t, status, run, evidence)
    BY Zenon, <1>4, <2>4, <2>5, <2>6, <2>7, <2>8
  <2>10. \A q \in Phases : t.phase[q] # Unwritten =>
             tx[h].phase[q] # Unwritten \/ FreePhase(h, q)
    BY <2>1, <2>2, Zenon
  <2> QED
    BY Zenon, <1>0, <1>5, <2>1, <2>2, <2>4, <2>9, <2>10, WriteLocal
<1>6. ASSUME pc[h] = "trigger_update", NextMatch(h, loc[h].todo), Read
      PROVE  TInv'
  <2>1. PICK label, l :
            /\ label \in {"trigger_update", "commit"}
            /\ Goto(h, label, l)
            /\ label = "trigger_update" =>
                  l.trig = loc[h].trig /\ l.todo \cup {l.arg} \subseteq loc[h].todo
    BY Zenon, <1>1, <1>6, NextMatchLabel
  <2>2. label \in FireLabels => \A q \in l.todo \cup {l.arg} : l.trig \in Awaits[q]
    BY Zenon, <1>1, <1>2, <2>1 DEF EvidenceFact, FireLabels
  <2>3. \A q \in Phases : t0.phase[q] = "in_progress" => status[q] = "waiting_trigger"
    BY Zenon, <1>1 DEF WriteFact
  <2>4. \A q \in Phases : MustAwait(q) /\ t0.phase[q] = "in_progress" =>
            OnRecord(q, evidence \cup t0.evidence)
    BY Zenon, <1>1, <1>6 DEF EvidenceFact
  <2>5. HandlerFact(label, l, t0, status, run, evidence)
    BY Zenon, <1>2, <1>4, <2>1, <2>2, <2>3, <2>4
  <2> QED
    BY <1>0, <1>6, <2>1, <2>5, ReadLocal, Zenon
<1>7. CASE TriggerEvidence(h)
  <2> DEFINE t == [t0 EXCEPT !.evidence = @ \cup {<<p, loc[h].trig>>}]
  <2>1. /\ t \in TxType /\ t.run = t0.run /\ t.phase = t0.phase
        /\ t.evidence = t0.evidence \cup {<<p, loc[h].trig>>}
    BY <1>1, <1>3 DEF TxType
  <2>2. Exec(h, t) /\ pc[h] = "trigger_evidence" /\ NextMatch(h, loc[h].todo)
    BY <1>7, Zenon DEF TriggerEvidence
  <2> HIDE DEF t
  <2>3. PICK label, l :
            /\ label \in {"trigger_update", "commit"}
            /\ Goto(h, label, l)
            /\ label = "trigger_update" =>
                  l.trig = loc[h].trig /\ l.todo \cup {l.arg} \subseteq loc[h].todo
    BY Zenon, <1>1, <2>2, NextMatchLabel
  <2>4. label \in FireLabels => \A q \in l.todo \cup {l.arg} : l.trig \in Awaits[q]
    BY Zenon, <1>1, <1>2, <2>3 DEF EvidenceFact, FireLabels
  <2>5. /\ ~Locked(t)
        /\ \A q \in Phases : t.phase[q] \in {Unwritten, "in_progress"}
        /\ \A q \in Phases : t.phase[q] = "in_progress" => status[q] = "waiting_trigger"
    BY Zenon, <1>1, <1>2, <2>1 DEF WriteFact, Locked
  <2>6. OnRecord(p, evidence \cup t.evidence)
    BY Zenon, <1>1, <1>2, <2>1 DEF EvidenceFact, OnRecord
  <2>7. \A q : OnRecord(q, evidence \cup t0.evidence) => OnRecord(q, evidence \cup t.evidence)
    BY <2>1, Zenon DEF OnRecord
  <2>8. \A q \in Phases : MustAwait(q) /\ t.phase[q] = "in_progress" =>
            OnRecord(q, evidence \cup t.evidence)
    BY Zenon, <1>1, <2>1, <2>6, <2>7 DEF EvidenceFact
  <2>9. HandlerFact(label, l, t, status, run, evidence)
    BY <1>4, <2>3, <2>4, <2>5, <2>8, Zenon
  <2> QED
    BY Zenon, <1>0, <2>1, <2>2, <2>3, <2>5, <2>9, WriteLocal
<1> QED
  BY <1>5, <1>6, <1>7, Zenon DEF TriggerUpdate

-----------------------------------------------------------------------------
(* The theorems.                                                            *)

LEMMA StepTInv ==
    ASSUME OneTransaction, IInv, TypeOK', TInv, NEW h \in Handlers,
           Begin(h) \/ Step(h) \/ Crash(h)
    PROVE  TInv'
<1>0. TypeOK
  BY Zenon DEF IInv
<1>1. CASE Begin(h)
  BY <1>0, <1>1, BeginTInv, Zenon
<1>2. CASE \/ MarkCompleted(h) \/ SetCurrentPhase(h) \/ EvaluateRequire(h)
           \/ ActivateRead(h) \/ ActivateWrite(h) \/ CheckComplete(h) \/ CompleteRun(h)
  BY <1>0, <1>2, CascadeTInv, Zenon
<1>3. CASE \/ MarkFailed(h) \/ FailRun(h) \/ SkipPhase(h) \/ SkipDone(h) \/ FinishRun(h)
  BY <1>3, CloseTInv, Zenon
<1>4. CASE TriggerUpdate(h) \/ TriggerEvidence(h)
  BY <1>4, FireTInv, Zenon
<1>5. CASE Commit(h)
  BY <1>0, <1>5, CommitTInv, Zenon
<1>6. CASE DeadlockVictim(h) \/ Crash(h)
  BY <1>0, <1>6, RollbackTInv, Zenon DEF DeadlockVictim, Crash
<1> QED
  BY <1>1, <1>2, <1>3, <1>4, <1>5, <1>6, Zenon DEF Step

LEMMA NextTInv ==
    ASSUME OneTransaction, IInv, TypeOK', TInv, [Next]_vars
    PROVE  TInv'
<1>0. TypeOK
  BY Zenon DEF IInv
<1>1. CASE start_workflow
  BY <1>0, <1>1, StartTInv, Zenon
<1>2. ASSUME NEW p \in Phases, claim_phase(p) PROVE TInv'
  BY <1>0, <1>2, ClaimTInv, Zenon
<1>3. ASSUME NEW h \in Handlers, Begin(h) \/ Step(h) \/ Crash(h) PROVE TInv'
  BY <1>3, StepTInv, Zenon
<1>4. CASE UNCHANGED vars
  <2>1. /\ status' = status /\ run' = run /\ evidence' = evidence
        /\ tx' = tx /\ pc' = pc /\ loc' = loc
    BY <1>4, Zenon DEF vars
  <2> QED
    BY <2>1, Zenon DEF TInv, Locks
<1> QED
  BY <1>1, <1>2, <1>3, <1>4, Zenon DEF Next

LEMMA TransactionInvariant == ASSUME OneTransaction PROVE Spec => []TInv
<1>1. IInv /\ IInv' /\ TInv /\ [Next]_vars => TInv'
  BY NextTInv, Zenon DEF IInv
<1> QED
  BY <1>1, InitTInv, InductiveInvariant, PTL DEF Spec

\* With one transaction per call, a completed, failed or skipped phase is never brought back
\* to an inbox by a cascade that decided to activate it earlier: activate_phase writes over
\* PENDING rows only, and the rows it read stay PENDING while the cascade holds the row of
\* the run.
THEOREM NeverReopenedHolds == ASSUME Transactional PROVE Spec => NeverReopened
<1> DEFINE Kept == \A p \in Phases : status[p] \in TerminalStates => status'[p] \in TerminalStates
<1>1. ASSUME IInv, TInv, [Next]_vars PROVE Kept
  <2>0. TypeOK
    BY <1>1, Zenon DEF IInv
  <2>1. CASE start_workflow
    BY <1>1, <2>1, TerminalFacts, Zenon DEF start_workflow, TInv, RowFact, Absent
  <2>2. ASSUME NEW p \in Phases, claim_phase(p) PROVE Kept
    BY <2>0, <2>2, TerminalFacts, Zenon DEF claim_phase, TypeOK
  <2>3. ASSUME NEW h \in Handlers, Begin(h) \/ Step(h) \/ Crash(h) PROVE Kept
    <3>1. CASE Commit(h)
      BY <1>1, <2>0, <3>1, CommitChanges, Zenon
    <3>2. CASE Begin(h)
      BY Zenon, <3>2 DEF Begin, BeginComplete, BeginFail, BeginFire, BeginCancel, BeginFinish, Read
    <3>3. CASE Crash(h) \/ DeadlockVictim(h)
      BY <3>3, Zenon DEF Crash, DeadlockVictim, Rollback
    <3>4. CASE EvaluateRequire(h) \/ ActivateRead(h) \/ CheckComplete(h)
      BY <3>4, Zenon DEF EvaluateRequire, ActivateRead, CheckComplete, Read
    <3>5. CASE SkipPhase(h)
      BY <3>5, Zenon DEF SkipPhase
    <3>6. CASE TriggerUpdate(h)
      BY <3>6, Zenon DEF TriggerUpdate, WritePhase, Exec, Read
    <3>7. CASE \/ MarkCompleted(h) \/ SetCurrentPhase(h) \/ ActivateWrite(h) \/ CompleteRun(h)
               \/ MarkFailed(h) \/ FailRun(h) \/ TriggerEvidence(h) \/ SkipDone(h) \/ FinishRun(h)
      BY <3>7, Zenon DEF MarkCompleted, SetCurrentPhase, ActivateWrite, CompleteRun, MarkFailed, FailRun,
         TriggerEvidence, SkipDone, FinishRun, WritePhase, WriteRun, TouchRun, Exec
    <3> QED
      BY Zenon, <2>3, <3>1, <3>2, <3>3, <3>4, <3>5, <3>6, <3>7 DEF Step
  <2>4. CASE UNCHANGED vars
    BY <2>4, Zenon DEF vars
  <2> QED
    BY <1>1, <2>1, <2>2, <2>3, <2>4, Zenon DEF Next
<1>2. IInv /\ TInv /\ [Next]_vars => [Kept]_vars
  BY <1>1, Zenon
<1> QED
  BY <1>2, InductiveInvariant, TransactionInvariant, PTL DEF Spec, NeverReopened, OneTransaction

\* With one transaction per call, a phase that awaits a trigger goes on only when fire_trigger
\* has recorded one of its triggers: the UPDATE of the phase and the INSERT of the evidence
\* are committed together or not at all.
THEOREM TriggerLeavesEvidenceHolds == ASSUME Transactional PROVE Spec => []TriggerLeavesEvidence
<1>1. TInv => TriggerLeavesEvidence
  BY Zenon DEF TInv, RowFact, TriggerLeavesEvidence, MustAwait, OnRecord
<1> QED
  BY <1>1, TransactionInvariant, PTL DEF OneTransaction

\* With one transaction per call, and complete_charter_run called for cancelled and failed
\* runs only, the rows agree: a run that is_workflow_complete closed has no open phase, since
\* the row of the run was locked before the statuses were read, and an awaiting phase that
\* went on has its trigger on record.
THEOREM RowsConsistentHolds ==
    ASSUME Transactional, Outcomes \subseteq {"cancelled", "failed"}
    PROVE  Spec => []RowsConsistent
<1>1. TInv => RowsConsistent
  BY Zenon DEF TInv, RowFact, RowsConsistent, ClosedRunHasNoOpenPhase, TriggerLeavesEvidence, MustAwait,
         OnRecord, OnlyCascadeCompletes
<1> QED
  BY <1>1, TransactionInvariant, PTL DEF OneTransaction

\* With one transaction per call no join is missed, whichever requests overlap or die: a phase
\* that only waits for other phases is PENDING only while one of them is not completed.  The
\* cascades of a run take turns at its row, so the later one sees what the earlier completed.
THEOREM NoLostActivationHolds == ASSUME Transactional PROVE Spec => []NoLostActivation
<1>1. TInv => NoLostActivation
  BY Zenon DEF TInv, RowFact, NoLostActivation, Simple
<1> QED
  BY <1>1, TransactionInvariant, PTL DEF OneTransaction

\* With one transaction per call a phase is activated exactly when its requires are met.
THEOREM JoinsExactHolds == ASSUME Transactional PROVE Spec => []JoinsExact
BY RequiresFirstHolds, NoLostActivationHolds, PTL DEF JoinsExact

=============================================================================
