---------------------------- MODULE RuntimeChecks ----------------------------
(* What the charter runtime reads around a phase: the inboxes that show who has to
   act (canon runtime/inbox.py), the role that governs a phase and the sessions
   that satisfy it (runtime/roles.py), and the conditions of when-blocks and
   situations (runtime/conditions.py).

   Ages count half days.  A None and a text that is no number are the two values a
   number is not compared with.                                                *)
EXTENDS Integers, Sequences, FiniteSets

CONSTANTS
    Users, UserRole, PhaseIds,
    OVERDUE_DAYS, PRIORITY_DAYS, \* 5 and 3 in the code
    MaxHalfDays, Sessions, MaxSituations, Bounds

NobodyU == "nobody"

ASSUME RuntimeAssumption ==
    /\ NobodyU \notin Users /\ Bounds \subseteq Int
    /\ OVERDUE_DAYS \in Nat /\ PRIORITY_DAYS \in Nat /\ PRIORITY_DAYS <= OVERDUE_DAYS

VARIABLES
    phaseRows,  \* phase executions: status, assignee role and id, run status, age
    sessionRows, \* sessions: user, mfa, method, revoked
    situations  \* the situations of a charter

inboxVars == <<phaseRows>>
roleVars == <<sessionRows>>
situationVars == <<situations>>

InboxInit == phaseRows = <<>>
RoleInit == sessionRows = <<>>
SituationInit == situations = <<>>

-----------------------------------------------------------------------------
(* Inboxes *)

Roles == {UserRole[u] : u \in Users}

\* A run starts a phase, for anyone with a role or for one user.
PhaseWaits(p, role, assignee) ==
    /\ p \notin DOMAIN phaseRows
    /\ phaseRows' = [q \in DOMAIN phaseRows \cup {p} |-> IF q = p
            THEN [status |-> "waiting_user", role |-> role, assignee |-> assignee, run |-> "active", age |-> 0]
            ELSE phaseRows[q]]

SetPhase(p, row) == p \in DOMAIN phaseRows /\ phaseRows' = [phaseRows EXCEPT ![p] = row]

ClaimPhase(p, u) ==
    /\ p \in DOMAIN phaseRows /\ phaseRows[p].status = "waiting_user" /\ phaseRows[p].assignee = NobodyU
    /\ SetPhase(p, [phaseRows[p] EXCEPT !.assignee = u])

Waiting(p) == phaseRows[p].status = "waiting_user" /\ phaseRows[p].run = "active"

LeavePhase(p) ==
    /\ p \in DOMAIN phaseRows /\ Waiting(p)
    /\ \E row \in {[phaseRows[p] EXCEPT !.status = "completed"], [phaseRows[p] EXCEPT !.run = "terminated"]} :
        SetPhase(p, row)

\* Of a phase that no longer waits the age is not looked at.
Ageing(p) == Waiting(p) /\ phaseRows[p].age < MaxHalfDays

InboxTick ==
    /\ \E p \in DOMAIN phaseRows : Ageing(p)
    /\ phaseRows' = [p \in DOMAIN phaseRows |-> [phaseRows[p] EXCEPT !.age = IF Ageing(p) THEN @ + 1 ELSE @]]

InboxNext ==
    \/ InboxTick
    \/ \E p \in PhaseIds, r \in Roles, a \in Users \cup {NobodyU} : PhaseWaits(p, r, a)
    \/ \E p \in PhaseIds, u \in Users : ClaimPhase(p, u)
    \/ \E p \in PhaseIds : LeavePhase(p)

ForUser(p, u) == phaseRows[p].assignee = u \/ phaseRows[p].role = UserRole[u]

get_user_inbox(u, claimedByOthers) ==
    {p \in DOMAIN phaseRows : Waiting(p) /\ ForUser(p, u)
        /\ (claimedByOthers \/ phaseRows[p].assignee \in {NobodyU, u})}

get_inbox_count(u) ==
    Cardinality({p \in DOMAIN phaseRows : Waiting(p) /\ ForUser(p, u) /\ phaseRows[p].assignee \in {NobodyU, u}})

get_inbox_by_role(r) == {p \in DOMAIN phaseRows : Waiting(p) /\ phaseRows[p].role = r}

\* Whole days, rounded down, in the item; the overdue query compares the instants.
waiting_days(p) == phaseRows[p].age \div 2
is_overdue(p) == waiting_days(p) >= OVERDUE_DAYS
is_priority(p) == waiting_days(p) >= PRIORITY_DAYS

get_overdue_phases == {p \in DOMAIN phaseRows : Waiting(p) /\ phaseRows[p].age > 2 * OVERDUE_DAYS}

-----------------------------------------------------------------------------
(* Roles.  A phase is its actions, a role its actions and what it requires.     *)

SessionRow == [user : Users, mfa : BOOLEAN, method : {"password", "break_glass"}, revoked : {FALSE}]

OpenSession(s, row) ==
    /\ s \notin DOMAIN sessionRows
    /\ sessionRows' = [t \in DOMAIN sessionRows \cup {s} |-> IF t = s THEN row ELSE sessionRows[t]]

RevokeSession(s) ==
    /\ s \in DOMAIN sessionRows /\ ~sessionRows[s].revoked
    /\ sessionRows' = [sessionRows EXCEPT ![s].revoked = TRUE]

RoleNext ==
    \/ \E s \in Sessions, row \in SessionRow : OpenSession(s, row)
    \/ \E s \in Sessions : RevokeSession(s)

find_role_for_phase(actions, roles) ==
    LET governing == {i \in 1..Len(roles) : roles[i].actions \cap actions # {}}
    IN  IF governing = {} THEN [actions |-> {}, mfa |-> FALSE, break_glass |-> FALSE]
        ELSE roles[CHOOSE i \in governing : \A j \in governing : i <= j]

_check_mfa_verified(u) == \E s \in DOMAIN sessionRows :
    sessionRows[s].user = u /\ sessionRows[s].mfa /\ ~sessionRows[s].revoked

_check_break_glass_active(u) == \E s \in DOMAIN sessionRows :
    sessionRows[s].user = u /\ sessionRows[s].method = "break_glass" /\ ~sessionRows[s].revoked

\* verify_role_requirements and enforce_role_requirements: "allowed" or the error.
enforce_role_requirements_Either(u, role) ==
    IF role.mfa /\ ~_check_mfa_verified(u) /\ ~_check_break_glass_active(u) THEN "mfa"
    ELSE IF role.break_glass /\ ~_check_break_glass_active(u) THEN "break_glass"
    ELSE "allowed"

enforce_role_requirements(u, role) ==
    IF role.mfa /\ ~_check_mfa_verified(u) THEN "mfa"
    ELSE IF role.break_glass /\ ~_check_break_glass_active(u) THEN "break_glass"
    ELSE "allowed"

-----------------------------------------------------------------------------
(* Conditions *)

\* evaluate_predicate after _coerce_for_comparison: a missing field matches
\* nothing, and what cannot be compared only differs.
evaluate_predicate(op, bound, actual) ==
    CASE actual.kind = "missing" -> FALSE
      [] actual.kind \in {"none", "text"} -> op = "!="
      [] OTHER -> op \in (CASE actual.n = bound -> {"==", ">=", "<="}
                            [] actual.n < bound -> {"!=", "<", "<="}
                            [] actual.n > bound -> {"!=", ">", ">="})

\* evaluate_when_block(s): the blocks that apply.
evaluate_when_blocks(blocks, actual) ==
    {i \in 1..Len(blocks) : evaluate_predicate(blocks[i].op, blocks[i].bound, actual)}

\* evaluate_situations: which match (and so add their requires), and the longest of their
\* waiting periods by its number, whatever its unit; 0 where none has one.
Override(list, matched) ==
    LET waits == {i \in matched : list[i].wait > 0} IN
    IF waits = {} THEN 0
    ELSE CHOOSE i \in waits : /\ \A j \in waits : list[j].wait <= list[i].wait
                              /\ \A j \in waits : list[j].wait = list[i].wait => i <= j

evaluate_situations(list, actual) ==
    LET matched == evaluate_when_blocks(list, actual)
        best == Override(list, matched)
    IN  [requires |-> matched, wait |-> IF best = 0 THEN 0 ELSE list[best].wait]

AddSituation(op, bound, wait) ==
    /\ Len(situations) < MaxSituations
    /\ situations' = Append(situations, [op |-> op, bound |-> bound, wait |-> wait])

SituationNext ==
    \E op \in {"==", "!=", ">", "<", ">=", "<="}, b \in Bounds, w \in 0..2 : AddSituation(op, b, w)

runtimeCheckVars == <<inboxVars, roleVars, situationVars>>

RuntimeChecksSpec ==
    /\ InboxInit /\ RoleInit /\ SituationInit
    /\ [][\/ InboxNext /\ UNCHANGED <<roleVars, situationVars>>
          \/ RoleNext /\ UNCHANGED <<inboxVars, situationVars>>
          \/ SituationNext /\ UNCHANGED <<inboxVars, roleVars>>]_runtimeCheckVars

-----------------------------------------------------------------------------
(* The badge counts what the inbox lists; a claimed phase is in its claimant's
   inbox only, an unclaimed one in the inbox of everyone with its role; and the
   items an inbox marks overdue are those of the overdue list - save a phase that
   has waited exactly five days, which only the inbox marks.                   *)
InboxesAgree ==
    /\ \A u \in Users :
        /\ get_inbox_count(u) = Cardinality(get_user_inbox(u, FALSE))
        /\ get_user_inbox(u, FALSE) \subseteq get_user_inbox(u, TRUE)
        /\ get_user_inbox(u, TRUE) \ get_user_inbox(u, FALSE) \subseteq get_inbox_by_role(UserRole[u])
    /\ \A p \in DOMAIN phaseRows : Waiting(p) =>
        /\ {u \in Users : p \in get_user_inbox(u, FALSE)}
            = (IF phaseRows[p].assignee = NobodyU THEN {u \in Users : UserRole[u] = phaseRows[p].role}
               ELSE {phaseRows[p].assignee})
        /\ p \in get_overdue_phases => is_overdue(p)
        /\ is_overdue(p) => is_priority(p) /\ (p \in get_overdue_phases \/ phaseRows[p].age = 2 * OVERDUE_DAYS)

RoleDefinitions == [actions : {{"sign"}, {"sign", "view"}}, mfa : BOOLEAN, break_glass : BOOLEAN]

(* A role that requires more never lets in who one that requires less keeps out,
   and who is let in to a role holds one unrevoked session for each requirement:
   a break-glass session is no proof of MFA.                                   *)
RequirementsNarrow ==
    \A u \in Users : \A a, b \in RoleDefinitions :
        LET own == {s \in DOMAIN sessionRows : sessionRows[s].user = u /\ ~sessionRows[s].revoked} IN
        /\ (a.mfa => b.mfa) /\ (a.break_glass => b.break_glass) /\ enforce_role_requirements(u, b) = "allowed"
            => enforce_role_requirements(u, a) = "allowed"
        /\ enforce_role_requirements(u, find_role_for_phase({"view"}, <<a, b>>)) = "allowed"
            => \/ "view" \notin a.actions \cup b.actions
               \/ LET governing == IF "view" \in a.actions THEN a ELSE b IN
                  /\ governing.mfa => \E s \in own : sessionRows[s].mfa
                  /\ governing.break_glass => \E s \in own : sessionRows[s].method = "break_glass"

Answers ==
    {[kind |-> k, n |-> 0] : k \in {"missing", "none", "text"}}
    \cup {[kind |-> "number", n |-> b + d] : b \in Bounds, d \in {-1, 0, 1}}

\* The charter without one of its situations.
SituationsWithout(list, i) == SubSeq(list, 1, i - 1) \o SubSeq(list, i + 1, Len(list))

(* One more situation in a charter never takes a requirement away nor shortens the
   waiting period that applies, whatever the place it is written at and whatever
   the value they test.                                                        *)
SituationsOnlyAdd ==
    \A v \in Answers, i \in DOMAIN situations :
        LET without == evaluate_situations(SituationsWithout(situations, i), v)
            all == evaluate_situations(situations, v)
        IN  /\ \A k \in without.requires : (IF k < i THEN k ELSE k + 1) \in all.requires
            /\ without.wait <= all.wait

(* What the runtime tells people and lets them do follows from the rows: inboxes and
   badges agree, requirements of roles only narrow who is let in, and situations of a
   charter only add to what a phase needs.                                     *)
RuntimeAnswersSound == InboxesAgree /\ RequirementsNarrow /\ SituationsOnlyAdd
=============================================================================
