------------------------- MODULE AuthorizationChecks -------------------------
(***************************************************************************)
(* Delegation of a role, approvals, separation of duties and access windows *)
(* as the authorization vocabulary reads them.  The rows are written by     *)
(* other code in any order.  Where a query does not fix the order of its    *)
(* rows the answer is a set of possible ones.                               *)
(***************************************************************************)
EXTENDS Rows, Sequences

CONSTANTS
    Actors,
    MaxDepth,         \* max_depth of verify_delegation_valid
    MaxAuthTime,      \* bound: the clock and expiry times
    MaxDelegations    \* bound: delegations, approvals, steps

ASSUME AuthAssumption == MaxDepth \in Nat /\ MaxAuthTime \in Nat

VARIABLES
    delegations,   \* active ones of the role: <<delegator, delegatee, expires_at>>
    holders,       \* actors that hold the role
    approvals,     \* rows about one request: <<approver, status>>
    steps,         \* completed steps of one workflow: <<step, actor>>
    authNow

authVars == <<delegations, holders, approvals, steps, authNow>>

AuthInit ==
    /\ delegations = {} /\ holders = {} /\ approvals = <<>> /\ steps = <<>> /\ authNow = 0

Expiries == {Null} \cup 1..MaxAuthTime

delegated(from, to, expires) ==
    /\ Cardinality(delegations) < MaxDelegations /\ from # to
    /\ delegations' = delegations \cup {<<from, to, expires>>}
    /\ UNCHANGED <<holders, approvals, steps, authNow>>

delegation_withdrawn(d) ==
    /\ delegations' = delegations \ {d}
    /\ UNCHANGED <<holders, approvals, steps, authNow>>

role_changed(actor) ==
    /\ holders' = (holders \ {actor}) \cup ({actor} \ holders)
    /\ UNCHANGED <<delegations, approvals, steps, authNow>>

AuthTick ==
    /\ authNow < MaxAuthTime
    /\ authNow' = authNow + 1
    /\ UNCHANGED <<delegations, holders, approvals, steps>>

approval_recorded(actor, status) ==
    /\ Len(approvals) < MaxDelegations
    /\ approvals' = Append(approvals, <<actor, status>>)
    /\ UNCHANGED <<delegations, holders, steps, authNow>>

step_completed(step, actor) ==
    /\ Len(steps) < MaxDelegations
    /\ steps' = Append(steps, <<step, actor>>)
    /\ UNCHANGED <<delegations, holders, approvals, authNow>>

-----------------------------------------------------------------------------
Unexpired(expires) == expires # Null => expires > authNow

\* LEAST ignores NULL.
Least(a, b) == IF a = Null THEN b ELSE IF b = Null THEN a ELSE IF a < b THEN a ELSE b

\* Mutant: only the first link is checked for expiry.
ChainStep_Expired(rows) ==
    UNION {{<<d[1], Least(r[2], d[3])>> : d \in {e \in delegations : e[2] = r[1]}} : r \in rows}

\* The recursive term of the query: one link further towards the authority
ChainStep(rows) ==
    UNION {{<<d[1], Least(r[2], d[3])>> : d \in {e \in delegations : e[2] = r[1] /\ Unexpired(e[3])}} : r \in rows}

\* The rows <<delegator, expires_at>> at each depth
DelegationRows(actor) ==
    LET at[depth \in 1..MaxDepth] ==
            IF depth = 1 THEN {<<d[1], d[3]>> : d \in {e \in delegations : e[2] = actor /\ Unexpired(e[3])}}
            ELSE ChainStep(at[depth - 1])
    IN  at

\* The authority is the delegator of a row of the greatest depth; expires_at is the earliest
\* of all rows.  The set of possible answers, empty when there is no delegation.
verify_delegation_valid(actor) ==
    LET at == DelegationRows(actor)
        depths == {k \in 1..MaxDepth : at[k] # {}}
        last == CHOOSE k \in depths : \A j \in depths : j <= k
        times == {r[2] : r \in UNION {at[k] : k \in depths}} \ {Null}
        earliest == IF times = {} THEN Null ELSE CHOOSE t \in times : \A u \in times : t <= u
    IN  IF depths = {} THEN {}
        ELSE {[valid |-> r[1] \in holders, authority |-> r[1], expires_at |-> earliest] : r \in at[last]}

require_role_authorized(actor) == actor \in holders

\* An approval by a holder, or with delegation by one to whom the role was delegated; the
\* expiry of the delegation is not looked at.
verify_role_approval(allow_delegation) ==
    \E i \in DOMAIN approvals :
        /\ approvals[i][2] = "approved"
        /\ \/ approvals[i][1] \in holders
           \/ allow_delegation /\ \E d \in delegations : d[2] = approvals[i][1]

\* The wrappers for one role each; only the board's does not admit delegation by default.
verify_named_approval(role) == verify_role_approval(role # "BOARD")

ApprovalCount(status) == Cardinality({i \in DOMAIN approvals : approvals[i][2] = status})

\* chain_complete
get_approval_chain ==
    ApprovalCount("approved") >= Len(approvals) /\ ApprovalCount("rejected") = 0

require_dual_approval(min_approvers) == ApprovalCount("approved") >= min_approvers

\* The status stored with the chain
verify_approval_chain_complete(row) == row # Null /\ row.status = "complete"

\* The pairs of steps, in dictionary order, with one actor
Conflicts(order, actorOf) ==
    {p \in (1..Len(order)) \X (1..Len(order)) : p[1] < p[2] /\ actorOf[order[p[1]]] = actorOf[order[p[2]]]}

\* A step completed twice keeps the actor of the row fetched last, any of them.
require_separation_of_duties ==
    LET names == {steps[i][1] : i \in DOMAIN steps}
        order == CHOOSE o \in [1..Cardinality(names) -> names] : {o[i] : i \in DOMAIN o} = names
        kept == {f \in [names -> Actors] : \A n \in names : \E i \in DOMAIN steps : steps[i] = <<n, f[n]>>}
    IN  {Conflicts(order, f) = {} : f \in kept}

require_distinct_identities(a, b) == a # b

\* The grace period is before the start only.
require_time_bounded_access(grant, grace, now) ==
    /\ grant # Null /\ ~grant.revoked
    /\ grant.starts_at # Null => now >= grant.starts_at - grace
    /\ grant.expires_at # Null => now <= grant.expires_at

ClearanceLevel == [public |-> 1, internal |-> 2, confidential |-> 3, secret |-> 4, top_secret |-> 5]

require_release_clearance(classification, clearance) ==
    /\ classification # Null /\ clearance # Null
    /\ ClearanceLevel[clearance] >= ClearanceLevel[classification]

\* No open case
check_er_clearance(cases) == "open" \notin cases

\* The one approved last among those that have not expired
require_access_justification(row) == row # Null /\ row.approved /\ Unexpired(row.expires_at)

\* The latest finished analysis
require_segregation_analysis(row) == row # Null /\ row.status = "complete" /\ row.conflicts_found = 0

DelegationNext ==
    \/ \E from, to \in Actors, expires \in Expiries : delegated(from, to, expires)
    \/ \E d \in delegations : delegation_withdrawn(d)
    \/ \E actor \in Actors : role_changed(actor)
    \/ AuthTick

ApprovalNext ==
    \/ \E actor \in Actors, status \in {"approved", "rejected", "pending"} : approval_recorded(actor, status)
    \/ \E actor \in Actors : role_changed(actor)
    \/ delegations = {} /\ \E from, to \in Actors : delegated(from, to, Null)

DelegationSpec == AuthInit /\ [][DelegationNext]_authVars

DutiesNext == \E step \in {"request", "review", "pay"}, actor \in Actors : step_completed(step, actor)

-----------------------------------------------------------------------------
\* PathTo(actor)[n]: the actors from whom n unexpired delegations lead to actor, with the earliest
\* expiry on the way; a delegation may be used more than once.
PathTo(actor) ==
    LET reach[n \in 0..MaxDepth] ==
            IF n = 0 THEN {<<actor, Null>>}
            ELSE {<<l[2][1], Least(l[1][2], l[2][3])>> :
                     l \in {k \in reach[n - 1] \X delegations : k[2][2] = k[1][1] /\ Unexpired(k[2][3])}}
    IN  UNION {reach[n] : n \in 1..MaxDepth}

\* A delegation reported valid is one: an actor that holds the role reaches the delegatee over
\* at most max_depth delegations that have not expired, also when delegations branch or form a
\* cycle, and the reported expiry is not after the expiry of any delegation on the way.
DelegationSound ==
    \A actor \in Actors : \A answer \in verify_delegation_valid(actor) :
        answer.valid =>
            \E p \in PathTo(actor) :
                /\ p[1] = answer.authority /\ require_role_authorized(p[1])
                /\ p[2] # Null => answer.expires_at # Null /\ answer.expires_at <= p[2]
                /\ Unexpired(answer.expires_at)

\* The ways to ask whether a request is approved are ordered by strength: a complete chain
\* that is not empty has the approvals require_dual_approval counts and no rejection, and
\* admitting delegation only finds more approvals.
ApprovalsAgree ==
    /\ (get_approval_chain /\ approvals # <<>>) =>
          /\ require_dual_approval(Len(approvals))
          /\ \A i \in DOMAIN approvals : approvals[i][2] = "approved"
          /\ (\E i \in DOMAIN approvals : require_role_authorized(approvals[i][1])) => verify_role_approval(FALSE)
    /\ verify_named_approval("BOARD") => verify_named_approval("CFO") /\ require_dual_approval(1)

\* Duties are separated exactly when no actor completed two of the steps, whatever the order
\* of the rows, as long as no step was completed twice; a conflict that exists whichever row
\* of a repeated step is looked at is always found.
SeparationExact ==
    LET once == \A i, j \in DOMAIN steps : steps[i][1] = steps[j][1] => i = j
        clash == \E i, j \in DOMAIN steps : i # j /\ ~require_distinct_identities(steps[i][2], steps[j][2])
    IN  /\ once => require_separation_of_duties = {~clash}
        /\ (\A i, j \in DOMAIN steps : steps[i][2] = steps[j][2]) /\ Cardinality({steps[i][1] : i \in DOMAIN steps}) > 1
              => require_separation_of_duties = {FALSE}

\* An access window has no gap and no second life: valid before and after an instant, it is
\* valid at it; the grace period opens it earlier and never keeps it open longer.
AccessWindow ==
    authNow > 0 =>
    \A starts, ends \in Expiries, grace \in 0..1, before, at, after \in 0..MaxAuthTime :
        LET grant == [revoked |-> FALSE, starts_at |-> starts, expires_at |-> ends]
        IN  /\ (before <= at /\ at <= after /\ require_time_bounded_access(grant, grace, before)
                /\ require_time_bounded_access(grant, grace, after)) => require_time_bounded_access(grant, grace, at)
            /\ (require_time_bounded_access(grant, grace, at) /\ ~require_time_bounded_access(grant, 0, at))
                  => starts # Null /\ at < starts
=============================================================================
