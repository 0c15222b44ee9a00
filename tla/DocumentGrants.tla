--------------------------- MODULE DocumentGrants ---------------------------
(***************************************************************************)
(* canon.runtime.grants: the document access tokens of one charter run.     *)
(* Every function is one SQL statement, hence one step, except              *)
(* transfer_phase_grants (one INSERT per grant, then one UPDATE) and an     *)
(* access, which is check_document_access followed by                       *)
(* record_document_access.                                                  *)
(*                                                                         *)
(* The subject is fixed; purposes, reasons and actors are left out.         *)
(***************************************************************************)
EXTENDS Naturals, Sequences

CONSTANTS
    Users,      \* grantees
    Docs,       \* document types
    Phases,     \* phases of the run that grant access
    GrantNodes, \* GrantNodes[p]: the grants phase p declares, [doc, timed]
    Readers,    \* concurrent accesses
    TTL,        \* ttl_minutes of a time-scoped grant
    Safety,     \* PHASE_GRANT_SAFETY_HOURS, in the same unit
    MaxTokens,  \* bound: tokens issued
    MaxTime     \* bound: the clock

ASSUME GrantAssumption ==
    /\ GrantNodes \in [Phases -> SUBSET [doc : Docs, timed : BOOLEAN]]
    /\ TTL \in Nat /\ Safety \in Nat
    /\ MaxTokens \in Nat /\ MaxTime \in Nat

VARIABLES
    token,     \* document_access_tokens, in the order of their INSERTs
    now,
    pending,   \* the phases that have not completed
    reader,    \* reader[r]: index of the token the check returned, 0 when idle
    transfer   \* the delegation in progress

vars == <<token, now, pending, reader, transfer>>

NoTransfer == [phase |-> "none", from |-> "none", to |-> "none", todo |-> {}, done |-> {}]

Init ==
    /\ token = <<>>
    /\ now = 0
    /\ pending = Phases
    /\ reader = [r \in Readers |-> 0]
    /\ transfer = NoTransfer

\* WHERE status IN ('active', 'used') AND expires_at > now
Usable(t) == t.status \in {"active", "used"} /\ t.expires > now

HasAccess(u, d) ==
    \E i \in DOMAIN token : token[i].grantee = u /\ token[i].doc = d /\ Usable(token[i])

-----------------------------------------------------------------------------

create_phase_grant(p, g, u) ==
    /\ Len(token) < MaxTokens
    /\ token' = Append(token,
          [grantee |-> u, doc |-> g.doc, phase |-> p, timed |-> g.timed, status |-> "active",
           issued |-> now, expires |-> now + (IF g.timed THEN TTL ELSE Safety)])

\* The callers grant access when a phase activates.
Grant(p, g, u) ==
    /\ p \in pending
    /\ create_phase_grant(p, g, u)
    /\ UNCHANGED <<now, pending, reader, transfer>>

\* ORDER BY issued_at DESC LIMIT 1
check_document_access(r, u, d) ==
    LET rows == {i \in DOMAIN token :
                    token[i].grantee = u /\ token[i].doc = d /\ Usable(token[i])}
    IN  /\ reader[r] = 0
        /\ \E i \in rows :
              /\ \A j \in rows : token[j].issued <= token[i].issued
              /\ reader' = [reader EXCEPT ![r] = i]
        /\ UNCHANGED <<token, now, pending, transfer>>

\* UPDATE ... SET status = 'used' WHERE id: whatever the status is by now.
record_document_access(r) ==
    /\ reader[r] # 0
    /\ token' = [token EXCEPT ![reader[r]].status = "used"]
    /\ reader' = [reader EXCEPT ![r] = 0]
    /\ UNCHANGED <<now, pending, transfer>>

\* The UPDATE ... WHERE status IN ('active', 'used') of both revocations.
RevokeWhere(grantees) ==
    token' = [i \in DOMAIN token |->
                 IF token[i].grantee \in grantees /\ token[i].status \in {"active", "used"}
                 THEN [token[i] EXCEPT !.status = "revoked"]
                 ELSE token[i]]

\* Called when phase p completes.  The tokens are selected by the run alone.
revoke_phase_grants(p) ==
    /\ p \in pending
    /\ pending' = pending \ {p}
    /\ RevokeWhere(Users)
    /\ UNCHANGED <<now, reader, transfer>>

-----------------------------------------------------------------------------
(* transfer_phase_grants                                                    *)

\* The assignee of a pending phase delegates it to somebody else.
BeginTransfer(p, from, to) ==
    /\ transfer = NoTransfer
    /\ p \in pending
    /\ from # to
    /\ transfer' = [phase |-> p, from |-> from, to |-> to, todo |-> GrantNodes[p], done |-> {}]
    /\ UNCHANGED <<token, now, pending, reader>>

TransferCreate(g) ==
    /\ g \in transfer.todo
    /\ create_phase_grant(transfer.phase, g, transfer.to)
    /\ transfer' = [transfer EXCEPT !.todo = @ \ {g}, !.done = @ \cup {g}]
    /\ UNCHANGED <<now, pending, reader>>

\* Mutant: the old grants are revoked before the new ones exist.
TransferRevoke_First ==
    /\ transfer # NoTransfer
    /\ RevokeWhere({transfer.from})
    /\ transfer' = IF transfer.todo = {} THEN NoTransfer ELSE transfer
    /\ UNCHANGED <<now, pending, reader>>

TransferRevoke ==
    /\ transfer # NoTransfer
    /\ transfer.todo = {}
    /\ RevokeWhere({transfer.from})
    /\ transfer' = NoTransfer
    /\ UNCHANGED <<now, pending, reader>>

\* An INSERT fails: the exception leaves the loop.
TransferFails ==
    /\ transfer.todo # {}
    /\ transfer' = NoTransfer
    /\ UNCHANGED <<token, now, pending, reader>>

Tick ==
    /\ now < MaxTime
    /\ now' = now + 1
    /\ UNCHANGED <<token, pending, reader, transfer>>

Next ==
    \/ \E p \in Phases, u \in Users : \E g \in GrantNodes[p] : Grant(p, g, u)
    \/ \E r \in Readers, u \in Users, d \in Docs : check_document_access(r, u, d)
    \/ \E r \in Readers : record_document_access(r)
    \/ \E p \in Phases : revoke_phase_grants(p)
    \/ \E p \in Phases, from, to \in Users : BeginTransfer(p, from, to)
    \/ \E g \in transfer.todo : TransferCreate(g)
    \/ TransferRevoke
    \/ TransferFails
    \/ Tick

Spec == Init /\ [][Next]_vars

-----------------------------------------------------------------------------
(* Properties.                                                              *)

TokenRow == [grantee : Users, doc : Docs, phase : Phases, timed : BOOLEAN,
             status : {"active", "used", "revoked"}, issued : Nat, expires : Nat]

\* The rows, the clock and the calls in progress keep their types; an access in
\* progress refers to a token that exists.
TypeOK ==
    /\ token \in Seq(TokenRow) /\ Len(token) <= MaxTokens
    /\ now \in 0..MaxTime
    /\ pending \subseteq Phases
    /\ reader \in [Readers -> 0..MaxTokens]
    /\ \A r \in Readers : reader[r] <= Len(token)
    /\ transfer.todo \cup transfer.done \subseteq [doc : Docs, timed : BOOLEAN]

\* "This order prevents access gaps if new grant creation fails": a delegated document
\* is never out of reach of both users, before, during and right after the transfer,
\* unless grants of the delegate expire or are revoked because a phase completes.
NoAccessGap ==
    [][\A from, to \in Users, d \in {g.doc : g \in transfer.todo \cup transfer.done} :
          /\ from = transfer.from /\ to = transfer.to
          /\ HasAccess(from, d) \/ HasAccess(to, d)
          /\ now' = now /\ pending' = pending
          /\ \A i \in DOMAIN token : token[i].grantee = to => Usable(token[i])
          => HasAccess(from, d)' \/ HasAccess(to, d)']_vars

\* A user who has lost access by revocation gets it back only through a new grant.
\* "This implements the principle of least privilege - access ends when the need ends."
RevokedStaysRevoked ==
    [][\A i \in DOMAIN token : token[i].status = "revoked" => token'[i].status = "revoked"]_vars

=============================================================================
