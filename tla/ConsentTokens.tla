---------------------------- MODULE ConsentTokens ----------------------------
(***************************************************************************)
(* The consent vocabulary for one subject of one tenant: granting, revoking *)
(* and renewing tokens, and the phrases and constraint functions that say   *)
(* whether consent exists.  Revoking and renewing read a row and write the  *)
(* entity back in a second statement.                                       *)
(***************************************************************************)
EXTENDS Rows

CONSTANTS
    ConsentClients,   \* concurrent requests
    ConsentScopes,    \* the scopes in use, of ConsentScope
    MaxTokens,        \* bound: rows of consent_tokens
    MaxConsentTime    \* bound: the clock

ASSUME ConsentAssumption == Null \notin ConsentScopes \cup {"active", "revoked"} /\ MaxConsentTime \in Nat

VARIABLES
    consent_tokens,
    consentReq,       \* consentReq[c]: the statement c has still to send
    consentNow

consentVars == <<consent_tokens, consentReq, consentNow>>

NoConsentReq == [at |-> "idle"]
Expiries == {Null} \cup 1..MaxConsentTime

ConsentInit ==
    /\ consent_tokens = <<>>
    /\ consentReq = [c \in ConsentClients |-> NoConsentReq]
    /\ consentNow = 0

-----------------------------------------------------------------------------
Primary == "consideration_authorization"

\* SCOPE_HIERARCHY: the primary scope covers every scope, the others themselves.
scope_covers(granted, required) == granted = Primary \/ required = granted

\* expires_at and expires_at < now
Lapsed(row) == row.expires_at # Null /\ row.expires_at < consentNow

\* An explicit expiry must be in the future; a duration counts from now.
ResolvedExpirations == {e \in Expiries : e = Null \/ e > consentNow}

grant_consent_token(k, expires) ==
    /\ expires \in ResolvedExpirations
    /\ Cardinality(DOMAIN consent_tokens) < MaxTokens
    /\ consent_tokens' = insert(consent_tokens, NextId(consent_tokens),
          [scope |-> k, status |-> "active", expires_at |-> expires])
    /\ UNCHANGED <<consentReq, consentNow>>

ActiveToken(k) == select_one(consent_tokens, [scope |-> k, status |-> "active"]) \ {Null}

RevokeSelect(c, k) ==
    /\ consentReq[c] = NoConsentReq
    /\ \E t \in ActiveToken(k) :
          consentReq' = [consentReq EXCEPT ![c] = [at |-> "update", id |-> t,
              entity |-> [consent_tokens[t] EXCEPT !.status = "revoked"]]]
    /\ UNCHANGED <<consent_tokens, consentNow>>

\* An absolute date in the future, or the old expiry (now, for a perpetual token) plus a
\* duration; with neither, None.
new_expirations(old) ==
    {e \in Expiries : e # Null /\ e > consentNow}
    \cup {e \in Expiries : e # Null /\ e > IF old = Null THEN consentNow ELSE old}
    \cup {Null}

\* Mutant: the row to renew is looked up without its status.
RenewSelect_AnyStatus(c, k) ==
    /\ consentReq[c] = NoConsentReq
    /\ \E t \in select(consent_tokens, [scope |-> k]) :
          consentReq' = [consentReq EXCEPT ![c] = [at |-> "update", id |-> t,
              entity |-> [consent_tokens[t] EXCEPT !.status = "active"]]]
    /\ UNCHANGED <<consent_tokens, consentNow>>

\* A perpetual token without a new date is left alone.
RenewSelect(c, k) ==
    /\ consentReq[c] = NoConsentReq
    /\ \E t \in ActiveToken(k) : \E e \in new_expirations(consent_tokens[t].expires_at) :
          /\ ~(e = Null /\ consent_tokens[t].expires_at = Null)
          /\ consentReq' = [consentReq EXCEPT ![c] = [at |-> "update", id |-> t,
                entity |-> [consent_tokens[t] EXCEPT !.expires_at = e]]]
    /\ UNCHANGED <<consent_tokens, consentNow>>

ConsentUpdate(c) ==
    /\ consentReq[c].at = "update"
    /\ consent_tokens' = update_entity(consent_tokens, consentReq[c].id, consentReq[c].entity)
    /\ consentReq' = [consentReq EXCEPT ![c] = NoConsentReq]
    /\ UNCHANGED consentNow

ConsentTick ==
    /\ consentNow < MaxConsentTime
    /\ consentNow' = consentNow + 1
    /\ UNCHANGED <<consent_tokens, consentReq>>

ConsentNext ==
    \/ \E k \in ConsentScopes, e \in Expiries : grant_consent_token(k, e)
    \/ \E c \in ConsentClients, k \in ConsentScopes : RevokeSelect(c, k)
    \/ \E c \in ConsentClients, k \in ConsentScopes : RenewSelect(c, k)
    \/ \E c \in ConsentClients : ConsentUpdate(c)
    \/ ConsentTick

ConsentSpec == ConsentInit /\ [][ConsentNext]_consentVars

-----------------------------------------------------------------------------
(* The answers each phrase may give: select_one may return any matching row. *)

find_consent_token(k) ==
    {t # Null /\ ~Lapsed(consent_tokens[t]) :
        t \in select_one(consent_tokens, [scope |-> k, status |-> "active"])}

\* Mutant: an expired token still counts.
require_valid_consent_IgnoresExpiry(k) ==
    {IF t = Null THEN "expired" ELSE "ok" :
        t \in select_one(consent_tokens, [scope |-> k, status |-> "active"])}

require_valid_consent(k) ==
    {IF t = Null \/ Lapsed(consent_tokens[t]) THEN "expired" ELSE "ok" :
        t \in select_one(consent_tokens, [scope |-> k, status |-> "active"])}

\* Any row of the scope is read, whatever its status.
require_consent_not_expired(k) ==
    {IF t = Null \/ Lapsed(consent_tokens[t]) \/ consent_tokens[t].status = "expired"
     THEN "expired" ELSE "ok" : t \in select_one(consent_tokens, [scope |-> k])}

Withdrawn(k) == select(consent_tokens, [scope |-> k, status |-> "revoked"]) # {}

require_active_consent(k) ==
    IF Withdrawn(k) \/ ActiveToken(k) = {} THEN {"withdrawn"} ELSE {"ok"}

require_consent_not_withdrawn(k) == IF Withdrawn(k) THEN {"withdrawn"} ELSE {"ok"}

verify_consent_scope_covers(granted, required) ==
    {t # Null /\ ~Lapsed(consent_tokens[t]) /\ scope_covers(granted, required) :
        t \in select_one(consent_tokens, [scope |-> granted, status |-> "active"])}

list_consent_tokens(k, filter) ==
    {t \in select(consent_tokens, [scope |-> k]) :
        /\ filter \in {"valid", "active"} => consent_tokens[t].status = "active"
        /\ filter = "valid" => ~Lapsed(consent_tokens[t])}

get_consent_history(k, include_revoked) ==
    {t \in select(consent_tokens, [scope |-> k]) :
        consent_tokens[t].status = "revoked" => include_revoked}

consent_must_be_valid(row) == row.status = "active"

consent_must_not_be_expired(row) == row.expires_at = Null \/ consentNow < row.expires_at

consent_must_not_be_withdrawn(row) == row.status # "revoked"

consent_scope_must_cover(row, required) == row.scope = required

\* The phrases and the constraint functions are separate code for the same question.  A
\* phrase that looks for valid consent can succeed exactly when the listing shows a valid
\* token; a token every constraint function accepts is such a token, and the only valid
\* token a constraint function refuses is one that expires at this very instant; a
\* consent that is active in the strictest sense is one the history shows no withdrawal of.
ConsentChecksAgree ==
    \A k \in ConsentScopes :
        LET valid == list_consent_tokens(k, "valid")
        IN  /\ ("ok" \in require_valid_consent(k)) <=> (valid # {})
            /\ (TRUE \in find_consent_token(k)) <=> (valid # {})
            /\ \A r \in ConsentScopes : (TRUE \in verify_consent_scope_covers(k, r))
                  <=> (valid # {} /\ scope_covers(k, r))
            /\ \A t \in DOMAIN consent_tokens :
                  LET row == consent_tokens[t]
                      accepted == /\ consent_must_be_valid(row) /\ consent_must_not_be_expired(row)
                                  /\ consent_must_not_be_withdrawn(row)
                                  /\ consent_scope_must_cover(row, k)
                  IN  (t \in valid) <=> (accepted \/ (row.scope = k /\ row.status = "active"
                                                      /\ row.expires_at = consentNow))
            /\ ("ok" \in require_active_consent(k)) =>
                  /\ "ok" \in require_consent_not_withdrawn(k)
                  /\ get_consent_history(k, FALSE) = get_consent_history(k, TRUE)
            /\ (valid # {}) => ("ok" \in require_consent_not_expired(k))

\* A revoked token of the scope that no request under way is about to write back as active
Settled(k) ==
    \E t \in select(consent_tokens, [scope |-> k, status |-> "revoked"]) :
        \A c \in ConsentClients : consentReq[c] # NoConsentReq =>
            consentReq[c].id # t \/ consentReq[c].entity.status = "revoked"

\* Withdrawal is final: once a token of a scope is revoked and no renewal that read it
\* earlier is under way, no later interleaving of grants, renewals and revocations makes
\* require_active_consent or require_consent_not_withdrawn accept the scope again.
WithdrawalIsFinal ==
    [][\A k \in ConsentScopes : Settled(k) =>
          Settled(k)' /\ require_active_consent(k)' = {"withdrawn"}
                      /\ require_consent_not_withdrawn(k)' = {"withdrawn"}]_consentVars
=============================================================================
