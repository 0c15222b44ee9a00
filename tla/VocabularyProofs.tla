------------------------- MODULE VocabularyProofs ---------------------------
(* What the vocabulary records, for any number of rows and of overlapping requests:
   withdrawal of consent is final and the phrases and the constraint functions of
   consent agree; a sealed evidence packet says what it said when it was sealed; and
   a tenant's charters and workflow runs; and what the hashes and signatures of a
   decision certificate vouch for.                                              *)
EXTENDS ConsentTokens, EvidencePackets, Charters, WorkflowRuns, Certificates, TLAPS

\* The rows of a table are numbered in turn.
LEMMA NextIdIs ==
    ASSUME NEW T, NEW n \in Nat, DOMAIN T = 1..n
    PROVE  NextId(T) = n + 1
<1>1. n + 1 \in {1} \cup {i + 1 : i \in 1..n}
  <2>1. CASE n = 0  BY <2>1, SMTT(20)
  <2>2. CASE n # 0
    <3>1. n \in 1..n  BY <2>2, SMTT(20)
    <3> QED  BY <3>1, Zenon
  <2> QED  BY <2>1, <2>2, Zenon
<1>2. ASSUME NEW i \in {1} \cup {i + 1 : i \in 1..n}, i \notin 1..n PROVE i = n + 1
  BY <1>2, SMTT(20)
<1>3. n + 1 \notin 1..n
  BY SMTT(20)
<1> QED  BY <1>1, <1>2, <1>3, Zenon DEF NextId

-----------------------------------------------------------------------------
(* Consent tokens.                                                           *)

Token == [scope : ConsentScopes, status : {"active", "revoked"}, expires_at : Expiries]

Write == [at : {"update"}, id : Int, entity : Token]

\* Ids are given out in turn and rows are never deleted.
Granted(n) == consent_tokens \in [1..n -> Token]

\* A request writes back the scope it read, which nobody changes.
Requests ==
    /\ consentReq \in [ConsentClients -> {NoConsentReq} \cup Write]
    /\ \A c \in ConsentClients : consentReq[c] # NoConsentReq =>
          /\ consentReq[c].id \in DOMAIN consent_tokens
          /\ consentReq[c].entity.scope = consent_tokens[consentReq[c].id].scope

\* The inductive invariant.
ConsentIInv == (\E n \in Nat : Granted(n)) /\ Requests

-----------------------------------------------------------------------------
LEMMA WriteIsNotIdle == \A w \in Write : w # NoConsentReq /\ w.at = "update"
BY DEF Write, NoConsentReq

\* The rows of a scope with a status.
LEMMA Selected ==
    ASSUME NEW k \in ConsentScopes, NEW s \in {"active", "revoked"}
    PROVE  select(consent_tokens, [scope |-> k, status |-> s])
           = {t \in DOMAIN consent_tokens : consent_tokens[t].scope = k /\ consent_tokens[t].status = s}
<1> DEFINE where == [scope |-> k, status |-> s]
<1>1. DOMAIN where = {"scope", "status"} /\ where["scope"] = k /\ where["status"] = s /\ k # Null /\ s # Null
  BY ConsentAssumption, Zenon
<1>2. ASSUME NEW t \in DOMAIN consent_tokens
      PROVE  Matches(consent_tokens[t], where) <=> consent_tokens[t].scope = k /\ consent_tokens[t].status = s
  <2> HIDE DEF where
  <2> QED
    BY <1>1, Zenon DEF Matches
<1> QED
  BY <1>2, Zenon DEF select

LEMMA ActiveIsActive ==
    ASSUME NEW k \in ConsentScopes, NEW t \in ActiveToken(k)
    PROVE  t \in DOMAIN consent_tokens /\ consent_tokens[t].status = "active"
<1>1. t \in select(consent_tokens, [scope |-> k, status |-> "active"])
  BY Zenon DEF ActiveToken, select_one
<1> QED
  BY <1>1, Selected, Zenon

LEMMA ConsentInitInv == ConsentInit => ConsentIInv
<1> SUFFICES ASSUME ConsentInit PROVE ConsentIInv
  BY Zenon
<1>1. consent_tokens \in [1..0 -> Token]
  BY DEF ConsentInit
<1>2. Requests
  BY Zenon DEF ConsentInit, Requests
<1> QED
  BY <1>1, <1>2, Zenon DEF ConsentIInv, Granted

LEMMA GrantAdds ==
    ASSUME ConsentIInv, NEW k \in ConsentScopes, NEW e \in Expiries, grant_consent_token(k, e)
    PROVE  /\ ConsentIInv'
           /\ \A t \in DOMAIN consent_tokens : t \in DOMAIN consent_tokens' /\ consent_tokens'[t] = consent_tokens[t]
<1> DEFINE row == [scope |-> k, status |-> "active", expires_at |-> e]
<1>1. PICK n \in Nat : consent_tokens \in [1..n -> Token]
  BY Zenon DEF ConsentIInv, Granted
<1>2. NextId(consent_tokens) = n + 1
  BY <1>1, NextIdIs, Zenon
<1>3. row \in Token
  BY Zenon DEF Token
<1>4. consent_tokens' = [i \in 1..n \cup {n + 1} |-> IF i = n + 1 THEN row ELSE consent_tokens[i]] /\ consentReq' = consentReq
  BY <1>1, <1>2, Zenon DEF grant_consent_token, insert
<1>5. consent_tokens' \in [1..(n + 1) -> Token]
  <2>1. 1..n \cup {n + 1} = 1..(n + 1)
    OBVIOUS
  <2> HIDE DEF row
  <2> QED
    BY <1>1, <1>3, <1>4, <2>1, Zenon
<1>6. \A t \in DOMAIN consent_tokens : t \in DOMAIN consent_tokens' /\ consent_tokens'[t] = consent_tokens[t]
  <2>1. DOMAIN consent_tokens = 1..n /\ \A t \in 1..n : t # n + 1
    BY <1>1
  <2> HIDE DEF row
  <2> QED
    BY <1>4, <2>1, Zenon
<1>7. Requests'
  BY <1>4, <1>6, Zenon DEF ConsentIInv, Requests
<1> QED
  BY <1>5, <1>6, <1>7 DEF ConsentIInv, Granted

\* A request that has read an active row t plans to write back a row of t's scope.
LEMMA ReadsRow ==
    ASSUME ConsentIInv, NEW c \in ConsentClients, NEW t \in DOMAIN consent_tokens, NEW r \in Token,
           r.scope = consent_tokens[t].scope,
           consentReq' = [consentReq EXCEPT ![c] = [at |-> "update", id |-> t, entity |-> r]],
           consent_tokens' = consent_tokens
    PROVE  ConsentIInv'
<1> DEFINE w == [at |-> "update", id |-> t, entity |-> r]
<1>1. w \in Write /\ w.id = t /\ w.entity = r
  BY DEF ConsentIInv, Granted, Write
<1>2. consentReq' = [consentReq EXCEPT ![c] = w]
  BY Zenon
<1> HIDE DEF w
<1>3. Requests'
  BY <1>1, <1>2 DEF ConsentIInv, Requests
<1> QED
  BY <1>3, Zenon DEF ConsentIInv, Granted

LEMMA RowsAreTokens ==
    ASSUME ConsentIInv, NEW t \in DOMAIN consent_tokens
    PROVE  /\ consent_tokens[t] \in Token
           /\ LET r == [consent_tokens[t] EXCEPT !.status = "revoked"]
              IN  r \in Token /\ r.scope = consent_tokens[t].scope /\ r.status = "revoked"
           /\ \A e \in Expiries : LET r == [consent_tokens[t] EXCEPT !.expires_at = e]
              IN  r \in Token /\ r.scope = consent_tokens[t].scope
<1>1. consent_tokens[t] \in Token
  BY Zenon DEF ConsentIInv, Granted
<1> QED
  BY <1>1, Zenon DEF Token

LEMMA RevokeReads ==
    ASSUME ConsentIInv, NEW c \in ConsentClients, NEW k \in ConsentScopes, RevokeSelect(c, k)
    PROVE  ConsentIInv'
<1>1. PICK t \in ActiveToken(k) : consentReq' = [consentReq EXCEPT ![c] = [at |-> "update", id |-> t,
              entity |-> [consent_tokens[t] EXCEPT !.status = "revoked"]]]
  BY Zenon DEF RevokeSelect
<1>2. t \in DOMAIN consent_tokens
  BY ActiveIsActive, Zenon
<1> DEFINE r == [consent_tokens[t] EXCEPT !.status = "revoked"]
<1>3. r \in Token /\ r.scope = consent_tokens[t].scope
  BY <1>2, RowsAreTokens, Zenon
<1>4. consentReq' = [consentReq EXCEPT ![c] = [at |-> "update", id |-> t, entity |-> r]]
  BY <1>1, Zenon
<1> HIDE DEF r
<1> QED
  BY <1>2, <1>3, <1>4, ReadsRow, Zenon DEF RevokeSelect

LEMMA RenewReads ==
    ASSUME ConsentIInv, NEW c \in ConsentClients, NEW k \in ConsentScopes, RenewSelect(c, k)
    PROVE  ConsentIInv'
<1>1. PICK t \in ActiveToken(k), e \in Expiries :
          consentReq' = [consentReq EXCEPT ![c] = [at |-> "update", id |-> t,
              entity |-> [consent_tokens[t] EXCEPT !.expires_at = e]]]
  BY Zenon DEF RenewSelect, new_expirations, Expiries
<1>2. t \in DOMAIN consent_tokens
  BY ActiveIsActive, Zenon
<1> DEFINE r == [consent_tokens[t] EXCEPT !.expires_at = e]
<1>3. r \in Token /\ r.scope = consent_tokens[t].scope
  BY <1>2, RowsAreTokens, Zenon
<1>4. consentReq' = [consentReq EXCEPT ![c] = [at |-> "update", id |-> t, entity |-> r]]
  BY <1>1, Zenon
<1> HIDE DEF r
<1> QED
  BY <1>2, <1>3, <1>4, ReadsRow, Zenon DEF RenewSelect

LEMMA UpdateWrites ==
    ASSUME ConsentIInv, NEW c \in ConsentClients, ConsentUpdate(c)
    PROVE  ConsentIInv'
<1>1. PICK n \in Nat : consent_tokens \in [1..n -> Token]
  BY Zenon DEF ConsentIInv, Granted
<1>2. consentReq[c] # NoConsentReq
  BY DEF ConsentUpdate, NoConsentReq
<1>3. consentReq[c] \in Write /\ consentReq[c].id \in 1..n
      /\ consentReq[c].entity.scope = consent_tokens[consentReq[c].id].scope
  BY <1>1, <1>2, Zenon DEF ConsentIInv, Requests
<1>4. PICK i \in 1..n, r \in Token : i = consentReq[c].id /\ r = consentReq[c].entity
  BY <1>3, Zenon DEF Write
<1>5. consent_tokens' = [consent_tokens EXCEPT ![i] = r] /\ r.scope = consent_tokens[i].scope
  BY <1>3, <1>4, Zenon DEF ConsentUpdate, update_entity
<1>6. consent_tokens' \in [1..n -> Token] /\ \A t \in 1..n : consent_tokens'[t].scope = consent_tokens[t].scope
  BY <1>1, <1>5, Zenon
<1>7. Requests'
  BY <1>1, <1>6, Zenon DEF ConsentIInv, Requests, ConsentUpdate
<1> QED
  BY <1>6, <1>7, Zenon DEF ConsentIInv, Granted

LEMMA ConsentStepInv == ConsentIInv /\ [ConsentNext]_consentVars => ConsentIInv'
<1> SUFFICES ASSUME ConsentIInv, [ConsentNext]_consentVars PROVE ConsentIInv'
  BY Zenon
<1>1. ASSUME NEW k \in ConsentScopes, NEW e \in Expiries, grant_consent_token(k, e) PROVE ConsentIInv'
  BY <1>1, GrantAdds, Zenon
<1>2. ASSUME NEW c \in ConsentClients, NEW k \in ConsentScopes, RevokeSelect(c, k) PROVE ConsentIInv'
  BY <1>2, RevokeReads, Zenon
<1>3. ASSUME NEW c \in ConsentClients, NEW k \in ConsentScopes, RenewSelect(c, k) PROVE ConsentIInv'
  BY <1>3, RenewReads, Zenon
<1>4. ASSUME NEW c \in ConsentClients, ConsentUpdate(c) PROVE ConsentIInv'
  BY <1>4, UpdateWrites, Zenon
<1>5. ASSUME UNCHANGED <<consent_tokens, consentReq>> PROVE ConsentIInv'
  BY <1>5, Zenon DEF ConsentIInv, Granted, Requests
<1> QED
  BY <1>1, <1>2, <1>3, <1>4, <1>5, Zenon DEF ConsentNext, ConsentTick, consentVars

-----------------------------------------------------------------------------
\* t is a revoked token of scope k, and no request will write it back as active.
FinallyRevoked(t, k) ==
    /\ t \in DOMAIN consent_tokens
    /\ consent_tokens[t].scope = k
    /\ consent_tokens[t].status = "revoked"
    /\ \A c \in ConsentClients : consentReq[c] # NoConsentReq =>
          consentReq[c].id # t \/ consentReq[c].entity.status = "revoked"

SettledIsRevoked ==
    \A k \in ConsentScopes : Settled(k) <=> \E t \in DOMAIN consent_tokens : FinallyRevoked(t, k)

LEMMA SettledMeans == SettledIsRevoked
BY Selected, Zenon DEF Settled, FinallyRevoked, SettledIsRevoked

LEMMA SettledMeansNext == SettledIsRevoked'
BY SettledMeans, PTL

\* A request that reads an active row does not read t.
LEMMA ReadsAnother ==
    ASSUME ConsentIInv, NEW t, NEW k, FinallyRevoked(t, k), NEW c \in ConsentClients,
           NEW i \in DOMAIN consent_tokens, consent_tokens[i].status = "active", NEW r,
           consentReq' = [consentReq EXCEPT ![c] = [at |-> "update", id |-> i, entity |-> r]],
           consent_tokens' = consent_tokens
    PROVE  FinallyRevoked(t, k)'
<1> DEFINE w == [at |-> "update", id |-> i, entity |-> r]
<1>1. w.id = i /\ i # t
  BY Zenon DEF FinallyRevoked
<1>2. consentReq' = [consentReq EXCEPT ![c] = w]
  BY Zenon
<1> HIDE DEF w
<1> QED
  BY <1>1, <1>2, Zenon DEF FinallyRevoked, ConsentIInv, Requests

LEMMA StaysRevoked ==
    ASSUME ConsentIInv, [ConsentNext]_consentVars, NEW t, NEW k, FinallyRevoked(t, k)
    PROVE  FinallyRevoked(t, k)'
<1>1. ASSUME NEW k2 \in ConsentScopes, NEW e \in Expiries, grant_consent_token(k2, e)
      PROVE  FinallyRevoked(t, k)'
  <2>1. t \in DOMAIN consent_tokens' /\ consent_tokens'[t] = consent_tokens[t]
    BY <1>1, GrantAdds, Zenon DEF FinallyRevoked
  <2> QED
    BY <1>1, <2>1, Zenon DEF FinallyRevoked, grant_consent_token
<1>2. ASSUME NEW c \in ConsentClients, NEW k2 \in ConsentScopes, RevokeSelect(c, k2)
      PROVE  FinallyRevoked(t, k)'
  <2>1. PICK i \in ActiveToken(k2) : consentReq' = [consentReq EXCEPT ![c] = [at |-> "update", id |-> i,
              entity |-> [consent_tokens[i] EXCEPT !.status = "revoked"]]]
    BY <1>2, Zenon DEF RevokeSelect
  <2>2. i \in DOMAIN consent_tokens /\ consent_tokens[i].status = "active"
    BY ActiveIsActive, Zenon
  <2> QED
    BY <1>2, <2>1, <2>2, ReadsAnother, Zenon DEF RevokeSelect
<1>3. ASSUME NEW c \in ConsentClients, NEW k2 \in ConsentScopes, RenewSelect(c, k2)
      PROVE  FinallyRevoked(t, k)'
  <2>1. PICK i \in ActiveToken(k2), e \in Expiries :
            consentReq' = [consentReq EXCEPT ![c] = [at |-> "update", id |-> i,
              entity |-> [consent_tokens[i] EXCEPT !.expires_at = e]]]
    BY <1>3, Zenon DEF RenewSelect, new_expirations, Expiries
  <2>2. i \in DOMAIN consent_tokens /\ consent_tokens[i].status = "active"
    BY ActiveIsActive, Zenon
  <2> QED
    BY <1>3, <2>1, <2>2, ReadsAnother, Zenon DEF RenewSelect
<1>4. ASSUME NEW c \in ConsentClients, ConsentUpdate(c) PROVE FinallyRevoked(t, k)'
  <2>1. consentReq[c] # NoConsentReq
    BY <1>4 DEF ConsentUpdate, NoConsentReq
  <2>2. consentReq[c].id \in DOMAIN consent_tokens
        /\ consentReq[c].entity.scope = consent_tokens[consentReq[c].id].scope
    BY <2>1, Zenon DEF ConsentIInv, Requests
  <2>3. consent_tokens' = [consent_tokens EXCEPT ![consentReq[c].id] = consentReq[c].entity]
    BY <1>4, Zenon DEF ConsentUpdate, update_entity
  <2>4. /\ t \in DOMAIN consent_tokens'
        /\ consent_tokens'[t].scope = k
        /\ consent_tokens'[t].status = "revoked"
    <3>1. CASE consentReq[c].id = t
      BY <2>1, <2>2, <2>3, <3>1, Zenon DEF FinallyRevoked, ConsentIInv, Granted
    <3>2. CASE consentReq[c].id # t
      BY <2>3, <3>2, Zenon DEF FinallyRevoked, ConsentIInv, Granted
    <3> QED
      BY <3>1, <3>2, Zenon
  <2>5. \A d \in ConsentClients : consentReq'[d] # NoConsentReq => consentReq'[d] = consentReq[d]
    BY <1>4, Zenon DEF ConsentUpdate, ConsentIInv, Requests
  <2> QED
    BY <2>4, <2>5, Zenon DEF FinallyRevoked
<1>5. ASSUME UNCHANGED <<consent_tokens, consentReq>> PROVE FinallyRevoked(t, k)'
  BY <1>5, Zenon DEF FinallyRevoked
<1> QED
  BY <1>1, <1>2, <1>3, <1>4, <1>5, Zenon DEF ConsentNext, ConsentTick, consentVars

\* A scope with a finally revoked token is refused by both phrases.
LEMMA SettledIsWithdrawn ==
    ASSUME NEW k \in ConsentScopes, Settled(k)
    PROVE  require_active_consent(k) = {"withdrawn"} /\ require_consent_not_withdrawn(k) = {"withdrawn"}
<1>1. Withdrawn(k)
  BY Zenon DEF Settled, Withdrawn
<1> QED
  BY <1>1, Zenon DEF require_active_consent, require_consent_not_withdrawn

LEMMA SettledStays ==
    ASSUME ConsentIInv, [ConsentNext]_consentVars, NEW k \in ConsentScopes, Settled(k)
    PROVE  Settled(k)'
<1>1. PICK t \in DOMAIN consent_tokens : FinallyRevoked(t, k)
  BY SettledMeans, Zenon DEF SettledIsRevoked
<1>2. FinallyRevoked(t, k)'
  BY <1>1, StaysRevoked, Zenon
<1> QED
  BY <1>2, SettledMeansNext, Zenon DEF FinallyRevoked, SettledIsRevoked

\* Withdrawal is final, whatever the scopes and however many requests overlap: a revoked
\* token that no earlier renewal is about to overwrite keeps the scope refused by
\* require_active_consent and require_consent_not_withdrawn for good.
THEOREM WithdrawalStands == ConsentSpec => WithdrawalIsFinal
<1>1. ConsentIInv /\ [ConsentNext]_consentVars =>
        [\A k \in ConsentScopes : Settled(k) =>
           Settled(k)' /\ require_active_consent(k)' = {"withdrawn"}
                       /\ require_consent_not_withdrawn(k)' = {"withdrawn"}]_consentVars
  <2> SUFFICES ASSUME ConsentIInv, [ConsentNext]_consentVars, NEW k \in ConsentScopes, Settled(k)
               PROVE  Settled(k)' /\ require_active_consent(k)' = {"withdrawn"}
                                  /\ require_consent_not_withdrawn(k)' = {"withdrawn"}
    BY Zenon
  <2>1. Settled(k)'
    BY SettledStays, Zenon
  <2>2. (Settled(k) => require_active_consent(k) = {"withdrawn"} /\ require_consent_not_withdrawn(k) = {"withdrawn"})'
    BY SettledIsWithdrawn, PTL
  <2> QED
    BY <2>1, <2>2, Zenon
<1> QED
  BY <1>1, ConsentInitInv, ConsentStepInv, PTL DEF ConsentSpec, WithdrawalIsFinal

-----------------------------------------------------------------------------
(* The phrases and the constraint functions agree.                          *)

\* The rows of a scope, whatever their status.
LEMMA SelectedScope ==
    ASSUME NEW k \in ConsentScopes
    PROVE  select(consent_tokens, [scope |-> k])
           = {t \in DOMAIN consent_tokens : consent_tokens[t].scope = k}
<1> DEFINE where == [scope |-> k]
<1>1. DOMAIN where = {"scope"} /\ where["scope"] = k /\ k # Null
  BY ConsentAssumption, Zenon
<1>2. ASSUME NEW t \in DOMAIN consent_tokens
      PROVE  Matches(consent_tokens[t], where) <=> consent_tokens[t].scope = k
  <2> HIDE DEF where
  <2> QED
    BY <1>1, Zenon DEF Matches
<1> QED
  BY <1>2, Zenon DEF select

\* The tokens of scope k that are in force.
TokenInForce(k) ==
    {t \in DOMAIN consent_tokens :
        /\ consent_tokens[t].scope = k /\ consent_tokens[t].status = "active"
        /\ ~Lapsed(consent_tokens[t])}

LEMMA ListedIsInForce ==
    ASSUME NEW k \in ConsentScopes
    PROVE  list_consent_tokens(k, "valid") = TokenInForce(k)
BY SelectedScope, Zenon DEF list_consent_tokens, TokenInForce

\* What select_one may answer: an id of a row with the scope and the status, or Null.
LEMMA OneActive ==
    ASSUME ConsentIInv, NEW k \in ConsentScopes
    PROVE  /\ \A t \in DOMAIN consent_tokens : t # Null
           /\ \A t \in select_one(consent_tokens, [scope |-> k, status |-> "active"]) \ {Null} :
                 /\ t \in DOMAIN consent_tokens
                 /\ consent_tokens[t].scope = k /\ consent_tokens[t].status = "active"
           /\ \A t \in TokenInForce(k) :
                 t \in select_one(consent_tokens, [scope |-> k, status |-> "active"])
<1>1. \A t \in DOMAIN consent_tokens : t # Null
  BY NullAssumption DEF ConsentIInv, Granted
<1>2. select(consent_tokens, [scope |-> k, status |-> "active"])
      = {t \in DOMAIN consent_tokens : consent_tokens[t].scope = k /\ consent_tokens[t].status = "active"}
  BY Selected, Zenon
<1> HIDE DEF select
<1> QED
  BY <1>1, <1>2, Zenon DEF select_one, TokenInForce

LEMMA PhrasesFindConsent ==
    ASSUME ConsentIInv, NEW k \in ConsentScopes
    PROVE  /\ ("ok" \in require_valid_consent(k)) <=> TokenInForce(k) # {}
           /\ (TRUE \in find_consent_token(k)) <=> TokenInForce(k) # {}
           /\ \A r \in ConsentScopes : (TRUE \in verify_consent_scope_covers(k, r))
                 <=> TokenInForce(k) # {} /\ scope_covers(k, r)
<1> DEFINE one == select_one(consent_tokens, [scope |-> k, status |-> "active"])
<1>1. TokenInForce(k) # {} <=> \E t \in one : t # Null /\ ~Lapsed(consent_tokens[t])
  BY OneActive, Zenon DEF TokenInForce
<1>2. require_valid_consent(k)
      = {IF t = Null \/ Lapsed(consent_tokens[t]) THEN "expired" ELSE "ok" : t \in one}
  BY Zenon DEF require_valid_consent
<1>3. find_consent_token(k) = {t # Null /\ ~Lapsed(consent_tokens[t]) : t \in one}
  BY Zenon DEF find_consent_token
<1>4. \A r \in ConsentScopes : verify_consent_scope_covers(k, r)
        = {t # Null /\ ~Lapsed(consent_tokens[t]) /\ scope_covers(k, r) : t \in one}
  BY Zenon DEF verify_consent_scope_covers
<1> HIDE DEF one
<1>5. ("ok" \in require_valid_consent(k)) <=> TokenInForce(k) # {}
  BY <1>1, <1>2, Zenon
<1>6. (TRUE \in find_consent_token(k)) <=> TokenInForce(k) # {}
  BY Zenon, <1>1, <1>3
<1>7. ASSUME NEW r \in ConsentScopes
      PROVE  (TRUE \in verify_consent_scope_covers(k, r)) <=> TokenInForce(k) # {} /\ scope_covers(k, r)
  BY Zenon, <1>1, <1>4
<1> QED
  BY <1>5, <1>6, <1>7, Zenon

LEMMA ConstraintsAgree ==
    ASSUME ConsentIInv, consentNow \in Nat, NEW k \in ConsentScopes,
           NEW t \in DOMAIN consent_tokens
    PROVE  LET row == consent_tokens[t]
           IN  (t \in TokenInForce(k)) <=>
                  \/ /\ consent_must_be_valid(row) /\ consent_must_not_be_expired(row)
                     /\ consent_must_not_be_withdrawn(row) /\ consent_scope_must_cover(row, k)
                  \/ row.scope = k /\ row.status = "active" /\ row.expires_at = consentNow
<1> DEFINE row == consent_tokens[t]
<1>0. row = consent_tokens[t]
  BY Zenon
<1> HIDE DEF row
<1>1. row \in Token
  BY <1>0, Zenon DEF ConsentIInv, Granted
<1>2. row.expires_at = Null \/ row.expires_at \in Nat
  BY <1>1, ConsentAssumption DEF Token, Expiries
<1>3. consentNow # Null
  BY NullAssumption
<1>4. ~Lapsed(row) <=> consent_must_not_be_expired(row) \/ row.expires_at = consentNow
  <2>1. CASE row.expires_at = Null
    BY <2>1, Zenon DEF Lapsed, consent_must_not_be_expired
  <2>2. CASE row.expires_at \in Nat
    BY <2>2, NullAssumption DEF Lapsed, consent_must_not_be_expired
  <2> QED
    BY <1>2, <2>1, <2>2, Zenon
<1>5. (t \in TokenInForce(k)) <=>
          \/ /\ consent_must_be_valid(row) /\ consent_must_not_be_expired(row)
             /\ consent_must_not_be_withdrawn(row) /\ consent_scope_must_cover(row, k)
          \/ row.scope = k /\ row.status = "active" /\ row.expires_at = consentNow
  BY <1>0, <1>4, Zenon DEF TokenInForce, consent_must_be_valid, consent_must_not_be_withdrawn,
     consent_scope_must_cover
<1> QED
  BY Zenon, <1>0, <1>5

LEMMA WithdrawalsAgree ==
    ASSUME NEW k \in ConsentScopes, "ok" \in require_active_consent(k)
    PROVE  /\ "ok" \in require_consent_not_withdrawn(k)
           /\ get_consent_history(k, FALSE) = get_consent_history(k, TRUE)
<1>1. ~Withdrawn(k)
  BY Zenon DEF require_active_consent
<1>2. \A t \in DOMAIN consent_tokens :
          consent_tokens[t].scope = k => consent_tokens[t].status # "revoked"
  BY <1>1, Selected, Zenon DEF Withdrawn
<1>3. \A t \in select(consent_tokens, [scope |-> k]) : consent_tokens[t].status # "revoked"
  BY <1>2, SelectedScope, Zenon
<1> QED
  BY <1>1, <1>3, Zenon DEF require_consent_not_withdrawn, get_consent_history

LEMMA NotExpiredAgrees ==
    ASSUME ConsentIInv, NEW k \in ConsentScopes, TokenInForce(k) # {}
    PROVE  "ok" \in require_consent_not_expired(k)
<1> DEFINE one == select_one(consent_tokens, [scope |-> k])
<1>1. PICK t \in TokenInForce(k) : TRUE
  BY Zenon
<1>2. t # Null /\ ~Lapsed(consent_tokens[t]) /\ consent_tokens[t].status # "expired"
  BY <1>1, OneActive, Zenon DEF TokenInForce
<1>3. t \in one
  BY <1>1, SelectedScope, Zenon DEF select_one, TokenInForce
<1>4. require_consent_not_expired(k)
      = {IF i = Null \/ Lapsed(consent_tokens[i]) \/ consent_tokens[i].status = "expired"
         THEN "expired" ELSE "ok" : i \in one}
  BY Zenon DEF require_consent_not_expired
<1> HIDE DEF one
<1> QED
  BY <1>2, <1>3, <1>4, Zenon

\* However grants, renewals and revocations interleave, the phrases that look for valid consent,
\* the listing of valid tokens, the constraint functions and the history give answers that agree,
\* the instant at which a token expires being the one case a constraint function refuses alone.
THEOREM ConsentAnswersAgree == ConsentSpec => []ConsentChecksAgree
<1> DEFINE Clock == consentNow \in Nat
<1>1. ConsentInit => Clock
  BY DEF ConsentInit
<1>2. Clock /\ [ConsentNext]_consentVars => Clock'
  <2>1. ConsentTick => consentNow' = consentNow + 1
    BY Zenon DEF ConsentTick
  <2>2. [ConsentNext]_consentVars => ConsentTick \/ consentNow' = consentNow
    BY Zenon DEF ConsentNext, consentVars, grant_consent_token, RevokeSelect, RenewSelect, ConsentUpdate
  <2> QED
    BY <2>1, <2>2
<1>3. ASSUME ConsentIInv, Clock PROVE ConsentChecksAgree
  <2>1. ASSUME NEW k \in ConsentScopes
        PROVE  /\ list_consent_tokens(k, "valid") = TokenInForce(k)
               /\ ("ok" \in require_valid_consent(k)) <=> TokenInForce(k) # {}
               /\ (TRUE \in find_consent_token(k)) <=> TokenInForce(k) # {}
               /\ \A r \in ConsentScopes : (TRUE \in verify_consent_scope_covers(k, r))
                     <=> TokenInForce(k) # {} /\ scope_covers(k, r)
               /\ TokenInForce(k) # {} => "ok" \in require_consent_not_expired(k)
    BY Zenon, <1>3, ListedIsInForce, PhrasesFindConsent, NotExpiredAgrees
  <2>2. ASSUME NEW k \in ConsentScopes, NEW t \in DOMAIN consent_tokens
        PROVE  (t \in TokenInForce(k)) <=>
                  \/ /\ consent_must_be_valid(consent_tokens[t])
                     /\ consent_must_not_be_expired(consent_tokens[t])
                     /\ consent_must_not_be_withdrawn(consent_tokens[t])
                     /\ consent_scope_must_cover(consent_tokens[t], k)
                  \/ /\ consent_tokens[t].scope = k /\ consent_tokens[t].status = "active"
                     /\ consent_tokens[t].expires_at = consentNow
    BY Zenon, <1>3, ConstraintsAgree
  <2>3. ASSUME NEW k \in ConsentScopes
        PROVE  LET valid == list_consent_tokens(k, "valid")
               IN  /\ ("ok" \in require_valid_consent(k)) <=> (valid # {})
                   /\ (TRUE \in find_consent_token(k)) <=> (valid # {})
                   /\ \A r \in ConsentScopes : (TRUE \in verify_consent_scope_covers(k, r))
                         <=> (valid # {} /\ scope_covers(k, r))
                   /\ (valid # {}) => ("ok" \in require_consent_not_expired(k))
    BY Zenon, <2>1
  <2>4. ASSUME NEW k \in ConsentScopes, NEW t \in DOMAIN consent_tokens
        PROVE  LET row == consent_tokens[t]
                   accepted == /\ consent_must_be_valid(row) /\ consent_must_not_be_expired(row)
                               /\ consent_must_not_be_withdrawn(row)
                               /\ consent_scope_must_cover(row, k)
               IN  (t \in list_consent_tokens(k, "valid")) <=>
                       (accepted \/ (row.scope = k /\ row.status = "active"
                                     /\ row.expires_at = consentNow))
    <3>1. list_consent_tokens(k, "valid") = TokenInForce(k)
      BY <2>1, Zenon
    <3> QED
      BY <2>2, <3>1
  <2>5. ASSUME NEW k \in ConsentScopes
        PROVE  ("ok" \in require_active_consent(k)) =>
                  /\ "ok" \in require_consent_not_withdrawn(k)
                  /\ get_consent_history(k, FALSE) = get_consent_history(k, TRUE)
    BY Zenon, WithdrawalsAgree
  <2> QED
    BY Zenon, <2>3, <2>4, <2>5 DEF ConsentChecksAgree
<1> QED
  BY <1>1, <1>2, <1>3, ConsentInitInv, ConsentStepInv, PTL DEF ConsentSpec

-----------------------------------------------------------------------------
(* Evidence packets.                                                        *)

SealHash == Packets \X CEPTypes \X Facts \X Nat

Maybe(S) == {NoValue} \cup {<<x>> : x \in S}

Packet ==
    [status : {"draft", "sealed"}, type : CEPTypes, facts : Facts, hash : SealHash, created : {<<t>> : t \in Nat},
     sealed : Maybe(Nat), signature : {NoValue} \cup (Packets \X SealHash \X Nat \X Nat), key : Maybe(Nat)]

Sealing == [at : {"update"}, id : Packets, hash : SealHash, time : Nat]

PacketTypes ==
    /\ now \in Nat
    /\ cep \in [Packets -> {Absent} \cup Packet]
    /\ seal \in [Sealers -> {NotSealing} \cup Sealing]

\* A row is what create_cep or the last UPDATE made of it.
Recorded(p) == cep[p] # Absent =>
    /\ cep[p].hash = PacketHash(p, cep[p].type, cep[p].facts, cep[p].created[1])
    /\ cep[p].created[1] <= now
    /\ cep[p].status = "sealed" <=> cep[p].sealed # NoValue
    /\ cep[p].sealed # NoValue =>
          /\ cep[p].created[1] <= cep[p].sealed[1] /\ cep[p].sealed[1] <= now
          /\ cep[p].signature = Signature(p, cep[p].hash, cep[p].key[1], cep[p].sealed[1])

\* A request works on a packet whose hash nobody changes any more.
Informed(c) == seal[c] # NotSealing =>
    /\ cep[seal[c].id] # Absent
    /\ seal[c].hash = cep[seal[c].id].hash
    /\ cep[seal[c].id].created[1] <= seal[c].time /\ seal[c].time <= now

\* The inductive invariant.
PacketIInv == PacketTypes /\ (\A p \in Packets : Recorded(p)) /\ (\A c \in Sealers : Informed(c))

-----------------------------------------------------------------------------
LEMMA PacketIsNotAbsent == \A r \in Packet : r # Absent
BY DEF Packet, Absent

LEMMA SealingIsNotIdle == \A k \in Sealing : k # NotSealing
BY DEF Sealing, NotSealing

LEMMA SomeValue == \A x : <<x>> # NoValue /\ <<x>>[1] = x
BY Zenon DEF NoValue

LEMMA PacketInitInv == PacketInit => PacketIInv
BY DEF PacketInit, PacketIInv, PacketTypes, Recorded, Informed

LEMMA CreateKeeps ==
    ASSUME PacketIInv, NEW p \in Packets, NEW t \in CEPTypes, NEW f \in Facts, create_cep(p, t, f)
    PROVE  PacketIInv'
<1> DEFINE row == [status |-> "draft", type |-> t, facts |-> f, hash |-> PacketHash(p, t, f, now), created |-> <<now>>,
                   sealed |-> NoValue, signature |-> NoValue, key |-> NoValue]
<1>1. /\ cep[p] = Absent /\ cep' = [cep EXCEPT ![p] = row] /\ UNCHANGED <<seal, now>>
      /\ now \in Nat /\ cep \in [Packets -> {Absent} \cup Packet] /\ seal \in [Sealers -> {NotSealing} \cup Sealing]
  BY Zenon DEF create_cep, PacketIInv, PacketTypes
<1>2. row \in Packet
  BY <1>1, Zenon DEF Packet, PacketHash, SealHash, Maybe
<1>3. PacketTypes'
  BY <1>1, <1>2, Zenon DEF PacketTypes
<1>4. \A q \in Packets : cep'[q] = IF q = p THEN row ELSE cep[q]
  BY <1>1, Zenon
<1>5. /\ row.hash = PacketHash(p, row.type, row.facts, row.created[1]) /\ row.created[1] = now
      /\ row.status = "draft" /\ row.sealed = NoValue
  BY SomeValue, Zenon
<1>6. ASSUME NEW q \in Packets PROVE Recorded(q)'
  <2>1. CASE q = p
    <3> HIDE DEF row
    <3>1. cep'[q] = row
      BY <1>4, <2>1, Zenon
    <3> QED
      BY <1>1, <1>5, <2>1, <3>1 DEF Recorded
  <2>2. CASE q # p
    BY <1>1, <1>4, <2>2, Zenon DEF PacketIInv, Recorded
  <2> QED
    BY <2>1, <2>2, Zenon
<1>7. ASSUME NEW c \in Sealers PROVE Informed(c)'
  <2>1. seal[c] # NotSealing => seal[c].id \in Packets /\ seal[c].id # p
    BY <1>1, Zenon DEF PacketIInv, Informed, Sealing
  <2> QED
    BY <1>1, <1>4, <2>1, Zenon DEF PacketIInv, Informed
<1> QED
  BY <1>3, <1>6, <1>7, Zenon DEF PacketIInv

LEMMA SelectKeeps ==
    ASSUME PacketIInv, NEW c \in Sealers, NEW p \in Packets, SealSelect(c, p)
    PROVE  PacketIInv'
<1> DEFINE k == [at |-> "update", id |-> p, hash |-> cep[p].hash, time |-> now]
<1>1. /\ cep[p].status = "draft" /\ seal' = [seal EXCEPT ![c] = k] /\ UNCHANGED <<cep, now>>
      /\ now \in Nat /\ cep \in [Packets -> {Absent} \cup Packet] /\ seal \in [Sealers -> {NotSealing} \cup Sealing]
  BY Zenon DEF SealSelect, PacketIInv, PacketTypes
<1>2. cep[p] # Absent /\ cep[p] \in Packet
  BY <1>1 DEF Absent
<1>3. k \in Sealing
  BY <1>1, <1>2, Zenon DEF Sealing, Packet
<1>4. PacketTypes' /\ \A d \in Sealers : seal'[d] = IF d = c THEN k ELSE seal[d]
  BY <1>1, <1>3, Zenon DEF PacketTypes
<1>5. \A q \in Packets : Recorded(q)'
  BY <1>1, Zenon DEF PacketIInv, Recorded
<1>6. cep[p].created[1] <= now
  BY <1>2, Zenon DEF PacketIInv, Recorded
<1>7. now <= now
  BY <1>1
<1>8. ASSUME NEW d \in Sealers PROVE Informed(d)'
  <2>1. CASE d = c
    <3>1. seal'[d] = k /\ k.id = p /\ k.hash = cep[p].hash /\ k.time = now
      BY <1>4, <2>1, Zenon
    <3> HIDE DEF k
    <3> QED
      BY <1>1, <1>2, <1>6, <1>7, <3>1, Zenon DEF Informed
  <2>2. CASE d # c
    BY <1>1, <1>4, <2>2, Zenon DEF PacketIInv, Informed
  <2> QED
    BY <2>1, <2>2, Zenon
<1> QED
  BY <1>4, <1>5, <1>8, Zenon DEF PacketIInv

\* The row after the UPDATE.
Sealed(r, s, t, k) == [r EXCEPT !.status = "sealed", !.sealed = <<t>>, !.key = <<k>>, !.signature = s]

IsSealed(u, r, s, t, k) ==
    /\ u \in Packet /\ u.status = "sealed" /\ u.sealed = <<t>> /\ u.key = <<k>> /\ u.signature = s
    /\ u.hash = r.hash /\ u.created = r.created /\ u.type = r.type /\ u.facts = r.facts

LEMMA SealedRow ==
    ASSUME NEW r \in Packet, NEW s \in Packets \X SealHash \X Nat \X Nat, NEW t \in Nat, NEW k \in Nat
    PROVE  IsSealed(Sealed(r, s, t, k), r, s, t, k)
BY Zenon DEF Packet, Sealed, Maybe, IsSealed

\* The last UPDATE wins with its own time, key and signature, and the hash all of them read.
LEMMA UpdateKeeps ==
    ASSUME PacketIInv, NEW c \in Sealers, SealUpdate(c)
    PROVE  PacketIInv'
<1> DEFINE k == seal[c]
<1> DEFINE p == k.id
<1> DEFINE s == Signature(p, k.hash, SigningKey(k.time), k.time)
<1> DEFINE row == Sealed(cep[p], s, k.time, SigningKey(k.time))
<1>1. /\ seal[c] # NotSealing /\ UNCHANGED now
      /\ cep' = [cep EXCEPT ![k.id].status = "sealed", ![k.id].sealed = <<k.time>>,
                            ![k.id].key = <<SigningKey(k.time)>>, ![k.id].signature = s]
      /\ seal' = [seal EXCEPT ![c] = NotSealing]
      /\ now \in Nat /\ cep \in [Packets -> {Absent} \cup Packet] /\ seal \in [Sealers -> {NotSealing} \cup Sealing]
  BY DEF SealUpdate, NotSealing, PacketIInv, PacketTypes
<1>2. k \in Sealing /\ p \in Packets /\ k.hash \in SealHash /\ k.time \in Nat
  BY <1>1, Zenon DEF Sealing
<1>3. /\ cep[p] # Absent /\ cep[p] \in Packet /\ k.hash = cep[p].hash
      /\ cep[p].created[1] <= k.time /\ k.time <= now
  BY <1>1, <1>2, Zenon DEF PacketIInv, Informed
<1>4. s \in Packets \X SealHash \X Nat \X Nat /\ SigningKey(k.time) = k.time
  BY <1>2, Zenon DEF Signature, SigningKey
<1>5. /\ row \in Packet /\ row.status = "sealed" /\ row.sealed = <<k.time>>
      /\ row.key = <<k.time>> /\ row.signature = s
      /\ row.hash = cep[p].hash /\ row.created = cep[p].created
      /\ row.type = cep[p].type /\ row.facts = cep[p].facts
  <2>1. SigningKey(k.time) \in Nat
    BY <1>2, <1>4, Zenon
  <2> HIDE DEF s
  <2>2. IsSealed(row, cep[p], s, k.time, SigningKey(k.time))
    BY <1>2, <1>3, <1>4, <2>1, SealedRow, Zenon
  <2> HIDE DEF row
  <2> QED
    BY <1>4, <2>2, Zenon DEF IsSealed
<1>6. cep' = [cep EXCEPT ![p] = row]
  <2> HIDE DEF s
  <2> QED
    BY <1>1, <1>2, Zenon DEF Sealed
<1>7. s = Signature(p, cep[p].hash, k.time, k.time)
  BY <1>3, <1>4, Zenon
<1> HIDE DEF row, s
<1>8. \A q \in Packets : cep'[q] = IF q = p THEN row ELSE cep[q]
  BY <1>1, <1>2, <1>6, Zenon
<1>9. PacketTypes'
  <2>1. cep' \in [Packets -> {Absent} \cup Packet]
    BY <1>1, <1>5, <1>6, Zenon
  <2> QED
    BY <1>1, <2>1, Zenon DEF PacketTypes
<1>10. row # Absent /\ row.sealed # NoValue /\ row.sealed[1] = k.time /\ row.key[1] = k.time
  BY <1>5, PacketIsNotAbsent, SomeValue, Zenon
<1>11. Recorded(p)
  BY <1>2, Zenon DEF PacketIInv
<1>12. ASSUME NEW q \in Packets PROVE Recorded(q)'
  <2>1. CASE q = p
    <3>1. cep'[q] = row
      BY <1>8, <2>1, Zenon
    <3>2. row.hash = PacketHash(q, row.type, row.facts, row.created[1])
      BY <1>3, <1>5, <1>11, <2>1, Zenon DEF Recorded
    <3>3. row.signature = Signature(q, row.hash, row.key[1], row.sealed[1])
      BY <1>5, <1>7, <1>10, <2>1, Zenon
    <3>4. row.created[1] <= k.time /\ k.time <= now
      BY <1>3, <1>5, Zenon
    <3>5. row.created[1] <= now
      BY <1>3, <1>5, <1>11, Zenon DEF Recorded
    <3> QED
      BY <1>1, <1>5, <1>10, <3>1, <3>2, <3>3, <3>4, <3>5, Zenon DEF Recorded
  <2>2. CASE q # p
    <3>1. cep'[q] = cep[q] /\ now' = now /\ Recorded(q)
      BY <1>1, <1>8, <2>2, Zenon DEF PacketIInv
    <3> QED
      BY <3>1, Zenon DEF Recorded
  <2> QED
    BY <2>1, <2>2, Zenon
<1>13. ASSUME NEW d \in Sealers PROVE Informed(d)'
  <2>1. seal'[d] = NotSealing \/ (seal'[d] = seal[d] /\ Informed(d))
    BY <1>1, Zenon DEF PacketIInv
  <2>2. CASE seal'[d] = NotSealing
    BY <2>2, Zenon DEF Informed
  <2>3. CASE seal'[d] # NotSealing
    <3>1. seal'[d] = seal[d] /\ Informed(d) /\ seal[d].id \in Packets
      BY <1>1, <2>1, <2>3, Zenon DEF Sealing
    <3>2. /\ cep'[seal[d].id] # Absent /\ cep'[seal[d].id].hash = cep[seal[d].id].hash
          /\ cep'[seal[d].id].created = cep[seal[d].id].created
      BY <1>5, <1>8, <1>10, <2>3, <3>1, Zenon DEF Informed
    <3> QED
      BY <1>1, <2>3, <3>1, <3>2, Zenon DEF Informed
  <2> QED
    BY <2>2, <2>3, Zenon
<1> QED
  BY <1>9, <1>12, <1>13, Zenon DEF PacketIInv

LEMMA DiesKeeps ==
    ASSUME PacketIInv, NEW c \in Sealers, SealDies(c)
    PROVE  PacketIInv'
<1>1. seal' = [seal EXCEPT ![c] = NotSealing] /\ UNCHANGED <<cep, now>>
  BY Zenon DEF SealDies
<1>2. PacketTypes' /\ \A q \in Packets : Recorded(q)'
  BY <1>1, Zenon DEF PacketIInv, PacketTypes, Recorded
<1>3. ASSUME NEW d \in Sealers PROVE Informed(d)'
  BY <1>1, Zenon DEF PacketIInv, PacketTypes, Informed
<1> QED
  BY <1>2, <1>3, Zenon DEF PacketIInv

LEMMA TimeKeeps ==
    ASSUME PacketIInv, Tick
    PROVE  PacketIInv'
<1>1. now' = now + 1 /\ now \in Nat /\ UNCHANGED <<cep, seal>> /\ PacketTypes'
  BY DEF Tick, PacketIInv, PacketTypes
<1>2. \A p \in Packets : cep[p] # Absent => cep[p] \in Packet
  BY Zenon DEF PacketIInv, PacketTypes
<1>3. \A r \in Packet : r.created[1] \in Nat /\ (r.sealed # NoValue => r.sealed[1] \in Nat)
  BY SomeValue DEF Packet, Maybe
<1>4. ASSUME NEW p \in Packets PROVE Recorded(p)'
  BY <1>1, <1>2, <1>3 DEF PacketIInv, Recorded
<1>5. ASSUME NEW c \in Sealers PROVE Informed(c)'
  <2>1. seal[c] # NotSealing => seal[c].time \in Nat
    BY Zenon DEF PacketIInv, PacketTypes, Sealing
  <2> QED
    BY <1>1, <2>1 DEF PacketIInv, Informed
<1> QED
  BY <1>1, <1>4, <1>5, Zenon DEF PacketIInv

LEMMA PacketStep == PacketIInv /\ [PacketNext]_packetVars => PacketIInv'
<1> SUFFICES ASSUME PacketIInv, [PacketNext]_packetVars PROVE PacketIInv'
  BY Zenon
<1>1. CASE UNCHANGED packetVars
  BY <1>1, Zenon DEF packetVars, PacketIInv, PacketTypes, Recorded, Informed
<1>2. CASE PacketNext
  BY <1>2, CreateKeeps, SelectKeeps, UpdateKeeps, DiesKeeps, TimeKeeps, Zenon DEF PacketNext
<1> QED
  BY <1>1, <1>2, Zenon

\* What verify_cep_reference accepts carries a seal for what was referenced, for any number
\* of packets and of seal_cep requests that overlap or die between their two statements.
THEOREM ReferenceSealed == PacketSpec => []ReferenceIsSealed
<1>1. PacketIInv => ReferenceIsSealed
  <2> SUFFICES ASSUME PacketIInv, NEW p \in Packets, cep[p] # Absent, cep[p].status = "sealed"
               PROVE  /\ verify_cep_sealed(p) /\ require_cep_hash_match(p, cep[p].hash)
                      /\ cep[p].hash = PacketHash(p, cep[p].type, cep[p].facts, cep[p].created[1])
                      /\ cep[p].signature = Signature(p, cep[p].hash, cep[p].key[1], cep[p].sealed[1])
    BY Zenon DEF ReferenceIsSealed, verify_cep_reference
  <2> QED
    BY Zenon DEF PacketIInv, Recorded, verify_cep_sealed, require_cep_hash_match
<1> QED
  BY <1>1, PacketInitInv, PacketStep, PTL DEF PacketSpec

\* seal_cep keeps the columns of a packet in step: a seal exactly when the status says so, and
\* a sealing time between creation and now.
THEOREM SealInStep == PacketSpec => []PacketTypeOK
<1>1. PacketIInv => PacketTypeOK
  BY PacketIsNotAbsent, Zenon DEF PacketIInv, PacketTypes, Packet, PacketTypeOK, Recorded
<1> QED
  BY <1>1, PacketInitInv, PacketStep, PTL DEF PacketSpec

\* Once verify_cep_not_expired rejects a sealed packet nobody is sealing, no sequence of
\* create_cep and seal_cep calls makes it valid again, whatever the validity periods.
THEOREM ExpiryIsFinal == PacketSpec => ExpiredStaysExpired
<1> DEFINE Stays == \A p \in Packets : SealLapsed(p) => SealLapsed(p)'
<1>1. PacketIInv /\ [PacketNext]_packetVars => [Stays]_packetVars
  <2> SUFFICES ASSUME PacketIInv, PacketNext, NEW p \in Packets, SealLapsed(p) PROVE SealLapsed(p)'
    BY Zenon
  <2>1. /\ cep[p] # Absent /\ cep[p] \in Packet /\ cep[p].status = "sealed" /\ cep[p].sealed # NoValue
        /\ ~(now <= ExpiresAt(p)) /\ \A c \in Sealers : seal[c] # NotSealing => seal[c].id # p
    BY Zenon DEF PacketIInv, PacketTypes, SealLapsed, verify_cep_sealed, verify_cep_not_expired
  <2>2. now \in Nat /\ ExpiresAt(p) \in Nat
    <3>1. cep[p].sealed[1] \in Nat /\ Validity[cep[p].type] \in Nat
      BY <2>1, SomeValue, PacketAssumption DEF Packet, Maybe
    <3> QED
      BY <2>1, <3>1 DEF PacketIInv, PacketTypes, ExpiresAt
  <2>3. ASSUME cep'[p] = cep[p], now' \in Nat, now <= now',
               \A c \in Sealers : seal'[c] # NotSealing => seal'[c].id # p
        PROVE  SealLapsed(p)'
    <3>1. ExpiresAt(p)' = ExpiresAt(p)
      BY <2>3, Zenon DEF ExpiresAt
    <3> QED
      BY <2>1, <2>2, <2>3, <3>1 DEF SealLapsed, verify_cep_sealed, verify_cep_not_expired
  <2>4. /\ cep \in [Packets -> {Absent} \cup Packet] /\ seal \in [Sealers -> {NotSealing} \cup Sealing]
        /\ now <= now
    BY <2>2 DEF PacketIInv, PacketTypes
  <2>5. ASSUME NEW q \in Packets, NEW t \in CEPTypes, NEW f \in Facts, create_cep(q, t, f) PROVE SealLapsed(p)'
    <3>1. q # p /\ cep'[p] = cep[p] /\ UNCHANGED <<seal, now>>
      BY <2>1, <2>4, <2>5, Zenon DEF create_cep
    <3> QED
      BY <2>1, <2>2, <2>3, <2>4, <3>1, Zenon
  <2>6. ASSUME NEW c \in Sealers, NEW q \in Packets, SealSelect(c, q) PROVE SealLapsed(p)'
    <3>1. q # p /\ UNCHANGED <<cep, now>>
      BY <2>1, <2>6, Zenon DEF SealSelect
    <3>2. \A d \in Sealers : seal'[d] # NotSealing => seal'[d].id # p
      BY <2>1, <2>4, <2>6, <3>1, Zenon DEF SealSelect
    <3> QED
      BY <2>2, <2>3, <2>4, <3>1, <3>2, Zenon
  <2>7. ASSUME NEW c \in Sealers, SealUpdate(c) PROVE SealLapsed(p)'
    <3>1. seal[c] # NotSealing /\ seal[c].id # p
      BY <2>1, <2>7 DEF SealUpdate, NotSealing
    <3>2. cep'[p] = cep[p] /\ UNCHANGED now
      BY <2>4, <2>7, <3>1, Zenon DEF SealUpdate
    <3>3. \A d \in Sealers : seal'[d] # NotSealing => seal'[d].id # p
      BY <2>1, <2>4, <2>7, Zenon DEF SealUpdate
    <3> QED
      BY <2>2, <2>3, <2>4, <3>2, <3>3, Zenon
  <2>8. ASSUME NEW c \in Sealers, SealDies(c) PROVE SealLapsed(p)'
    <3>1. \A d \in Sealers : seal'[d] # NotSealing => seal'[d].id # p
      BY <2>1, <2>4, <2>8, Zenon DEF SealDies
    <3> QED
      BY <2>2, <2>3, <2>4, <2>8, <3>1, Zenon DEF SealDies
  <2>9. CASE Tick
    <3>1. now' \in Nat /\ now <= now' /\ UNCHANGED <<cep, seal>>
      BY <2>2, <2>9 DEF Tick
    <3> QED
      BY <2>1, <2>3, <3>1, Zenon
  <2> QED
    BY <2>5, <2>6, <2>7, <2>8, <2>9, Zenon DEF PacketNext
<1> QED
  BY <1>1, PacketInitInv, PacketStep, PTL DEF PacketSpec, ExpiredStaysExpired

-----------------------------------------------------------------------------
(* The charters of a tenant.                                                 *)

CharterRow == [status : {"draft", "ratified", "active", "suspended", "retired", "superseded"}]

Binding == [charter : Nat, requirements : SUBSET Gates]

CharterRequest ==
    {CharterIdle} \cup [at : {"ratify"}, id : Nat] \cup [at : {"active"}, id : Nat, pkg : {"charter", "core"}]
    \cup [at : {"retire"}, id : Nat, pkg : {"charter", "core"}, others : SUBSET Nat]
    \cup [at : {"bind"}, row : Binding]

\* What a request is about to write names charters of the table.
NamesCharters(r, ids) ==
    /\ r.at \in {"ratify", "active", "retire"} => r.id \in ids
    /\ r.at = "retire" => r.others \subseteq ids

CharterTypes ==
    /\ \E n \in Nat : charters \in [1..n -> CharterRow]
    /\ bindings \subseteq Binding
    /\ charterReq \in [CharterClients -> CharterRequest]
    /\ charterCut \in BOOLEAN
    /\ \A c \in CharterClients : NamesCharters(charterReq[c], DOMAIN charters)

HadCharter == \E id \in DOMAIN charters : charters[id].status \in {"active", "suspended", "retired", "superseded"}

HasCharter == \E id \in DOMAIN charters : InForce(id)

\* While no charter is in force, the activation that retired the last one is under way.
Survives == ~charterCut /\ HadCharter => HasCharter \/ \E c \in CharterClients : charterReq[c].at = "retire"

\* The inductive invariant.
CharterIInv == CharterTypes /\ Survives

-----------------------------------------------------------------------------
LEMMA CharterInitInv == CharterInit => CharterIInv
<1> SUFFICES ASSUME CharterInit PROVE CharterIInv
  BY Zenon
<1>1. charters \in [1..0 -> CharterRow] /\ DOMAIN charters = {}
  BY DEF CharterInit
<1>2. CharterTypes
  BY <1>1, Zenon DEF CharterInit, CharterTypes, CharterRequest, NamesCharters, CharterIdle
<1>3. Survives
  BY <1>1, Zenon DEF Survives, HadCharter
<1> QED
  BY <1>2, <1>3, Zenon DEF CharterIInv

\* Charter id of the table T with n rows gets status s.
Restated(n, T, U, id, s) ==
    /\ n \in Nat /\ T \in [1..n -> CharterRow] /\ id \in 1..n
    /\ s \in {"draft", "ratified", "active", "suspended", "retired", "superseded"}
    /\ U = [T EXCEPT ![id].status = s]

LEMMA StatusChanges ==
    ASSUME NEW n, NEW T, NEW U, NEW id, NEW s, Restated(n, T, U, id, s)
    PROVE  U \in [1..n -> CharterRow] /\ \A j \in 1..n : U[j].status = IF j = id THEN s ELSE T[j].status
<1>1. [T[id] EXCEPT !.status = s] \in CharterRow /\ [T[id] EXCEPT !.status = s].status = s
  BY Zenon DEF Restated, CharterRow
<1> QED
  BY <1>1, Zenon DEF Restated

\* A request moves, what it is about to write named in the table.
LEMMA CharterRequestMoves ==
    ASSUME CharterTypes, NEW c \in CharterClients, NEW r \in CharterRequest, NamesCharters(r, DOMAIN charters),
           charterReq' = [charterReq EXCEPT ![c] = r], DOMAIN charters' = DOMAIN charters
    PROVE  /\ charterReq' \in [CharterClients -> CharterRequest]
           /\ \A d \in CharterClients : charterReq'[d] = IF d = c THEN r ELSE charterReq[d]
           /\ \A d \in CharterClients : NamesCharters(charterReq'[d], DOMAIN charters')
<1>1. /\ charterReq' \in [CharterClients -> CharterRequest]
      /\ \A d \in CharterClients : charterReq'[d] = IF d = c THEN r ELSE charterReq[d]
  BY Zenon DEF CharterTypes
<1> QED
  BY <1>1, Zenon DEF CharterTypes

\* A request that only reads: no charter changes, and no activation ends.
LEMMA CharterReads ==
    ASSUME CharterIInv, NEW c \in CharterClients, NEW r \in CharterRequest, NamesCharters(r, DOMAIN charters),
           charterReq' = [charterReq EXCEPT ![c] = r], charterReq[c].at # "retire",
           UNCHANGED <<charters, charterCut>>, bindings' \subseteq Binding
    PROVE  CharterIInv'
<1>1. CharterTypes'
  BY CharterRequestMoves, Zenon DEF CharterIInv, CharterTypes
<1>2. \A d \in CharterClients : charterReq[d].at = "retire" => charterReq'[d].at = "retire"
  BY CharterRequestMoves, Zenon DEF CharterIInv
<1>3. HadCharter' = HadCharter /\ HasCharter' = HasCharter
  BY Zenon DEF HadCharter, HasCharter, InForce
<1> QED
  BY <1>1, <1>2, <1>3, Zenon DEF CharterIInv, Survives

LEMMA CreateCharter == ASSUME CharterIInv, create_charter PROVE CharterIInv'
<1>1. PICK n \in Nat : charters \in [1..n -> CharterRow]
  BY Zenon DEF CharterIInv, CharterTypes
<1>2. NextId(charters) = n + 1
  BY <1>1, NextIdIs, Zenon
<1> DEFINE row == [status |-> "draft"]
<1>3. charters' = [i \in DOMAIN charters \cup {n + 1} |-> IF i = n + 1 THEN row ELSE charters[i]]
  BY <1>2, Zenon DEF create_charter, insert
<1>4. DOMAIN charters \cup {n + 1} = 1..(n + 1) /\ row \in CharterRow
  BY <1>1 DEF CharterRow
<1>5. charters' \in [1..(n + 1) -> CharterRow] /\ charters'[n + 1].status = "draft"
      /\ \A i \in 1..n : charters'[i] = charters[i]
  BY <1>1, <1>3, <1>4
<1>6. DOMAIN charters \subseteq DOMAIN charters' /\ UNCHANGED <<bindings, charterReq, charterCut>>
  BY <1>1, <1>5 DEF create_charter
<1>7. CharterTypes'
  <2>1. \A c \in CharterClients : NamesCharters(charterReq'[c], DOMAIN charters')
    BY <1>6, Zenon DEF CharterIInv, CharterTypes, NamesCharters
  <2> QED
    BY <1>5, <1>6, <2>1 DEF CharterIInv, CharterTypes
<1>8. HadCharter' => HadCharter
  BY <1>1, <1>5 DEF HadCharter
<1>9. HasCharter => HasCharter'
  BY <1>1, <1>5 DEF HasCharter, InForce
<1> QED
  BY <1>6, <1>7, <1>8, <1>9, Zenon DEF CharterIInv, Survives

\* A charter gets another status while no request moves.
LEMMA CharterSuspended ==
    ASSUME CharterIInv, NEW id \in DOMAIN charters, charter_suspended(id)
    PROVE  CharterIInv'
<1>1. PICK n \in Nat : charters \in [1..n -> CharterRow]
  BY Zenon DEF CharterIInv, CharterTypes
<1>2. charters' \in [1..n -> CharterRow] /\ id \in 1..n /\ charters'[id].status = "suspended"
  <2>1. Restated(n, charters, charters', id, "suspended") /\ id \in 1..n
    BY <1>1, Zenon DEF Restated, charter_suspended
  <2> QED
    BY <2>1, StatusChanges
<1>3. CharterTypes'
  BY <1>1, <1>2, Zenon DEF CharterIInv, CharterTypes, charter_suspended
<1>4. HasCharter'
  BY <1>2, Zenon DEF HasCharter, InForce
<1> QED
  BY <1>3, <1>4, Zenon DEF CharterIInv, Survives

LEMMA Ratified == ASSUME CharterIInv, NEW c \in CharterClients, RatifyUpdate(c) PROVE CharterIInv'
<1>1. PICK n \in Nat : charters \in [1..n -> CharterRow]
  BY Zenon DEF CharterIInv, CharterTypes
<1> DEFINE id == charterReq[c].id
<1>2. id \in 1..n
  BY <1>1, Zenon DEF RatifyUpdate, CharterIInv, CharterTypes, NamesCharters
<1>3. /\ charters' \in [1..n -> CharterRow]
      /\ \A j \in 1..n : charters'[j].status = IF j = id THEN "ratified" ELSE charters[j].status
  <2>1. Restated(n, charters, charters', id, "ratified")
    BY <1>1, <1>2, Zenon DEF Restated, RatifyUpdate
  <2> QED
    BY <2>1, StatusChanges
<1>4. CharterIdle \in CharterRequest /\ NamesCharters(CharterIdle, DOMAIN charters)
  BY Zenon DEF CharterRequest, NamesCharters, CharterIdle
<1>5. /\ charterReq' = [charterReq EXCEPT ![c] = CharterIdle] /\ charterReq[c].at # "retire"
      /\ bindings' = bindings /\ charterCut' \in BOOLEAN
      /\ ~charterCut' => ~charterCut /\ charters[id].status = "draft"
  BY Zenon DEF RatifyUpdate, CharterIInv, CharterTypes
<1>6. DOMAIN charters' = DOMAIN charters
  BY <1>1, <1>3, Zenon
<1>7. CharterTypes'
  BY <1>3, <1>4, <1>5, <1>6, CharterRequestMoves, Zenon DEF CharterIInv, CharterTypes
<1>8. \A d \in CharterClients : charterReq[d].at = "retire" => charterReq'[d].at = "retire"
  BY <1>4, <1>5, <1>6, CharterRequestMoves, Zenon DEF CharterIInv
<1>9. charters[id].status = "draft" => (HadCharter' => HadCharter) /\ (HasCharter => HasCharter')
  BY <1>1, <1>2, <1>3, Zenon DEF HadCharter, HasCharter, InForce
<1> QED
  BY <1>5, <1>7, <1>8, <1>9, Zenon DEF CharterIInv, Survives

LEMMA Retired == ASSUME CharterIInv, NEW c \in CharterClients, RetireUpdate(c) PROVE CharterIInv'
<1>1. PICK n \in Nat : charters \in [1..n -> CharterRow]
  BY Zenon DEF CharterIInv, CharterTypes
<1>2. PICK o \in charterReq[c].others :
          /\ charters' = [charters EXCEPT ![o].status = Replaced(charterReq[c].pkg)]
          /\ charterReq' = [charterReq EXCEPT ![c].others = @ \ {o}]
  BY Zenon DEF RetireUpdate
<1> DEFINE r == [charterReq[c] EXCEPT !.others = @ \ {o}]
<1>3. charterReq[c] \in [at : {"retire"}, id : Nat, pkg : {"charter", "core"}, others : SUBSET Nat]
  <2>1. charterReq[c] \in CharterRequest /\ charterReq[c].at = "retire"
    BY Zenon DEF RetireUpdate, CharterIInv, CharterTypes
  <2> QED
    BY <2>1 DEF CharterRequest, CharterIdle
<1>4. o \in 1..n /\ charterReq[c].id \in DOMAIN charters /\ charterReq[c].others \subseteq DOMAIN charters
  BY <1>1, <1>3, Zenon DEF CharterIInv, CharterTypes, NamesCharters
<1>5. charters' \in [1..n -> CharterRow]
  <2>1. Restated(n, charters, charters', o, Replaced(charterReq[c].pkg))
    BY <1>1, <1>2, <1>4, Zenon DEF Restated, Replaced
  <2> QED
    BY <2>1, StatusChanges
<1>6. r \in [at : {"retire"}, id : Nat, pkg : {"charter", "core"}, others : SUBSET Nat]
      /\ r.at = "retire" /\ r.id = charterReq[c].id /\ r.others \subseteq charterReq[c].others
  BY <1>3, Zenon
<1>7. r \in CharterRequest /\ NamesCharters(r, DOMAIN charters)
  BY <1>4, <1>6, Zenon DEF CharterRequest, NamesCharters
<1>8. charterReq' = [charterReq EXCEPT ![c] = r] /\ DOMAIN charters' = DOMAIN charters
      /\ bindings' = bindings /\ charterCut' = charterCut
  BY <1>1, <1>2, <1>5, Zenon DEF RetireUpdate
<1> HIDE DEF r
<1>9. CharterTypes'
  BY <1>5, <1>7, <1>8, CharterRequestMoves, Zenon DEF CharterIInv, CharterTypes
<1>10. charterReq'[c].at = "retire"
  BY <1>6, <1>7, <1>8, CharterRequestMoves, Zenon DEF CharterIInv
<1> QED
  BY <1>9, <1>10, Zenon DEF CharterIInv, Survives

LEMMA Activated == ASSUME CharterIInv, NEW c \in CharterClients, ActivateUpdate(c) PROVE CharterIInv'
<1>1. PICK n \in Nat : charters \in [1..n -> CharterRow]
  BY Zenon DEF CharterIInv, CharterTypes
<1> DEFINE id == charterReq[c].id
<1>2. id \in 1..n
  BY <1>1, Zenon DEF ActivateUpdate, CharterIInv, CharterTypes, NamesCharters
<1>3. charters' \in [1..n -> CharterRow] /\ charters'[id].status = "active"
  <2>1. Restated(n, charters, charters', id, "active")
    BY <1>1, <1>2, Zenon DEF Restated, ActivateUpdate
  <2> QED
    BY <1>2, <2>1, StatusChanges
<1>4. CharterIdle \in CharterRequest /\ NamesCharters(CharterIdle, DOMAIN charters)
  BY Zenon DEF CharterRequest, NamesCharters, CharterIdle
<1>5. charterReq' = [charterReq EXCEPT ![c] = CharterIdle] /\ UNCHANGED <<bindings, charterCut>>
      /\ DOMAIN charters' = DOMAIN charters
  BY <1>1, <1>3, Zenon DEF ActivateUpdate
<1>6. CharterTypes'
  BY <1>3, <1>4, <1>5, CharterRequestMoves, Zenon DEF CharterIInv, CharterTypes
<1>7. HasCharter'
  BY <1>2, <1>3, Zenon DEF HasCharter, InForce
<1> QED
  BY <1>6, <1>7, Zenon DEF CharterIInv, Survives

LEMMA CharterCutOff == ASSUME CharterIInv, NEW c \in CharterClients, ActivateAbort(c) PROVE CharterIInv'
<1>1. CharterIdle \in CharterRequest /\ NamesCharters(CharterIdle, DOMAIN charters)
  BY Zenon DEF CharterRequest, NamesCharters, CharterIdle
<1>2. CharterTypes' /\ charterCut'
  BY <1>1, CharterRequestMoves, Zenon DEF CharterIInv, CharterTypes, ActivateAbort
<1> QED
  BY <1>2, Zenon DEF CharterIInv, Survives

LEMMA CharterReaders ==
    ASSUME CharterIInv, NEW c \in CharterClients,
           \/ \E id \in DOMAIN charters : RatifySelect(c, id)
           \/ \E id \in DOMAIN charters, pkg \in {"charter", "core"} : ActivateSelect(c, pkg, id)
           \/ ActivateSelectActive(c)
           \/ \E id \in DOMAIN charters, q \in SUBSET Gates : BindSelect(c, id, q)
           \/ BindInsert(c)
    PROVE  CharterIInv'
<1>1. DOMAIN charters \subseteq Nat /\ bindings \subseteq Binding /\ charterReq[c] \in CharterRequest
      /\ NamesCharters(charterReq[c], DOMAIN charters)
  BY DEF CharterIInv, CharterTypes
<1>2. CharterIdle.at # "retire"
  BY Zenon DEF CharterIdle
<1>3. ASSUME NEW id \in DOMAIN charters, RatifySelect(c, id) PROVE CharterIInv'
  <2> DEFINE r == [at |-> "ratify", id |-> id]
  <2>1. r \in CharterRequest /\ NamesCharters(r, DOMAIN charters)
    BY <1>1, Zenon DEF CharterRequest, NamesCharters
  <2> QED
    BY <1>1, <1>2, <1>3, <2>1, CharterReads, Zenon DEF RatifySelect
<1>4. ASSUME NEW id \in DOMAIN charters, NEW pkg \in {"charter", "core"}, ActivateSelect(c, pkg, id) PROVE CharterIInv'
  <2> DEFINE r == [at |-> "active", id |-> id, pkg |-> pkg]
  <2>1. r \in CharterRequest /\ NamesCharters(r, DOMAIN charters)
    BY <1>1, Zenon DEF CharterRequest, NamesCharters
  <2> QED
    BY <1>1, <1>2, <1>4, <2>1, CharterReads, Zenon DEF ActivateSelect
<1>5. CASE ActivateSelectActive(c)
  <2> DEFINE q == charterReq[c]
             r == [at |-> "retire", id |-> q.id, pkg |-> q.pkg,
                   others |-> select(charters, [status |-> "active"]) \ {q.id}]
  <2>1. q.at = "active"
    BY <1>5, Zenon DEF ActivateSelectActive
  <2>2. q \in [at : {"active"}, id : Nat, pkg : {"charter", "core"}] /\ q.id \in DOMAIN charters
    BY <1>1, <2>1 DEF CharterRequest, CharterIdle, NamesCharters
  <2>3. select(charters, [status |-> "active"]) \ {q.id} \subseteq DOMAIN charters
    BY Zenon DEF select
  <2>4. r \in CharterRequest /\ NamesCharters(r, DOMAIN charters)
    BY <1>1, <2>2, <2>3, Zenon DEF CharterRequest, NamesCharters
  <2>5. charterReq' = [charterReq EXCEPT ![c] = r] /\ UNCHANGED <<charters, bindings, charterCut>>
    BY <1>5, Zenon DEF ActivateSelectActive
  <2> QED
    BY <1>1, <2>1, <2>4, <2>5, CharterReads, Zenon
<1>6. ASSUME NEW id \in DOMAIN charters, NEW q \in SUBSET Gates, BindSelect(c, id, q) PROVE CharterIInv'
  <2> DEFINE r == [at |-> "bind", row |-> [charter |-> id, requirements |-> q]]
  <2>1. r \in CharterRequest /\ NamesCharters(r, DOMAIN charters)
    BY <1>1, Zenon DEF CharterRequest, NamesCharters, Binding
  <2> QED
    BY <1>1, <1>2, <1>6, <2>1, CharterReads, Zenon DEF BindSelect
<1>7. CASE BindInsert(c)
  <2>1. charterReq[c].at = "bind" /\ charterReq[c].row \in Binding
    BY <1>1, <1>7 DEF BindInsert, CharterRequest, CharterIdle
  <2>2. CharterIdle \in CharterRequest /\ NamesCharters(CharterIdle, DOMAIN charters)
    BY Zenon DEF CharterRequest, NamesCharters, CharterIdle
  <2> QED
    BY <1>1, <1>7, <2>1, <2>2, CharterReads, Zenon DEF BindInsert
<1> QED
  BY <1>3, <1>4, <1>5, <1>6, <1>7, Zenon

LEMMA CharterStep == CharterIInv /\ [CharterNext \/ BindingNext]_charterVars => CharterIInv'
<1> SUFFICES ASSUME CharterIInv, [CharterNext \/ BindingNext]_charterVars PROVE CharterIInv'
  BY Zenon
<1>1. CASE UNCHANGED charterVars
  BY <1>1, Zenon DEF charterVars, CharterIInv, CharterTypes, Survives, HadCharter, HasCharter, InForce
<1>2. CASE CharterNext
  BY <1>2, CreateCharter, CharterSuspended, CharterReaders, Retired, Activated, Ratified, CharterCutOff, Zenon DEF CharterNext
<1>3. CASE BindingNext
  BY <1>3, CreateCharter, CharterReaders, Activated, Zenon DEF BindingNext
<1> QED
  BY <1>1, <1>2, <1>3, Zenon

LEMMA CharterSurvives == CharterIInv => ActiveCharterSurvives
<1> SUFFICES ASSUME CharterIInv, \A c \in CharterClients : charterReq[c] = CharterIdle, ~charterCut
             PROVE  /\ (\E id \in get_charter_history :
                           get_charter_by_id(id) \in {"active", "suspended", "retired", "superseded"})
                          => \E id \in DOMAIN charters : InForce(id)
                    /\ resolve_charter = {Null} => \A id \in DOMAIN charters : charters[id].status # "active"
  BY Zenon DEF ActiveCharterSurvives
<1>1. \A c \in CharterClients : charterReq[c].at # "retire"
  BY DEF CharterIdle
<1>2. HadCharter => HasCharter
  BY <1>1, Zenon DEF CharterIInv, Survives
<1>3. ASSUME NEW id \in DOMAIN charters, charters[id].status = "active" PROVE resolve_charter # {Null}
  <2> DEFINE where == [status |-> "active"]
  <2>1. Null \notin DOMAIN charters
    BY NullAssumption DEF CharterIInv, CharterTypes
  <2>2. DOMAIN where = {"status"} /\ where["status"] = "active" /\ where.status = "active"
    BY Zenon
  <2>3. Matches(charters[id], where)
    BY <1>3, <2>2, TenantAssumption, Zenon DEF Matches
  <2>4. id \in select(charters, where) /\ Null \notin select(charters, where)
    BY <2>1, <2>3, Zenon DEF select
  <2> HIDE DEF where
  <2>5. select(charters, where) # {} /\ select(charters, where) # {Null}
    BY <2>4, Zenon
  <2> QED
    BY <2>5, Zenon DEF resolve_charter, where
<1> QED
  BY <1>2, <1>3, Zenon DEF HadCharter, HasCharter, get_charter_history, get_charter_by_id

\* What is not known to be true blocks.
LEMMA UnknownBlocks ==
    ASSUME NEW known \in SUBSET Gates, NEW facts \in [known -> BOOLEAN], NEW S \in SUBSET Gates
    PROVE  Blocking(S, facts) = Blocking(S, [g \in Gates |-> g \in known /\ facts[g]])
BY Zenon DEF Blocking

\* A fact that becomes true blocks nothing.
LEMMA TruthUnblocks ==
    ASSUME NEW known \in SUBSET Gates, NEW facts \in [known -> BOOLEAN], NEW g \in Gates, NEW S \in SUBSET Gates
    PROVE  Blocking(S, Established(facts, g)) \subseteq Blocking(S, facts)
<1> DEFINE more == Established(facts, g)
<1>1. DOMAIN more = known \cup {g} /\ \A x \in known : x # g => more[x] = facts[x]
  BY Zenon DEF Established
<1>2. more[g]
  BY Zenon DEF Established
<1> HIDE DEF more
<1>3. Blocking(S, more) \subseteq Blocking(S, facts)
  BY <1>1, <1>2, Zenon DEF Blocking
<1> QED
  BY <1>3, Zenon DEF more

LEMMA DecisionsAreMonotone == CharterIInv => DecisionsMonotone
<1> SUFFICES ASSUME CharterIInv, NEW id \in DOMAIN charters, NEW constraints \in SUBSET Gates,
                    NEW known \in SUBSET Gates, NEW facts \in [known -> BOOLEAN]
             PROVE  /\ evaluate_decision(id, constraints, facts)
                       = evaluate_decision(id, constraints, [g \in Gates |-> g \in known /\ facts[g]])
                    /\ \A g \in Gates : "allowed" \in evaluate_decision(id, constraints, facts) =>
                          "allowed" \in evaluate_decision(id, constraints, Established(facts, g))
  BY Zenon DEF DecisionsMonotone
<1>1. \A b \in bindings : b.requirements \in SUBSET Gates
  BY Zenon DEF CharterIInv, CharterTypes, Binding
<1>2. evaluate_decision(id, constraints, facts)
      = evaluate_decision(id, constraints, [g \in Gates |-> g \in known /\ facts[g]])
  <2> DEFINE total == [g \in Gates |-> g \in known /\ facts[g]]
  <2>1. \A S \in SUBSET Gates : Blocking(S, facts) = Blocking(S, total)
    BY UnknownBlocks, Zenon
  <2> HIDE DEF total
  <2>2. evaluate_decision(id, constraints, facts) = evaluate_decision(id, constraints, total)
    BY <1>1, <2>1, Zenon DEF evaluate_decision
  <2> QED
    BY <2>2, Zenon DEF total
<1>3. ASSUME NEW g \in Gates, "allowed" \in evaluate_decision(id, constraints, facts)
      PROVE  "allowed" \in evaluate_decision(id, constraints, Established(facts, g))
  <2> DEFINE more == Established(facts, g)
  <2>1. \A S \in SUBSET Gates : Blocking(S, facts) = {} => Blocking(S, more) = {}
    BY TruthUnblocks, Zenon
  <2>2. PICK b \in bindings : b.charter = id /\ Blocking(constraints, facts) = {} /\ Blocking(b.requirements, facts) = {}
    BY <1>3, Zenon DEF evaluate_decision
  <2>3. ~(charters[id].status # "active" \/ ~\E x \in bindings : x.charter = id)
    BY <1>3, Zenon DEF evaluate_decision
  <2> HIDE DEF more
  <2>4. Blocking(constraints, more) = {} /\ Blocking(b.requirements, more) = {}
    BY <1>1, <2>1, <2>2, Zenon
  <2>5. "allowed" \in evaluate_decision(id, constraints, more)
    BY <2>2, <2>3, <2>4, Zenon DEF evaluate_decision
  <2> QED
    BY <2>5, Zenon DEF more
<1> QED
  BY <1>2, <1>3, Zenon

\* However the activations of both packages overlap, and for any number of charters and requests,
\* a tenant that had a charter in force keeps one unless an activation was cut off or a
\* ratification overwrote a newer status: what retires the last charter in force goes on to
\* activate its own.  And a fact that becomes true never turns evaluate_decision's permission
\* into a refusal.
THEOREM RulesStayInForce == CharterSpec => []RulesInForce
<1>1. CharterInit => CharterIInv
  BY CharterInitInv, Zenon
<1>2. CharterIInv /\ [CharterNext \/ BindingNext]_charterVars => CharterIInv'
  BY CharterStep, Zenon
<1>3. CharterIInv => RulesInForce
  BY CharterSurvives, DecisionsAreMonotone, Zenon DEF RulesInForce
<1> QED
  BY <1>1, <1>2, <1>3, PTL DEF CharterSpec

-----------------------------------------------------------------------------
(* Workflow runs.                                                            *)

RunRow == [status : {"pending", "running", "failed", "completed"}, completed_at : {Null, "now"}]

RunRequest == {WorkflowIdle} \cup [at : {"created", "update", "completed"}, run : Nat]

Finished(T, run) == T[run].status = "completed" /\ T[run].completed_at # Null

\* What a request is about to write, or to record, is about a run of the table T; what
\* it is about to record as completed is.
RunKnown(r, T) ==
    /\ r.at \in {"created", "update", "completed"} => r.run \in DOMAIN T
    /\ r.at = "completed" => Finished(T, r.run)

RowWritten(e, T) == e.run \in DOMAIN T /\ (e.type = "completed" => Finished(T, e.run))

\* The inductive invariant.
WorkflowIInv ==
    /\ \E n \in Nat : workflow_runs \in [1..n -> RunRow]
    /\ workflowReq \in [WorkflowClients -> RunRequest]
    /\ \A c \in WorkflowClients : RunKnown(workflowReq[c], workflow_runs)
    /\ \A e \in runEvidence : RowWritten(e, workflow_runs)

\* No statement takes a run away or makes a completed one incomplete.
RunsKept(T, U) == DOMAIN T \subseteq DOMAIN U /\ \A run \in DOMAIN T : Finished(T, run) => Finished(U, run)

-----------------------------------------------------------------------------
LEMMA WorkflowInitInv == WorkflowInit => WorkflowIInv
<1> SUFFICES ASSUME WorkflowInit PROVE WorkflowIInv
  BY Zenon
<1>1. workflow_runs \in [1..0 -> RunRow]
  BY DEF WorkflowInit
<1> QED
  BY <1>1, Zenon DEF WorkflowInit, WorkflowIInv, RunRequest, RunKnown, WorkflowIdle

\* The facts about requests and evidence survive every statement on the table.
LEMMA RunFactsKept ==
    ASSUME WorkflowIInv, NEW U, RunsKept(workflow_runs, U)
    PROVE  /\ \A c \in WorkflowClients : RunKnown(workflowReq[c], U)
           /\ \A e \in runEvidence : RowWritten(e, U)
BY Zenon DEF WorkflowIInv, RunKnown, RowWritten, RunsKept

\* A statement of request c on the table, after which it is at r.
LEMMA RunStatement ==
    ASSUME WorkflowIInv, NEW c \in WorkflowClients, NEW r \in RunRequest, NEW n \in Nat,
           workflow_runs' \in [1..n -> RunRow], RunsKept(workflow_runs, workflow_runs'),
           workflowReq' = [workflowReq EXCEPT ![c] = r], RunKnown(r, workflow_runs'),
           runEvidence' = runEvidence
    PROVE  WorkflowIInv'
<1>1. /\ workflowReq' \in [WorkflowClients -> RunRequest]
      /\ \A d \in WorkflowClients : workflowReq'[d] = IF d = c THEN r ELSE workflowReq[d]
  BY Zenon DEF WorkflowIInv
<1>2. /\ \A d \in WorkflowClients : RunKnown(workflowReq[d], workflow_runs')
      /\ \A e \in runEvidence : RowWritten(e, workflow_runs')
  BY RunFactsKept, Zenon
<1>3. \A d \in WorkflowClients : RunKnown(workflowReq'[d], workflow_runs')
  BY <1>1, <1>2, Zenon
<1> QED
  BY <1>1, <1>2, <1>3, Zenon DEF WorkflowIInv

\* A request that leaves the table alone.
LEMMA RunRead ==
    ASSUME WorkflowIInv, NEW c \in WorkflowClients, NEW r \in RunRequest, RunKnown(r, workflow_runs),
           workflowReq' = [workflowReq EXCEPT ![c] = r], UNCHANGED <<workflow_runs, runEvidence>>
    PROVE  WorkflowIInv'
<1>1. PICK n \in Nat : workflow_runs \in [1..n -> RunRow]
  BY Zenon DEF WorkflowIInv
<1>2. RunsKept(workflow_runs, workflow_runs)
  BY Zenon DEF RunsKept
<1> QED
  BY <1>1, <1>2, RunStatement, Zenon

LEMMA RunCreated == ASSUME WorkflowIInv, NEW c \in WorkflowClients, create_workflow_run(c) PROVE WorkflowIInv'
<1>1. PICK n \in Nat : workflow_runs \in [1..n -> RunRow]
  BY Zenon DEF WorkflowIInv
<1>2. NextId(workflow_runs) = n + 1
  BY <1>1, NextIdIs, Zenon
<1> DEFINE row == [status |-> "pending", completed_at |-> Null]
           r == [at |-> "created", run |-> n + 1]
<1>3. /\ workflow_runs' = [i \in DOMAIN workflow_runs \cup {n + 1} |-> IF i = n + 1 THEN row ELSE workflow_runs[i]]
      /\ workflowReq' = [workflowReq EXCEPT ![c] = r] /\ runEvidence' = runEvidence
  BY <1>2, Zenon DEF create_workflow_run, insert, Then
<1>4. DOMAIN workflow_runs \cup {n + 1} = 1..(n + 1) /\ row \in RunRow /\ n + 1 \in Nat /\ r \in RunRequest
  BY <1>1 DEF RunRow, RunRequest
<1>5. workflow_runs' \in [1..(n + 1) -> RunRow] /\ \A i \in 1..n : workflow_runs'[i] = workflow_runs[i]
  BY <1>1, <1>3, <1>4
<1>6. RunsKept(workflow_runs, workflow_runs')
  BY <1>1, <1>5 DEF RunsKept, Finished
<1>7. RunKnown(r, workflow_runs')
  BY <1>4, <1>5, Zenon DEF RunKnown
<1> HIDE DEF r
<1> QED
  BY <1>3, <1>4, <1>5, <1>6, <1>7, RunStatement, Zenon

LEMMA RunCompleted == ASSUME WorkflowIInv, NEW c \in WorkflowClients, CompleteUpdate(c) PROVE WorkflowIInv'
<1>1. PICK n \in Nat : workflow_runs \in [1..n -> RunRow]
  BY Zenon DEF WorkflowIInv
<1> DEFINE run == workflowReq[c].run
           row == [status |-> "completed", completed_at |-> "now"]
           r == [at |-> "completed", run |-> run]
<1>2. /\ workflow_runs' = [workflow_runs EXCEPT ![run] = row] /\ run \in 1..n
      /\ workflowReq' = [workflowReq EXCEPT ![c] = r] /\ runEvidence' = runEvidence
  BY <1>1, Zenon DEF CompleteUpdate, Then, WorkflowIInv, RunKnown
<1>3. row \in RunRow /\ r \in RunRequest /\ r.at = "completed" /\ r.run = run
  BY <1>2 DEF RunRow, RunRequest
<1>4. row.status = "completed" /\ row.completed_at # Null
  BY RunAssumption, Zenon
<1> HIDE DEF r, row
<1>5. workflow_runs' \in [1..n -> RunRow] /\ \A i \in 1..n : workflow_runs'[i] = IF i = run THEN row ELSE workflow_runs[i]
  BY <1>1, <1>2, <1>3, Zenon
<1>6. Finished(workflow_runs', run)
  BY <1>2, <1>4, <1>5, Zenon DEF Finished
<1>7. RunsKept(workflow_runs, workflow_runs')
  BY <1>1, <1>5, <1>6, Zenon DEF RunsKept, Finished
<1>8. RunKnown(r, workflow_runs')
  BY <1>2, <1>3, <1>5, <1>6, Zenon DEF RunKnown
<1> QED
  BY <1>2, <1>3, <1>5, <1>7, <1>8, RunStatement, Zenon

LEMMA RunChanged ==
    ASSUME WorkflowIInv, NEW run \in DOMAIN workflow_runs, NEW s \in {"running", "failed"}, run_status_changed(run, s)
    PROVE  WorkflowIInv'
<1>1. PICK n \in Nat : workflow_runs \in [1..n -> RunRow]
  BY Zenon DEF WorkflowIInv
<1> DEFINE row == [workflow_runs[run] EXCEPT !.status = s]
<1>2. /\ workflow_runs' = [workflow_runs EXCEPT ![run] = row] /\ UNCHANGED <<runEvidence, workflowReq>>
      /\ workflow_runs[run].status # "completed"
  BY Zenon DEF run_status_changed
<1>3. row \in RunRow
  BY <1>1 DEF RunRow
<1> HIDE DEF row
<1>4. workflow_runs' \in [1..n -> RunRow] /\ \A i \in 1..n : i # run => workflow_runs'[i] = workflow_runs[i]
  BY <1>1, <1>2, <1>3, Zenon
<1>5. RunsKept(workflow_runs, workflow_runs')
  BY <1>1, <1>2, <1>4, Zenon DEF RunsKept, Finished
<1> QED
  BY <1>2, <1>4, <1>5, RunFactsKept, Zenon DEF WorkflowIInv

\* Evidence is added.
LEMMA RunRecorded ==
    ASSUME WorkflowIInv, NEW e, RowWritten(e, workflow_runs), runEvidence' = runEvidence \cup {e},
           workflow_runs' = workflow_runs, workflowReq' \in [WorkflowClients -> RunRequest],
           \A c \in WorkflowClients : workflowReq'[c] \in {workflowReq[c], WorkflowIdle}
    PROVE  WorkflowIInv'
<1>1. RunKnown(WorkflowIdle, workflow_runs)
  BY Zenon DEF RunKnown, WorkflowIdle
<1>2. \A c \in WorkflowClients : RunKnown(workflowReq'[c], workflow_runs')
  BY <1>1, Zenon DEF WorkflowIInv
<1> QED
  BY <1>2, Zenon DEF WorkflowIInv

LEMMA WorkflowStep == WorkflowIInv /\ [WorkflowNext]_workflowVars => WorkflowIInv'
<1> SUFFICES ASSUME WorkflowIInv, [WorkflowNext]_workflowVars PROVE WorkflowIInv'
  BY Zenon
<1>1. CASE UNCHANGED workflowVars
  BY <1>1, Zenon DEF workflowVars, WorkflowIInv
<1>2. WorkflowIdle \in RunRequest /\ RunKnown(WorkflowIdle, workflow_runs)
  BY Zenon DEF RunRequest, RunKnown, WorkflowIdle
<1>3. ASSUME NEW c \in WorkflowClients, WorkflowAbort(c) PROVE WorkflowIInv'
  BY <1>2, <1>3, RunRead, Zenon DEF WorkflowAbort
<1>4. ASSUME NEW c \in WorkflowClients, SaveRunEvidence(c) PROVE WorkflowIInv'
  <2> DEFINE e == [type |-> workflowReq[c].at, run |-> workflowReq[c].run]
  <2>1. RowWritten(e, workflow_runs)
    BY <1>4, Zenon DEF SaveRunEvidence, WorkflowIInv, RunKnown, RowWritten
  <2>2. runEvidence' = runEvidence \cup {e} /\ workflow_runs' = workflow_runs
    BY <1>4, Zenon DEF SaveRunEvidence
  <2>3. /\ workflowReq' \in [WorkflowClients -> RunRequest]
        /\ \A d \in WorkflowClients : workflowReq'[d] \in {workflowReq[d], WorkflowIdle}
    BY <1>2, <1>4, Zenon DEF SaveRunEvidence, WorkflowIInv
  <2> HIDE DEF e
  <2> QED
    BY <2>1, <2>2, <2>3, RunRecorded, Zenon
<1>5. ASSUME NEW c \in WorkflowClients, NEW run \in DOMAIN workflow_runs, CompleteSelect(c, run) PROVE WorkflowIInv'
  <2> DEFINE r == [at |-> "update", run |-> run]
  <2>1. r \in RunRequest /\ RunKnown(r, workflow_runs)
    BY DEF RunRequest, RunKnown, WorkflowIInv
  <2>2. workflowReq' = [workflowReq EXCEPT ![c] = r] /\ UNCHANGED <<workflow_runs, runEvidence>>
    BY <1>5, Zenon DEF CompleteSelect, Then
  <2> HIDE DEF r
  <2> QED
    BY <2>1, <2>2, RunRead, Zenon
<1>6. ASSUME NEW run \in DOMAIN workflow_runs, NEW t \in {"step", "vendor"},
             runEvidence' = runEvidence \cup {[type |-> t, run |-> run]}, UNCHANGED <<workflow_runs, workflowReq>>
      PROVE  WorkflowIInv'
  <2> DEFINE e == [type |-> t, run |-> run]
  <2>1. RowWritten(e, workflow_runs) /\ runEvidence' = runEvidence \cup {e}
    BY <1>6, Zenon DEF RowWritten
  <2>2. workflowReq' \in [WorkflowClients -> RunRequest]
    BY <1>6, Zenon DEF WorkflowIInv
  <2> HIDE DEF e
  <2> QED
    BY <1>6, <2>1, <2>2, RunRecorded, Zenon
<1>7. ASSUME NEW run \in DOMAIN workflow_runs, record_workflow_step(run) \/ record_vendor_call(run) PROVE WorkflowIInv'
  BY <1>6, <1>7, Zenon DEF record_workflow_step, record_vendor_call
<1>8. CASE WorkflowNext
  BY <1>3, <1>4, <1>5, <1>7, <1>8, RunCreated, RunCompleted, RunChanged, Zenon DEF WorkflowNext
<1> QED
  BY <1>1, <1>8, Zenon

\* Evidence about workflow runs never runs ahead of the row it is about, for any number of runs
\* and requests: every phrase writes the row before it saves the evidence, and no statement
\* makes a completed run incomplete.
THEOREM EvidenceFollows == WorkflowSpec => []EvidenceFollowsRun
<1>1. WorkflowInit => WorkflowIInv
  BY WorkflowInitInv, Zenon
<1>2. WorkflowIInv /\ [WorkflowNext]_workflowVars => WorkflowIInv'
  BY WorkflowStep, Zenon
<1>3. WorkflowIInv => EvidenceFollowsRun
  BY Zenon DEF WorkflowIInv, RowWritten, Finished, EvidenceFollowsRun, require_workflow_complete
<1> QED
  BY <1>1, <1>2, <1>3, PTL DEF WorkflowSpec

-----------------------------------------------------------------------------
(* Decision certificates.                                                    *)

CertColumns ==
    {"status", "gates_passed", "evidence_ids", "attestations", "minted_at", "validation_hash",
     "content_hash", "supersedes_id", "signature", "signed_at"}

Covers(row, id) ==
    (row.validation_hash # Null /\ row.validation_hash[1] = "mint") =>
        row.validation_hash = MintHash(id, row.gates_passed, row.evidence_ids, row.attestations)

Signed(row) == row.signature # Null => row.signature = Hash("sign", <<HashToSign(row), row.signed_at>>)

NotOfColumns(h) == h # Null => \A x : h # Hash("columns", x)

\* A certificate that may still be minted has a content hash, so that minting it does not
\* change what was signed.
Effective(row) ==
    /\ row.status = "minted" => row.minted_at # Null
    /\ row.status \in {"provisional", "gated"} => row.content_hash # Null

\* The row of id by itself, and in the table T.
CertRowFact(row, id) ==
    DOMAIN row = CertColumns /\ Covers(row, id) /\ Signed(row) /\ NotOfColumns(row.content_hash) /\ Effective(row)

HasSuccessor(T, id) == \E s \in DOMAIN T : T[s].supersedes_id = id

CertLinks(T, id) ==
    /\ T[id].supersedes_id # Null =>
          T[id].supersedes_id \in DOMAIN T /\ T[id].supersedes_id < id /\ T[T[id].supersedes_id].minted_at # Null
    /\ T[id].status = "superseded" => HasSuccessor(T, id)

\* The successor a request is about to insert.
Successor(row, id) ==
    /\ DOMAIN row = CertColumns /\ row.status = "minted" /\ row.minted_at # Null
    /\ row.signature = Null /\ row.supersedes_id = id
    /\ row.validation_hash[1] # "mint" /\ NotOfColumns(row.content_hash)

\* What a request knows of the row it is about to write, whatever was written meanwhile.
CertKnows(r, T) ==
    /\ r.at \in {"mint", "insert", "supersede", "sign"} => r.id \in DOMAIN T
    /\ r.at = "mint" =>
          /\ T[r.id].content_hash # Null
          /\ r.data.status = "minted" /\ r.data.minted_at # Null
          /\ r.data.validation_hash = MintHash(r.id, T[r.id].gates_passed, T[r.id].evidence_ids, r.data.attestations)
    /\ r.at = "insert" => Successor(r.row, r.id) /\ T[r.id].minted_at # Null
    /\ r.at = "supersede" => HasSuccessor(T, r.id)
    /\ r.at = "sign" => r.data.signature = Hash("sign", <<HashToSign(T[r.id]), r.data.signed_at>>)

CertTable(T) ==
    /\ \E n \in Nat : DOMAIN T = 1..n
    /\ T = [i \in DOMAIN T |-> T[i]]
    /\ \A id \in DOMAIN T : CertRowFact(T[id], id) /\ CertLinks(T, id)

\* The inductive invariant.
CertIInv ==
    /\ certNow \in Int
    /\ CertTable(decision_certificates)
    /\ DOMAIN certReq = CertClients /\ certReq = [c \in CertClients |-> certReq[c]]
    /\ \A c \in CertClients : CertKnows(certReq[c], decision_certificates)

\* What no statement changes of the rows of T: what hashes cover, that a certificate was
\* minted, and which one it supersedes.
CertKept(T, U) ==
    /\ DOMAIN T \subseteq DOMAIN U
    /\ \A id \in DOMAIN T :
          /\ U[id].gates_passed = T[id].gates_passed /\ U[id].evidence_ids = T[id].evidence_ids
          /\ U[id].content_hash = T[id].content_hash /\ HashToSign(U[id]) = HashToSign(T[id])
          /\ U[id].supersedes_id = T[id].supersedes_id
          /\ T[id].minted_at # Null => U[id].minted_at # Null

-----------------------------------------------------------------------------
LEMMA CertInitInv == CertInit => CertIInv
<1> SUFFICES ASSUME CertInit PROVE CertIInv
  BY Zenon
<1>1. DOMAIN decision_certificates = 1..0 /\ DOMAIN decision_certificates = {}
      /\ decision_certificates = [i \in {} |-> decision_certificates[i]]
  BY DEF CertInit
<1>2. CertTable(decision_certificates)
  BY <1>1, Zenon DEF CertTable
<1> QED
  BY <1>2 DEF CertInit, CertIInv, CertKnows, CertIdle

LEMMA CertKnowsKept ==
    ASSUME NEW r, NEW T, NEW U, CertKnows(r, T), CertKept(T, U)
    PROVE  CertKnows(r, U)
<1>1. ASSUME r.at \in {"mint", "insert", "supersede", "sign"} PROVE r.id \in DOMAIN T /\ r.id \in DOMAIN U
  BY <1>1, Zenon DEF CertKnows, CertKept
<1>2. HasSuccessor(T, r.id) => HasSuccessor(U, r.id)
  BY Zenon DEF HasSuccessor, CertKept
<1> QED
  BY <1>1, <1>2, Zenon DEF CertKnows, CertKept

LEMMA CertLinksKept ==
    ASSUME NEW T, NEW U, CertKept(T, U), NEW id \in DOMAIN T, CertLinks(T, id),
           U[id].status = "superseded" => T[id].status = "superseded" \/ HasSuccessor(T, id)
    PROVE  CertLinks(U, id)
<1>1. HasSuccessor(T, id) => HasSuccessor(U, id)
  BY Zenon DEF HasSuccessor, CertKept
<1>2. U[id].supersedes_id = T[id].supersedes_id /\ DOMAIN T \subseteq DOMAIN U
  BY Zenon DEF CertKept
<1>3. ASSUME T[id].supersedes_id # Null PROVE U[T[id].supersedes_id].minted_at # Null
  BY <1>3, Zenon DEF CertKept, CertLinks
<1> QED
  BY <1>1, <1>2, <1>3, Zenon DEF CertLinks

\* A row is appended.
LEMMA CertInserted ==
    ASSUME NEW T, CertTable(T), NEW row, NEW U, U = insert(T, NextId(T), row),
           CertRowFact(row, NextId(T)), row.status # "superseded",
           row.supersedes_id # Null => row.supersedes_id \in DOMAIN T /\ T[row.supersedes_id].minted_at # Null
    PROVE  CertTable(U) /\ CertKept(T, U) /\ NextId(T) \in DOMAIN U /\ U[NextId(T)] = row
<1>1. PICK n \in Nat : DOMAIN T = 1..n
  BY Zenon DEF CertTable
<1>2. NextId(T) = n + 1
  BY <1>1, NextIdIs, Zenon
<1>3. DOMAIN U = 1..(n + 1) /\ U = [i \in DOMAIN U |-> U[i]] /\ U[n + 1] = row /\ \A i \in 1..n : U[i] = T[i]
  <2>1. DOMAIN T \cup {n + 1} = 1..(n + 1)
    BY <1>1
  <2>2. U = [i \in 1..(n + 1) |-> IF i = n + 1 THEN row ELSE T[i]]
    BY <1>2, <2>1, Zenon DEF insert
  <2> QED
    BY <2>2
<1>4. CertKept(T, U)
  BY <1>1, <1>3 DEF CertKept
<1>5. ASSUME NEW i \in DOMAIN T PROVE CertRowFact(U[i], i) /\ CertLinks(U, i)
  <2>1. U[i] = T[i] /\ CertRowFact(T[i], i) /\ CertLinks(T, i)
    BY <1>1, <1>3, Zenon DEF CertTable
  <2> QED
    BY <1>4, <2>1, CertLinksKept, Zenon
<1>6. CertRowFact(U[n + 1], n + 1) /\ CertLinks(U, n + 1)
  <2>1. CertRowFact(U[n + 1], n + 1)
    BY <1>2, <1>3, Zenon
  <2>2. ASSUME row.supersedes_id # Null
        PROVE  row.supersedes_id \in DOMAIN U /\ row.supersedes_id < n + 1 /\ U[row.supersedes_id].minted_at # Null
    BY <1>1, <1>3, <2>2
  <2> QED
    BY <1>3, <2>1, <2>2, Zenon DEF CertLinks
<1>7. n + 1 \in Nat /\ \A i \in DOMAIN U : i \in DOMAIN T \/ i = n + 1
  BY <1>1, <1>3
<1>8. CertTable(U)
  BY <1>3, <1>5, <1>6, <1>7, Zenon DEF CertTable
<1> QED
  BY <1>2, <1>3, <1>4, <1>8

\* A row is written over.
LEMMA CertUpdated ==
    ASSUME NEW T, CertTable(T), NEW id \in DOMAIN T, NEW row, NEW U, U = [T EXCEPT ![id] = row],
           CertRowFact(row, id),
           row.gates_passed = T[id].gates_passed, row.evidence_ids = T[id].evidence_ids,
           row.content_hash = T[id].content_hash, HashToSign(row) = HashToSign(T[id]),
           row.supersedes_id = T[id].supersedes_id, T[id].minted_at # Null => row.minted_at # Null,
           row.status = "superseded" => T[id].status = "superseded" \/ HasSuccessor(T, id)
    PROVE  CertTable(U) /\ CertKept(T, U)
<1>1. DOMAIN U = DOMAIN T /\ U = [i \in DOMAIN U |-> U[i]] /\ \A i \in DOMAIN T : U[i] = IF i = id THEN row ELSE T[i]
  BY Zenon DEF CertTable
<1>2. CertKept(T, U)
  BY <1>1, Zenon DEF CertKept
<1>3. ASSUME NEW i \in DOMAIN T PROVE CertRowFact(U[i], i) /\ CertLinks(U, i)
  <2>1. CertRowFact(T[i], i) /\ CertLinks(T, i)
    BY Zenon DEF CertTable
  <2>2. CertRowFact(U[i], i)
    BY <1>1, <2>1, Zenon
  <2>3. U[i].status = "superseded" => T[i].status = "superseded" \/ HasSuccessor(T, i)
    BY <1>1, Zenon
  <2> QED
    BY <1>2, <2>1, <2>2, <2>3, CertLinksKept, Zenon
<1> QED
  BY <1>1, <1>2, <1>3, Zenon DEF CertTable

\* A statement of request c, after which it is at r.
LEMMA CertStatement ==
    ASSUME CertIInv, NEW c \in CertClients, NEW r, certReq' = [certReq EXCEPT ![c] = r], certNow' = certNow,
           CertTable(decision_certificates'), CertKept(decision_certificates, decision_certificates'),
           CertKnows(r, decision_certificates')
    PROVE  CertIInv'
<1>1. /\ DOMAIN certReq' = CertClients /\ certReq' = [d \in CertClients |-> certReq'[d]]
      /\ \A d \in CertClients : certReq'[d] = IF d = c THEN r ELSE certReq[d]
  BY Zenon DEF CertIInv
<1>2. \A d \in CertClients : CertKnows(certReq[d], decision_certificates')
  BY CertKnowsKept, Zenon DEF CertIInv
<1>3. \A d \in CertClients : CertKnows(certReq'[d], decision_certificates')
  BY <1>1, <1>2, Zenon
<1> QED
  BY <1>1, <1>3, Zenon DEF CertIInv

LEMMA CertReads ==
    ASSUME CertIInv, NEW c \in CertClients, NEW r, certReq' = [certReq EXCEPT ![c] = r],
           UNCHANGED <<decision_certificates, certNow>>, CertKnows(r, decision_certificates)
    PROVE  CertIInv'
<1>1. CertKept(decision_certificates, decision_certificates) /\ CertTable(decision_certificates)
  BY Zenon DEF CertKept, CertIInv
<1> QED
  BY <1>1, CertStatement, Zenon

\* A row no request is about to write is appended.
LEMMA CertAppended ==
    ASSUME CertIInv, UNCHANGED <<certReq, certNow>>,
           CertTable(decision_certificates'), CertKept(decision_certificates, decision_certificates')
    PROVE  CertIInv'
<1>1. \A d \in CertClients : CertKnows(certReq[d], decision_certificates')
  BY CertKnowsKept, Zenon DEF CertIInv
<1> QED
  BY <1>1, Zenon DEF CertIInv

\* A new row as the phrases make it.
LEMMA NewCertRow ==
    ASSUME NEW st, NEW g, NEW e, NEW a, NEW m, NEW v, NEW h, NEW p
    PROVE  LET row == CertRow(st, g, e, a, m, v, h, p)
           IN  /\ DOMAIN row = CertColumns /\ row.status = st /\ row.gates_passed = g /\ row.evidence_ids = e
               /\ row.attestations = a /\ row.minted_at = m /\ row.validation_hash = v
               /\ row.content_hash = h /\ row.supersedes_id = p /\ row.signature = Null
BY Zenon DEF CertRow, CertColumns

LEMMA HashTags == \A t, x, u, y : Hash(t, x)[1] = t /\ (Hash(t, x) = Hash(u, y) => t = u)
BY Zenon DEF Hash

-----------------------------------------------------------------------------
\* emit_certificate and certify_decision
LEMMA CertEmitted ==
    ASSUME CertIInv, NEW gates, NEW evidence, emit_certificate(gates, evidence),
           Hash("content", <<gates, evidence>>) # Null
    PROVE  CertIInv'
<1> DEFINE T == decision_certificates
           h == Hash("content", <<gates, evidence>>)
           row == CertRow("provisional", gates, evidence, {}, Null, Null, h, Null)
<1>1. decision_certificates' = insert(T, NextId(T), row) /\ UNCHANGED <<certReq, certNow>>
  BY Zenon DEF emit_certificate, NewCert
<1>2. /\ DOMAIN row = CertColumns /\ row.status = "provisional" /\ row.validation_hash = Null
      /\ row.content_hash = h /\ row.supersedes_id = Null /\ row.signature = Null
  BY NewCertRow
<1>3. h # Null /\ NotOfColumns(h)
  BY HashTags, Zenon DEF NotOfColumns
<1> HIDE DEF row, h
<1>4. CertRowFact(row, NextId(T)) /\ row.status # "superseded"
  BY <1>2, <1>3, Zenon DEF CertRowFact, Covers, Signed, Effective
<1>5. CertTable(decision_certificates') /\ CertKept(T, decision_certificates')
  BY <1>1, <1>2, <1>4, CertInserted, Zenon DEF CertIInv
<1> QED
  BY <1>1, <1>5, CertAppended, Zenon

LEMMA CertCertified ==
    ASSUME CertIInv, NEW gates, NEW evidence, certify_decision(gates, evidence)
    PROVE  CertIInv'
<1> DEFINE T == decision_certificates
           h == Hash("decision", <<NextId(T), evidence, certNow>>)
           row == CertRow("minted", [g \in gates |-> TRUE], evidence, {}, certNow, h, h, Null)
<1>1. decision_certificates' = insert(T, NextId(T), row) /\ UNCHANGED <<certReq, certNow>>
  BY Zenon DEF certify_decision, NewCert
<1>2. /\ DOMAIN row = CertColumns /\ row.status = "minted" /\ row.validation_hash = h /\ row.minted_at = certNow
      /\ row.content_hash = h /\ row.supersedes_id = Null /\ row.signature = Null
  BY NewCertRow
<1>3. h[1] # "mint" /\ NotOfColumns(h) /\ certNow # Null
  BY HashTags, NullAssumption DEF NotOfColumns, CertIInv
<1> HIDE DEF row, h
<1>4. CertRowFact(row, NextId(T)) /\ row.status # "superseded"
  BY <1>2, <1>3, Zenon DEF CertRowFact, Covers, Signed, Effective
<1>5. CertTable(decision_certificates') /\ CertKept(T, decision_certificates')
  BY <1>1, <1>2, <1>4, CertInserted, Zenon DEF CertIInv
<1> QED
  BY <1>1, <1>5, CertAppended, Zenon

\* mint_certificate
LEMMA CertMintRead ==
    ASSUME CertIInv, NEW c \in CertClients, NEW id \in DOMAIN decision_certificates, NEW attested,
           MintSelect(c, id, attested)
    PROVE  CertIInv'
<1> DEFINE T == decision_certificates
           data == [status |-> "minted", minted_at |-> certNow, attestations |-> attested,
                    validation_hash |-> MintHash(id, T[id].gates_passed, T[id].evidence_ids, attested)]
           r == [at |-> "mint", id |-> id, data |-> data]
<1>1. certReq' = [certReq EXCEPT ![c] = r] /\ UNCHANGED <<decision_certificates, certNow>>
  BY Zenon DEF MintSelect
<1>2. T[id].content_hash # Null
  BY Zenon DEF MintSelect, CertIInv, CertTable, CertRowFact, Effective
<1>3. certNow # Null
  BY NullAssumption, Zenon DEF CertIInv
<1>4. /\ r.at = "mint" /\ r.id = id /\ r.data.status = "minted" /\ r.data.minted_at = certNow
      /\ r.data.validation_hash = MintHash(id, T[id].gates_passed, T[id].evidence_ids, r.data.attestations)
  BY Zenon
<1> HIDE DEF r
<1>5. CertKnows(r, T)
  BY <1>2, <1>3, <1>4, Zenon DEF CertKnows
<1> QED
  BY <1>1, <1>5, CertReads, Zenon

LEMMA CertMinted == ASSUME CertIInv, NEW c \in CertClients, MintUpdate(c) PROVE CertIInv'
<1> DEFINE T == decision_certificates
           id == certReq[c].id
           data == certReq[c].data
           row == [T[id] EXCEPT !.status = data.status, !.minted_at = data.minted_at,
                                !.attestations = data.attestations, !.validation_hash = data.validation_hash]
<1>1. /\ decision_certificates' = [T EXCEPT ![id] = row]
      /\ certReq' = [certReq EXCEPT ![c] = CertIdle] /\ certNow' = certNow
  BY Zenon DEF MintUpdate
<1>2. /\ id \in DOMAIN T /\ T[id].content_hash # Null /\ data.status = "minted" /\ data.minted_at # Null
      /\ data.validation_hash = MintHash(id, T[id].gates_passed, T[id].evidence_ids, data.attestations)
  BY Zenon DEF MintUpdate, CertIInv, CertKnows
<1>3. CertRowFact(T[id], id) /\ CertTable(T)
  BY <1>2, Zenon DEF CertIInv, CertTable
<1>4. /\ DOMAIN row = CertColumns /\ row.status = "minted" /\ row.minted_at = data.minted_at
      /\ row.attestations = data.attestations /\ row.validation_hash = data.validation_hash
      /\ row.gates_passed = T[id].gates_passed /\ row.evidence_ids = T[id].evidence_ids
      /\ row.content_hash = T[id].content_hash /\ row.supersedes_id = T[id].supersedes_id
      /\ row.signature = T[id].signature /\ row.signed_at = T[id].signed_at
  BY <1>2, <1>3, Zenon DEF CertRowFact, CertColumns
<1> HIDE DEF row
<1>5. HashToSign(row) = HashToSign(T[id])
  BY <1>2, <1>4, Zenon DEF HashToSign
<1> HIDE DEF T, id, data
<1>6. CertRowFact(row, id)
  <2>1. Covers(row, id)
    BY <1>2, <1>4, Zenon DEF Covers
  <2>2. Signed(row)
    BY <1>3, <1>4, <1>5, Zenon DEF CertRowFact, Signed
  <2> QED
    BY <1>2, <1>3, <1>4, <2>1, <2>2, Zenon DEF CertRowFact, Effective
<1>7. CertTable(decision_certificates') /\ CertKept(T, decision_certificates')
  BY <1>1, <1>2, <1>3, <1>4, <1>5, <1>6, CertUpdated, Zenon
<1> QED
  BY <1>1, <1>7, CertStatement, Zenon DEF CertKnows, CertIdle, T

\* supersede_certificate and revoke_certificate
LEMMA CertSupersedeRead ==
    ASSUME CertIInv, NEW c \in CertClients, NEW id \in DOMAIN decision_certificates,
           NEW tag \in {"supersede", "revoke"}, NEW evidence, SupersedeSelect(c, id, tag, evidence)
    PROVE  CertIInv'
<1> DEFINE T == decision_certificates
           h == Hash(tag, IF tag = "revoke" THEN <<id, certNow>> ELSE <<id, evidence>>)
           k == IF tag = "revoke" THEN h ELSE Null
           row == CertRow("minted", <<>>, evidence, {}, certNow, h, k, id)
           r == [at |-> "insert", id |-> id, row |-> row]
<1>1. certReq' = [certReq EXCEPT ![c] = r] /\ UNCHANGED <<decision_certificates, certNow>>
  BY Zenon DEF SupersedeSelect
<1>2. T[id].minted_at # Null
  BY Zenon DEF SupersedeSelect, CertIInv, CertTable, CertRowFact, Effective
<1>3. certNow # Null
  BY NullAssumption, Zenon DEF CertIInv
<1>4. h[1] # "mint" /\ NotOfColumns(k)
  BY HashTags, Zenon DEF NotOfColumns
<1>5. /\ DOMAIN row = CertColumns /\ row.status = "minted" /\ row.validation_hash = h /\ row.minted_at = certNow
      /\ row.content_hash = k /\ row.supersedes_id = id /\ row.signature = Null
  BY NewCertRow
<1>6. r.at = "insert" /\ r.id = id /\ r.row = row
  BY Zenon
<1> HIDE DEF r, row, k, h
<1>7. Successor(row, id)
  BY <1>3, <1>4, <1>5, Zenon DEF Successor
<1>8. CertKnows(r, T)
  BY <1>2, <1>6, <1>7, Zenon DEF CertKnows
<1> QED
  BY <1>1, <1>8, CertReads, Zenon

LEMMA CertSuccessorInserted == ASSUME CertIInv, NEW c \in CertClients, SupersedeInsert(c) PROVE CertIInv'
<1> DEFINE T == decision_certificates
           id == certReq[c].id
           row == certReq[c].row
           r == [at |-> "supersede", id |-> id]
<1>1. /\ decision_certificates' = insert(T, NextId(T), row)
      /\ certReq' = [certReq EXCEPT ![c] = r] /\ certNow' = certNow
  BY Zenon DEF SupersedeInsert, NewCert
<1>2. id \in DOMAIN T /\ Successor(row, id) /\ T[id].minted_at # Null /\ CertTable(T)
  BY Zenon DEF SupersedeInsert, CertIInv, CertKnows
<1>3. r.at = "supersede" /\ r.id = id
  BY Zenon
<1> HIDE DEF T, id, row, r
<1>4. CertRowFact(row, NextId(T)) /\ row.status # "superseded" /\ row.supersedes_id = id
  BY <1>2, Zenon DEF Successor, CertRowFact, Covers, Signed, Effective
<1>5. /\ CertTable(decision_certificates') /\ CertKept(T, decision_certificates')
      /\ NextId(T) \in DOMAIN decision_certificates' /\ decision_certificates'[NextId(T)] = row
  BY <1>1, <1>2, <1>4, CertInserted, Zenon
<1>6. HasSuccessor(decision_certificates', id) /\ id \in DOMAIN decision_certificates'
  BY <1>2, <1>4, <1>5, Zenon DEF HasSuccessor, CertKept
<1>7. CertKnows(r, decision_certificates')
  BY <1>3, <1>6, Zenon DEF CertKnows
<1> QED
  BY <1>1, <1>5, <1>7, CertStatement, Zenon DEF T

LEMMA CertSuperseded == ASSUME CertIInv, NEW c \in CertClients, SupersedeUpdate(c) PROVE CertIInv'
<1> DEFINE T == decision_certificates
           id == certReq[c].id
           row == [T[id] EXCEPT !.status = "superseded"]
<1>1. /\ decision_certificates' = [T EXCEPT ![id] = row]
      /\ certReq' = [certReq EXCEPT ![c] = CertIdle] /\ certNow' = certNow
  BY Zenon DEF SupersedeUpdate
<1>2. id \in DOMAIN T /\ HasSuccessor(T, id)
  BY Zenon DEF SupersedeUpdate, CertIInv, CertKnows
<1>3. CertRowFact(T[id], id) /\ CertTable(T)
  BY <1>2, Zenon DEF CertIInv, CertTable
<1>4. /\ DOMAIN row = CertColumns /\ row.status = "superseded" /\ row.minted_at = T[id].minted_at
      /\ row.attestations = T[id].attestations /\ row.validation_hash = T[id].validation_hash
      /\ row.gates_passed = T[id].gates_passed /\ row.evidence_ids = T[id].evidence_ids
      /\ row.content_hash = T[id].content_hash /\ row.supersedes_id = T[id].supersedes_id
      /\ row.signature = T[id].signature /\ row.signed_at = T[id].signed_at
  BY <1>2, <1>3, Zenon DEF CertRowFact, CertColumns
<1> HIDE DEF row
<1>5. HashToSign(row) = HashToSign(T[id])
  BY <1>4, Zenon DEF HashToSign
<1> HIDE DEF T, id
<1>6. CertRowFact(row, id)
  <2>1. Covers(row, id)
    BY <1>3, <1>4, Zenon DEF CertRowFact, Covers
  <2>2. Signed(row)
    BY <1>3, <1>4, <1>5, Zenon DEF CertRowFact, Signed
  <2> QED
    BY <1>3, <1>4, <2>1, <2>2, Zenon DEF CertRowFact, Effective
<1>7. CertTable(decision_certificates') /\ CertKept(T, decision_certificates')
  BY <1>1, <1>2, <1>3, <1>4, <1>5, <1>6, CertUpdated, Zenon
<1> QED
  BY <1>1, <1>7, CertStatement, Zenon DEF CertKnows, CertIdle, T

\* sign_certificate
LEMMA CertSignRead ==
    ASSUME CertIInv, NEW c \in CertClients, NEW id \in DOMAIN decision_certificates, SignSelect(c, id)
    PROVE  CertIInv'
<1> DEFINE T == decision_certificates
           r == [at |-> "sign", id |-> id, data |->
                 [signature |-> Hash("sign", <<HashToSign(T[id]), certNow>>), signed_at |-> certNow]]
<1>1. certReq' = [certReq EXCEPT ![c] = r] /\ UNCHANGED <<decision_certificates, certNow>>
  BY Zenon DEF SignSelect
<1>2. /\ r.at = "sign" /\ r.id = id
      /\ r.data.signature = Hash("sign", <<HashToSign(T[id]), r.data.signed_at>>)
  BY Zenon
<1> HIDE DEF r
<1>3. CertKnows(r, T)
  BY <1>2, Zenon DEF CertKnows
<1> QED
  BY <1>1, <1>3, CertReads, Zenon

LEMMA CertSigned == ASSUME CertIInv, NEW c \in CertClients, SignUpdate(c) PROVE CertIInv'
<1> DEFINE T == decision_certificates
           id == certReq[c].id
           data == certReq[c].data
           row == [T[id] EXCEPT !.signature = data.signature, !.signed_at = data.signed_at]
<1>1. /\ decision_certificates' = [T EXCEPT ![id] = row]
      /\ certReq' = [certReq EXCEPT ![c] = CertIdle] /\ certNow' = certNow
  BY Zenon DEF SignUpdate
<1>2. id \in DOMAIN T /\ data.signature = Hash("sign", <<HashToSign(T[id]), data.signed_at>>)
  BY Zenon DEF SignUpdate, CertIInv, CertKnows
<1>3. CertRowFact(T[id], id) /\ CertTable(T)
  BY <1>2, Zenon DEF CertIInv, CertTable
<1>4. /\ DOMAIN row = CertColumns /\ row.status = T[id].status /\ row.minted_at = T[id].minted_at
      /\ row.attestations = T[id].attestations /\ row.validation_hash = T[id].validation_hash
      /\ row.gates_passed = T[id].gates_passed /\ row.evidence_ids = T[id].evidence_ids
      /\ row.content_hash = T[id].content_hash /\ row.supersedes_id = T[id].supersedes_id
      /\ row.signature = data.signature /\ row.signed_at = data.signed_at
  BY <1>2, <1>3, Zenon DEF CertRowFact, CertColumns
<1> HIDE DEF row
<1>5. HashToSign(row) = HashToSign(T[id])
  BY <1>4, Zenon DEF HashToSign
<1> HIDE DEF T, id, data
<1>6. CertRowFact(row, id)
  <2>1. Covers(row, id)
    BY <1>3, <1>4, Zenon DEF CertRowFact, Covers
  <2>2. Signed(row)
    BY <1>2, <1>4, <1>5, Zenon DEF Signed
  <2> QED
    BY <1>3, <1>4, <2>1, <2>2, Zenon DEF CertRowFact, Effective
<1>7. CertTable(decision_certificates') /\ CertKept(T, decision_certificates')
  BY <1>1, <1>2, <1>3, <1>4, <1>5, <1>6, CertUpdated, Zenon
<1> QED
  BY <1>1, <1>7, CertStatement, Zenon DEF CertKnows, CertIdle, T

\* Nothing happens to decision certificates or requests.
LEMMA CertAside ==
    ASSUME CertIInv, UNCHANGED <<decision_certificates, certReq>>, certNow' \in Int
    PROVE  CertIInv'
BY Zenon DEF CertIInv

LEMMA CertStep == CertIInv /\ [CertificateNext \/ RecordNext]_certVars => CertIInv'
<1> SUFFICES ASSUME CertIInv, [CertificateNext \/ RecordNext]_certVars PROVE CertIInv'
  BY Zenon
<1>1. CertTick => CertIInv'
  BY CertAside DEF CertTick, CertIInv
<1>2. CASE UNCHANGED certVars
  BY <1>2, CertAside, Zenon DEF certVars, CertIInv
<1>3. ASSUME NEW c \in CertClients, CertAbort(c) PROVE CertIInv'
  <2>1. CertKnows(CertIdle, decision_certificates)
    BY Zenon DEF CertKnows, CertIdle
  <2> QED
    BY <1>3, <2>1, CertReads, Zenon DEF CertAbort
<1>4. CASE CertificateNext
  <2>1. CertFacts \in SUBSET CertFacts
    BY Zenon
  <2>2. emit_certificate(<<FALSE>>, CertFacts) => CertIInv'
    BY <2>1, CertEmitted, CertAssumption, Zenon
  <2>3. certify_decision({1}, CertFacts) => CertIInv'
    BY CertCertified, Zenon
  <2> QED
    BY <1>1, <1>3, <1>4, <2>2, <2>3, CertMintRead, CertMinted, CertSupersedeRead, CertSuccessorInserted,
       CertSuperseded, CertSignRead, CertSigned, Zenon DEF CertificateNext
<1>5. CASE RecordNext
  <2>1. ASSUME NEW e \in SUBSET CertFacts, emit_certificate(<<>>, e) PROVE CertIInv'
    BY <2>1, CertEmitted, CertAssumption, Zenon
  <2>2. ASSUME UNCHANGED <<decision_certificates, certReq, certNow>> PROVE CertIInv'
    BY <2>2, CertAside, Zenon DEF CertIInv
  <2>3. \A id : request_timestamp_attestation(id) => CertIInv'
    BY <2>2, Zenon DEF request_timestamp_attestation, Record
  <2>4. \A id, s, a : record_attestation(id, s, a) => CertIInv'
    BY <2>2, Zenon DEF record_attestation, Record
  <2>5. \A w, e : certify_fcra_notice(w, e) => CertIInv'
    BY <2>2, Zenon DEF certify_fcra_notice, Record
  <2>6. \A i, er, p, e : certify_termination(i, er, p, e) => CertIInv'
    BY <2>2, Zenon DEF certify_termination, Record
  <2> QED
    BY <1>1, <1>5, <2>1, <2>3, <2>4, <2>5, <2>6, Zenon DEF RecordNext
<1> QED
  BY <1>2, <1>4, <1>5, Zenon

LEMMA CertFactsVouch == CertIInv => CertificatesVouch
<1> SUFFICES ASSUME CertIInv PROVE CertificatesVouch
  BY Zenon
<1>1. ASSUME NEW id \in DOMAIN decision_certificates
      PROVE  CertRowFact(decision_certificates[id], id) /\ CertLinks(decision_certificates, id)
  BY Zenon DEF CertIInv, CertTable
<1>2. HashesCoverTheRow
  BY <1>1, Zenon DEF HashesCoverTheRow, CertRowFact, Covers, Signed, NotOfColumns, verify_certificate_integrity
<1>3. SupersessionIsRecorded
  BY <1>1, Zenon DEF SupersessionIsRecorded, CertLinks, HasSuccessor
<1> QED
  BY <1>2, <1>3, Zenon DEF CertificatesVouch

\* However mints, signatures, supersessions and revocations of any number of certificates overlap
\* or are cut off, the validation hash of a minted certificate covers its row, a signature the
\* hash and the time, a successor replaces an older certificate that was minted, and a
\* superseded certificate has one.
THEOREM CertificatesCanBeReliedOn == CertSpec => []CertificatesVouch
<1>1. CertInit => CertIInv
  BY CertInitInv, Zenon
<1>2. CertIInv /\ [CertificateNext \/ RecordNext]_certVars => CertIInv'
  BY CertStep, Zenon
<1>3. CertIInv => CertificatesVouch
  BY CertFactsVouch, Zenon
<1> QED
  BY <1>1, <1>2, <1>3, PTL DEF CertSpec

=============================================================================
