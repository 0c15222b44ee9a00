----------------------------- MODULE Certificates -----------------------------
(***************************************************************************)
(* Decision certificates: emitting, minting, certifying, signing, revoking  *)
(* and superseding, statement by statement, with requests that may be cut   *)
(* off between two statements; the tables of timestamps, attestations, FCRA *)
(* and termination certificates; verify_certificate_integrity.  A hash is   *)
(* the tuple of what is hashed.                                             *)
(***************************************************************************)
EXTENDS Rows

CONSTANTS
    CertClients,    \* concurrent requests
    CertFacts,          \* evidence ids and attestations
    MaxCerts,       \* bound: rows of decision_certificates
    MaxRecords,     \* bound: rows of the side tables
    MaxCertTime     \* bound: the clock

VARIABLES
    decision_certificates,
    cert_records,   \* timestamp_attestations, attestation_records, *_certificates
    certReq,        \* certReq[c]: the statements c has still to send
    certNow

certVars == <<decision_certificates, cert_records, certReq, certNow>>

CertIdle == [at |-> "idle"]

CertInit ==
    /\ decision_certificates = <<>>
    /\ cert_records = {}
    /\ certReq = [c \in CertClients |-> CertIdle]
    /\ certNow = 0

\* compute_hash: equal only for equal tagged contents
Hash(tag, content) == <<tag, content>>

\* A content hash is not NULL.
ASSUME CertAssumption ==
    \A gates \in {<<>>, <<FALSE>>}, evidence \in SUBSET CertFacts : Hash("content", <<gates, evidence>>) # Null

NewCert(row) ==
    /\ Cardinality(DOMAIN decision_certificates) < MaxCerts
    /\ decision_certificates' = insert(decision_certificates, NextId(decision_certificates), row)

CertRow(status, gates, evidence, attested, minted, validation, content, supersedes) ==
    [status |-> status, gates_passed |-> gates, evidence_ids |-> evidence,
     attestations |-> attested, minted_at |-> minted, validation_hash |-> validation,
     content_hash |-> content, supersedes_id |-> supersedes, signature |-> Null, signed_at |-> Null]

-----------------------------------------------------------------------------
\* The content hash is the node's own, over the whole provisional content.
emit_certificate(gates, evidence) ==
    /\ NewCert(CertRow("provisional", gates, evidence, {}, Null, Null,
                       Hash("content", <<gates, evidence>>), Null))
    /\ UNCHANGED <<cert_records, certReq, certNow>>

certify_decision(gates, evidence) ==
    /\ evidence # {}
    /\ LET id == NextId(decision_certificates)
           h  == Hash("decision", <<id, evidence, certNow>>)
       IN  NewCert(CertRow("minted", [g \in gates |-> TRUE], evidence, {}, certNow, h, h, Null))
    /\ UNCHANGED <<cert_records, certReq, certNow>>

MintHash(id, gates, evidence, attested) == Hash("mint", <<id, gates, evidence, attested>>)

\* The gates are hashed, not looked at.
MintSelect(c, id, attested) ==
    /\ certReq[c] = CertIdle
    /\ decision_certificates[id].status \in {"provisional", "gated"}
    /\ LET row == decision_certificates[id]
       IN  certReq' = [certReq EXCEPT ![c] = [at |-> "mint", id |-> id, data |->
              [status |-> "minted", minted_at |-> certNow, attestations |-> attested,
               validation_hash |-> MintHash(id, row.gates_passed, row.evidence_ids, attested)]]]
    /\ UNCHANGED <<decision_certificates, cert_records, certNow>>

\* Mutant: the row keeps the attestations it had.
MintUpdate_KeepsAttestations(c) ==
    /\ certReq[c].at = "mint"
    /\ LET data == certReq[c].data
       IN  decision_certificates' = [decision_certificates EXCEPT ![certReq[c].id] =
              [@ EXCEPT !.status = data.status, !.minted_at = data.minted_at,
                        !.validation_hash = data.validation_hash]]
    /\ certReq' = [certReq EXCEPT ![c] = CertIdle]
    /\ UNCHANGED <<cert_records, certNow>>

\* The UPDATE names the id only: the status is not checked again.
MintUpdate(c) ==
    /\ certReq[c].at = "mint"
    /\ LET data == certReq[c].data
       IN  decision_certificates' = [decision_certificates EXCEPT ![certReq[c].id] =
              [@ EXCEPT !.status = data.status, !.minted_at = data.minted_at,
                        !.attestations = data.attestations, !.validation_hash = data.validation_hash]]
    /\ certReq' = [certReq EXCEPT ![c] = CertIdle]
    /\ UNCHANGED <<cert_records, certNow>>

\* supersede_certificate may bring evidence of its own, revoke_certificate copies it;
\* the successor is minted at once.
SupersedeSelect(c, id, tag, evidence) ==
    /\ certReq[c] = CertIdle
    /\ decision_certificates[id].status = "minted"
    /\ tag = "revoke" => evidence = decision_certificates[id].evidence_ids
    /\ LET h == Hash(tag, IF tag = "revoke" THEN <<id, certNow>> ELSE <<id, evidence>>)
       IN  certReq' = [certReq EXCEPT ![c] = [at |-> "insert", id |-> id, row |->
              CertRow("minted", <<>>, evidence, {}, certNow, h,
                      IF tag = "revoke" THEN h ELSE Null, id)]]
    /\ UNCHANGED <<decision_certificates, cert_records, certNow>>

SupersedeInsert(c) ==
    /\ certReq[c].at = "insert"
    /\ NewCert(certReq[c].row)
    /\ certReq' = [certReq EXCEPT ![c] = [at |-> "supersede", id |-> certReq[c].id]]
    /\ UNCHANGED <<cert_records, certNow>>

SupersedeUpdate(c) ==
    /\ certReq[c].at = "supersede"
    /\ decision_certificates' = [decision_certificates EXCEPT ![certReq[c].id].status = "superseded"]
    /\ certReq' = [certReq EXCEPT ![c] = CertIdle]
    /\ UNCHANGED <<cert_records, certNow>>

\* A certificate without a content hash is signed by its validation hash.
HashToSign(row) == IF row.content_hash # Null THEN row.content_hash ELSE row.validation_hash

SignSelect(c, id) ==
    /\ certReq[c] = CertIdle
    /\ HashToSign(decision_certificates[id]) # Null
    /\ certReq' = [certReq EXCEPT ![c] = [at |-> "sign", id |-> id, data |->
          [signature |-> Hash("sign", <<HashToSign(decision_certificates[id]), certNow>>),
           signed_at |-> certNow]]]
    /\ UNCHANGED <<decision_certificates, cert_records, certNow>>

SignUpdate(c) ==
    /\ certReq[c].at = "sign"
    /\ LET data == certReq[c].data
       IN  decision_certificates' = [decision_certificates EXCEPT ![certReq[c].id] =
              [@ EXCEPT !.signature = data.signature, !.signed_at = data.signed_at]]
    /\ certReq' = [certReq EXCEPT ![c] = CertIdle]
    /\ UNCHANGED <<cert_records, certNow>>

\* A request is cut off between two statements.
CertAbort(c) ==
    /\ certReq[c] # CertIdle
    /\ certReq' = [certReq EXCEPT ![c] = CertIdle]
    /\ UNCHANGED <<decision_certificates, cert_records, certNow>>

-----------------------------------------------------------------------------
Record(r) ==
    /\ Cardinality(cert_records) < MaxRecords
    /\ cert_records' = cert_records \cup {r @@ [id |-> Cardinality(cert_records) + 1, at |-> certNow]}
    /\ UNCHANGED <<decision_certificates, certReq, certNow>>

request_timestamp_attestation(id) ==
    HashToSign(decision_certificates[id]) # Null /\
    Record([table |-> "timestamp", target |-> id, hash |-> HashToSign(decision_certificates[id])])

\* An identified actor and a text of at least twenty characters
record_attestation(id, substantive, actor) ==
    /\ substantive /\ actor # Null
    /\ Record([table |-> "attestation", target |-> id, by |-> actor])

certify_fcra_notice(window_end, ceps) ==
    /\ certNow >= window_end /\ ceps # {}
    /\ Record([table |-> "fcra", window_end |-> window_end, ceps |-> ceps])

certify_termination(involuntary, er, parity, ceps) ==
    /\ involuntary => er /\ parity /\ ceps # {}
    /\ Record([table |-> "termination", involuntary |-> involuntary, ceps |-> ceps])

CertTick ==
    /\ certNow < MaxCertTime
    /\ certNow' = certNow + 1
    /\ UNCHANGED <<decision_certificates, cert_records, certReq>>

CertificateNext ==
    \/ emit_certificate(<<FALSE>>, CertFacts)
    \/ certify_decision({1}, CertFacts)
    \/ \E c \in CertClients, id \in DOMAIN decision_certificates, a \in SUBSET CertFacts : MintSelect(c, id, a)
    \/ \E c \in CertClients : MintUpdate(c)
    \/ \E c \in CertClients, id \in DOMAIN decision_certificates, e \in SUBSET CertFacts,
          tag \in {"supersede", "revoke"} : SupersedeSelect(c, id, tag, e)
    \/ \E c \in CertClients : SupersedeInsert(c) \/ SupersedeUpdate(c)
    \/ \E c \in CertClients, id \in DOMAIN decision_certificates : SignSelect(c, id)
    \/ \E c \in CertClients : SignUpdate(c) \/ CertAbort(c)
    \/ CertTick

RecordNext ==
    \/ \E e \in SUBSET CertFacts : emit_certificate(<<>>, e)
    \/ \E id \in DOMAIN decision_certificates : request_timestamp_attestation(id)
    \/ \E id \in DOMAIN decision_certificates, s \in BOOLEAN, a \in {Null, "actor"} : record_attestation(id, s, a)
    \/ \E w \in 0..MaxCertTime, e \in SUBSET CertFacts : certify_fcra_notice(w, e)
    \/ \E i, er, p \in BOOLEAN, e \in SUBSET CertFacts : certify_termination(i, er, p, e)
    \/ CertTick

CertSpec == CertInit /\ [][CertificateNext \/ RecordNext]_certVars

-----------------------------------------------------------------------------
\* The hash is recomputed over columns of the row.
verify_certificate_integrity(id) ==
    LET row == decision_certificates[id]
    IN  row.content_hash # Null
        /\ row.content_hash = Hash("columns", <<id, row.evidence_ids, row.minted_at>>)

\* What a certificate vouches for by hash is what its row says: however mints and signatures
\* interleave or are cut off, the validation hash of a minted certificate covers the gates,
\* evidence and attestations stored with it, and a signature covers the hash and the time.
\* verify_certificate_integrity recomputes a hash none of the phrases stores, and accepts none.
HashesCoverTheRow ==
    \A id \in DOMAIN decision_certificates :
        LET row == decision_certificates[id]
        IN  /\ (row.validation_hash # Null /\ row.validation_hash[1] = "mint") =>
                   row.validation_hash = MintHash(id, row.gates_passed, row.evidence_ids, row.attestations)
            /\ row.signature # Null =>
                   row.signature = Hash("sign", <<HashToSign(row), row.signed_at>>)
            /\ ~verify_certificate_integrity(id)

\* Corrections only ever replace certificates that had taken effect: the certificate named by
\* supersedes_id is older and was minted, and a certificate in status superseded always has a
\* successor in the table, even when requests are cut off half-way.
SupersessionIsRecorded ==
    \A id \in DOMAIN decision_certificates :
        LET row == decision_certificates[id]
        IN  /\ row.supersedes_id # Null =>
                  /\ row.supersedes_id < id
                  /\ decision_certificates[row.supersedes_id].minted_at # Null
            /\ row.status = "superseded" =>
                  \E s \in DOMAIN decision_certificates : decision_certificates[s].supersedes_id = id

\* A certificate can be relied on, wherever requests overlap or end early: its hashes cover
\* its row, and corrections leave a complete trail.
CertificatesVouch == HashesCoverTheRow /\ SupersessionIsRecorded
=============================================================================
