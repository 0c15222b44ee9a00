--------------------------- MODULE EvidencePackets ---------------------------
(***************************************************************************)
(* Certified evidence packets (CEPs): create_cep, seal_cep statement by     *)
(* statement, and the phrases that decide whether a packet may be relied    *)
(* on.  The clock counts months of 30 days; now_utc is read where the code  *)
(* reads it.  A hash is the tuple of what is hashed; NoValue is <<>>.          *)
(***************************************************************************)
EXTENDS Integers

CONSTANTS
    Packets,      \* packet ids
    Sealers,      \* concurrent requests
    CEPTypes,     \* CEPType
    Validity,     \* CEP_VALIDITY_PERIODS, in months
    Facts,        \* facts of a packet
    MaxTime       \* bound: the clock

ASSUME PacketAssumption ==
    /\ Validity \in [CEPTypes -> Nat \ {0}]
    /\ MaxTime \in Nat

VARIABLES
    cep,    \* the table certified_evidence_packets
    seal,   \* seal[c]: the seal_cep request c is executing
    now

packetVars == <<cep, seal, now>>

NoValue == <<>>
NotSealing == [at |-> "idle"]
Absent == [status |-> "absent"]

PacketInit ==
    /\ cep = [p \in Packets |-> Absent]
    /\ seal = [c \in Sealers |-> NotSealing]
    /\ now = 0

PacketHash(p, type, facts, created) == <<p, type, facts, created>>

Signature(p, hash, key, sealed) == <<p, hash, key, sealed>>

\* key_{tenant}_{year and month}
SigningKey(t) == t

-----------------------------------------------------------------------------
create_cep(p, type, facts) ==
    /\ cep[p] = Absent
    /\ cep' = [cep EXCEPT ![p] =
          [status |-> "draft", type |-> type, facts |-> facts,
           hash |-> PacketHash(p, type, facts, now), created |-> <<now>>,
           sealed |-> NoValue, signature |-> NoValue, key |-> NoValue]]
    /\ UNCHANGED <<seal, now>>

\* Mutant: a sealed packet can be sealed again.
SealSelect_AnyStatus(c, p) ==
    /\ seal[c] = NotSealing
    /\ cep[p] # Absent
    /\ seal' = [seal EXCEPT ![c] = [at |-> "update", id |-> p, hash |-> cep[p].hash, time |-> now]]
    /\ UNCHANGED <<cep, now>>

\* Only a draft can be sealed; the time and the signature are computed after the SELECT.
SealSelect(c, p) ==
    /\ seal[c] = NotSealing
    /\ cep[p].status = "draft"
    /\ seal' = [seal EXCEPT ![c] = [at |-> "update", id |-> p, hash |-> cep[p].hash, time |-> now]]
    /\ UNCHANGED <<cep, now>>

\* Mutant: the row gets the time of the UPDATE, not the one that was signed.
SealUpdate_Now(c) ==
    /\ seal[c].at = "update"
    /\ LET k == seal[c]
       IN  cep' = [cep EXCEPT ![k.id].status = "sealed", ![k.id].sealed = <<now>>,
                              ![k.id].key = <<SigningKey(k.time)>>,
                              ![k.id].signature = Signature(k.id, k.hash, SigningKey(k.time), k.time)]
    /\ seal' = [seal EXCEPT ![c] = NotSealing]
    /\ UNCHANGED now

\* UPDATE ... WHERE id: the status is not looked at again.
SealUpdate(c) ==
    /\ seal[c].at = "update"
    /\ LET k == seal[c]
       IN  cep' = [cep EXCEPT ![k.id].status = "sealed", ![k.id].sealed = <<k.time>>,
                              ![k.id].key = <<SigningKey(k.time)>>,
                              ![k.id].signature = Signature(k.id, k.hash, SigningKey(k.time), k.time)]
    /\ seal' = [seal EXCEPT ![c] = NotSealing]
    /\ UNCHANGED now

\* The request dies between the two statements.
SealDies(c) ==
    /\ seal[c] # NotSealing
    /\ seal' = [seal EXCEPT ![c] = NotSealing]
    /\ UNCHANGED <<cep, now>>

Tick ==
    /\ now < MaxTime
    /\ now' = now + 1
    /\ UNCHANGED <<cep, seal>>

PacketNext ==
    \/ \E p \in Packets, t \in CEPTypes, f \in Facts : create_cep(p, t, f)
    \/ \E c \in Sealers, p \in Packets : SealSelect(c, p)
    \/ \E c \in Sealers : SealUpdate(c) \/ SealDies(c)
    \/ Tick

PacketSpec == PacketInit /\ [][PacketNext]_packetVars

-----------------------------------------------------------------------------
(* The checking phrases.  No phrase supersedes a packet, so that the column *)
(* superseded_by_id stays empty.                                            *)

\* valid of verify_cep_reference
verify_cep_reference(p, expected) ==
    /\ cep[p] # Absent
    /\ cep[p].hash = expected
    /\ cep[p].status = "sealed"

\* sealed of verify_cep_sealed
verify_cep_sealed(p) ==
    /\ cep[p] # Absent
    /\ cep[p].status = "sealed"
    /\ cep[p].sealed # NoValue

\* expires_at of verify_cep_not_expired
ExpiresAt(p) ==
    (IF cep[p].sealed # NoValue THEN cep[p].sealed[1] ELSE cep[p].created[1]) + Validity[cep[p].type]

\* valid of verify_cep_not_expired
verify_cep_not_expired(p) == cep[p] # Absent /\ now <= ExpiresAt(p)

\* satisfied of require_cep_hash_match
require_cep_hash_match(p, expected) == cep[p] # Absent /\ cep[p].hash = expected

-----------------------------------------------------------------------------
\* A packet has a seal exactly when it is sealed, and was created before it was sealed.
PacketTypeOK ==
    \A p \in Packets : cep[p] # Absent =>
       /\ cep[p].status \in {"draft", "sealed"}
       /\ cep[p].status = "sealed" <=> cep[p].sealed # NoValue
       /\ cep[p].sealed # NoValue => cep[p].created[1] <= cep[p].sealed[1] /\ cep[p].sealed[1] <= now

\* What verify_cep_reference accepts carries a seal for what was referenced: the signature
\* in the row covers the hash the caller expects, the facts in the row, and the row's own
\* sealing time and key, whichever of several concurrent seal_cep calls wrote last.
ReferenceIsSealed ==
    \A p \in Packets :
       LET h == cep[p].hash
       IN  cep[p] # Absent /\ verify_cep_reference(p, h) =>
              /\ verify_cep_sealed(p) /\ require_cep_hash_match(p, h)
              /\ h = PacketHash(p, cep[p].type, cep[p].facts, cep[p].created[1])
              /\ cep[p].signature = Signature(p, h, cep[p].key[1], cep[p].sealed[1])

\* A sealed packet that no seal_cep is working on and that has expired
SealLapsed(p) ==
    /\ verify_cep_sealed(p) /\ ~verify_cep_not_expired(p)
    /\ \A c \in Sealers : seal[c] # NotSealing => seal[c].id # p

\* The validity of a packet is not renewed: once verify_cep_not_expired rejects a sealed
\* packet that no seal_cep is working on, it does so for ever.  (A seal_cep that read the
\* draft before another one sealed it does move the expiry.)
ExpiredStaysExpired == [][\A p \in Packets : SealLapsed(p) => SealLapsed(p)']_packetVars

=============================================================================
