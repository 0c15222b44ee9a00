---------------------------- MODULE EvidenceChain ----------------------------
(***************************************************************************)
(* The evidence vocabulary's hash-linked chains: evidence rows, the table   *)
(* chain_entrys, the phrases that append to it, one SQL statement per step  *)
(* and every statement committed by itself, and the phrases that verify     *)
(* what is stored.  Nothing in the schema makes (resource, sequence) unique.*)
(*                                                                         *)
(* A hash is the tuple of what is hashed, so that equal hashes mean equal   *)
(* inputs; None is <<>> and the empty string <<"">>.  Tenants, actors and   *)
(* subjects are fixed.                                                      *)
(***************************************************************************)
EXTENDS Integers, Sequences, FiniteSets, SequencesExt

CONSTANTS
    Callers,      \* concurrent requests
    Chains,       \* chain ids
    Writes,       \* Writes[c]: the chains request c appends to
    Datas,        \* contents of evidence
    MaxEvidence,  \* bound: evidence rows
    MaxEntries    \* bound: chain entries

ASSUME ChainAssumption ==
    /\ Writes \in [Callers -> SUBSET Chains]
    /\ MaxEvidence \in Nat /\ MaxEntries \in Nat

VARIABLES
    evidence,  \* the table evidences: [data, hash]
    entries,   \* the table chain_entrys, in the order of the INSERTs
    call,      \* call[c]: the phrase request c is executing
    altered    \* the chains whose rows were altered

vars == <<evidence, entries, call, altered>>

None == <<>>
Idle == [at |-> "idle"]

Init ==
    /\ evidence = <<>>
    /\ entries = <<>>
    /\ call = [c \in Callers |-> Idle]
    /\ altered = {}

-----------------------------------------------------------------------------
(* Hashes and rows.                                                         *)

DataHash(d) == <<"data", d>>

\* Node.rehash: the hash of the whole content model, of which data is one field.
ContentHash(d) == <<"content", DataHash(d)>>

ChainHash(prev, payload, seq) == <<"chain", prev, payload, seq>>

Rows(type, res) == {i \in DOMAIN entries : entries[i].type = type /\ entries[i].res = res}

\* ORDER BY sequence DESC LIMIT 1: any of the rows with the greatest sequence.
Latest(type, res) ==
    {i \in Rows(type, res) : \A j \in Rows(type, res) : entries[j].seq <= entries[i].seq}

\* ORDER BY sequence ASC
Ordered(type, res) ==
    LET ids == SetToSortSeq(Rows(type, res), LAMBDA i, j : entries[i].seq < entries[j].seq)
    IN  [n \in DOMAIN ids |-> entries[ids[n]]]

\* The rows that are going to be inserted count too, so that the tables stay bounded.
Pending == Cardinality({c \in Callers : call[c] # Idle})

InsertEvidence(d) ==
    evidence' = Append(evidence, [data |-> d, hash |-> ContentHash(d)])

InsertEntry(row) == entries' = Append(entries, row)

-----------------------------------------------------------------------------
(* emit_chained_evidence                                                    *)

\* explicit is the previous_hash the caller gives, None when it leaves it to the phrase.
EmitEvidence(c, ch, d, explicit) ==
    /\ call[c] = Idle
    /\ ch \in Writes[c]
    /\ Len(evidence) < MaxEvidence
    /\ Len(entries) + Pending < MaxEntries
    /\ InsertEvidence(d)
    /\ call' = [call EXCEPT ![c] = [at |-> "select", chain |-> ch, id |-> Len(evidence) + 1,
                                    data |-> d, explicit |-> explicit]]
    /\ UNCHANGED <<entries, altered>>

EmitLink(c, prev, seq) ==
    call' = [call EXCEPT ![c] = [at |-> "insert", chain |-> @.chain, id |-> @.id,
                                 data |-> @.data, prev |-> prev, seq |-> seq]]

\* No chain_id: a new uuid, which no entry and no other request has.
EmitGenesis(c) ==
    /\ call[c].at = "select"
    /\ Rows("evidence_chain", call[c].chain) = {}
    /\ \A o \in Callers \ {c} : call[o] # Idle => call[o].chain # call[c].chain
    /\ EmitLink(c, None, 0)
    /\ UNCHANGED <<evidence, entries, altered>>

\* A chain_id without entries starts at sequence 0 too.
EmitSelect(c) ==
    /\ call[c].at = "select"
    /\ LET latest == Latest("evidence_chain", call[c].chain)
           explicit == call[c].explicit
       IN  \/ latest = {} /\ EmitLink(c, explicit, 0)
           \/ \E i \in latest :
                 EmitLink(c, IF explicit # None THEN explicit ELSE entries[i].hash, entries[i].seq + 1)
    /\ UNCHANGED <<evidence, entries, altered>>

EmitInsert(c) ==
    /\ call[c].at = "insert"
    /\ LET k == call[c]
       IN  InsertEntry([type |-> "evidence_chain", res |-> k.chain, event |-> "evidence_emitted",
                        id |-> k.id, payload |-> DataHash(k.data), prev |-> k.prev,
                        hash |-> ChainHash(k.prev, DataHash(k.data), k.seq), seq |-> k.seq])
    /\ call' = [call EXCEPT ![c] = Idle]
    /\ UNCHANGED <<evidence, altered>>

-----------------------------------------------------------------------------
(* lock_evidence_chain                                                      *)

\* An unknown chain and a latest entry that is a lock are errors.
LockLatest(c, type, res) ==
    /\ call[c] = Idle
    /\ Len(entries) + Pending < MaxEntries
    /\ \E i \in Latest(type, res) :
          /\ entries[i].event # "chain_locked"
          /\ call' = [call EXCEPT ![c] = [at |-> "lock", type |-> type, chain |-> res,
                                          prev |-> entries[i].hash, seq |-> entries[i].seq + 1]]
    /\ UNCHANGED <<evidence, entries, altered>>

\* The second SELECT looks for a lock anywhere in the chain.
LockCheck(c) ==
    /\ call[c].at = "lock"
    /\ call' = [call EXCEPT ![c] =
          IF \E i \in Rows(@.type, @.chain) : entries[i].event = "chain_locked"
          THEN Idle
          ELSE [@ EXCEPT !.at = "lock_insert"]]
    /\ UNCHANGED <<evidence, entries, altered>>

LockInsert(c) ==
    /\ call[c].at = "lock_insert"
    /\ LET k == call[c]
       IN  InsertEntry([type |-> k.type, res |-> k.chain, event |-> "chain_locked",
                        id |-> 0, payload |-> <<"lock">>, prev |-> k.prev,
                        hash |-> ChainHash(k.prev, <<"lock">>, k.seq), seq |-> k.seq])
    /\ call' = [call EXCEPT ![c] = Idle]
    /\ UNCHANGED <<evidence, altered>>

-----------------------------------------------------------------------------
(* save_evidence, create_genesis_entry, chain_evidence                      *)

save_evidence(d) ==
    /\ Len(evidence) < MaxEvidence
    /\ InsertEvidence(d)
    /\ UNCHANGED <<entries, call, altered>>

\* The content_hash of the entity a caller passes: insert_entity computes it on the
\* entity it is given, and the entity it returns is without one.
EntityHash(e) == {evidence[e].hash, None}

\* payload_hash=content_hash or "" for the row, content_hash itself in the chain hash.
LinkRow(e, event, h, prev, seq) ==
    [type |-> "evidence", res |-> e, event |-> event, id |-> 0,
     payload |-> IF h = None THEN <<"">> ELSE h, prev |-> prev,
     hash |-> ChainHash(prev, h, seq), seq |-> seq]

create_genesis_entry(e) ==
    /\ Len(entries) + Pending < MaxEntries
    /\ \E h \in EntityHash(e) : InsertEntry(LinkRow(e, "evidence_collected", h, None, 0))
    /\ UNCHANGED <<evidence, call, altered>>

\* A parent without a chain entry is an error; select_one takes any of several.
ChainSelect(c, parent, child) ==
    /\ call[c] = Idle
    /\ Len(entries) + Pending < MaxEntries
    /\ \E i \in Rows("evidence", parent) :
          call' = [call EXCEPT ![c] = [at |-> "chain", chain |-> child, prev |-> entries[i].hash,
                                       seq |-> entries[i].seq + 1]]
    /\ UNCHANGED <<evidence, entries, altered>>

ChainInsert(c) ==
    /\ call[c].at = "chain"
    /\ \E h \in EntityHash(call[c].chain) :
          InsertEntry(LinkRow(call[c].chain, "evidence_linked", h, call[c].prev, call[c].seq))
    /\ call' = [call EXCEPT ![c] = Idle]
    /\ UNCHANGED <<evidence, altered>>

\* The request dies between two statements.
Die(c) ==
    /\ call[c] # Idle
    /\ call' = [call EXCEPT ![c] = Idle]
    /\ UNCHANGED <<evidence, entries, altered>>

-----------------------------------------------------------------------------
(* Storage that does not keep what was written: one row of a chain that is   *)
(* linear, and that no request is appending to.                             *)

\* In the order of the INSERTs, every entry links to the one before it.
Linear(ch) ==
    \A i \in Rows("evidence_chain", ch) :
       LET before == {j \in Rows("evidence_chain", ch) : j < i}
       IN  entries[i].prev = IF before = {} THEN None ELSE entries[Max(before)].hash

Alterable(i) ==
    /\ altered = {}
    /\ entries[i].type = "evidence_chain"
    /\ Linear(entries[i].res)
    /\ \A c \in Callers : call[c] # Idle => call[c].chain # entries[i].res

\* The data of an evidence changes.
AlterEvidence(i, d) ==
    /\ Alterable(i)
    /\ entries[i].id # 0
    /\ evidence[entries[i].id].data # d
    /\ evidence' = [evidence EXCEPT ![entries[i].id].data = d]
    /\ altered' = {entries[i].res}
    /\ UNCHANGED <<entries, call>>

\* A hashed column of an entry changes, or its hash.
AlterEntry(i, row) ==
    /\ Alterable(i)
    /\ row # entries[i]
    /\ entries' = [entries EXCEPT ![i] = row]
    /\ altered' = {entries[i].res}
    /\ UNCHANGED <<evidence, call>>

\* An entry that is not the latest is lost.
LoseEntry(i) ==
    /\ Alterable(i)
    /\ i \notin Latest("evidence_chain", entries[i].res)
    /\ entries' = RemoveAt(entries, i)
    /\ altered' = {entries[i].res}
    /\ UNCHANGED <<evidence, call>>

\* What a caller may give as previous_hash: a hash it has seen.
PreviousHashes == {entries[i].hash : i \in DOMAIN entries}

EmitNext ==
    \/ \E c \in Callers, ch \in Chains, d \in Datas : EmitEvidence(c, ch, d, None)
    \/ \E c \in Callers : \E ch \in Writes[c] : LockLatest(c, "evidence_chain", ch)
    \/ \E c \in Callers : EmitGenesis(c) \/ EmitSelect(c) \/ EmitInsert(c)
                          \/ LockCheck(c) \/ LockInsert(c) \/ Die(c)

LinkNext ==
    \/ \E c \in Callers, ch \in Chains, d \in Datas, h \in PreviousHashes : EmitEvidence(c, ch, d, h)
    \/ \E c \in Callers, e \in DOMAIN evidence : LockLatest(c, "evidence", e)
    \/ \E d \in Datas : save_evidence(d)
    \/ \E e \in DOMAIN evidence : create_genesis_entry(e)
    \/ \E c \in Callers, p, e \in DOMAIN evidence : ChainSelect(c, p, e)
    \/ \E c \in Callers : ChainInsert(c)

StorageNext ==
    \E i \in DOMAIN entries :
       \/ LoseEntry(i)
       \/ \E d \in Datas : AlterEvidence(i, d)
       \/ \E d \in Datas : AlterEntry(i, [entries[i] EXCEPT !.payload = DataHash(d)])
       \/ \E s \in 0..MaxEntries : AlterEntry(i, [entries[i] EXCEPT !.seq = s])
       \/ \E j \in DOMAIN entries : \/ AlterEntry(i, [entries[i] EXCEPT !.prev = entries[j].hash])
                                    \/ AlterEntry(i, [entries[i] EXCEPT !.hash = entries[j].hash])

Next == EmitNext \/ LinkNext \/ StorageNext

Spec == Init /\ [][Next]_vars

-----------------------------------------------------------------------------
(* The verifying phrases.                                                   *)

HashesMatch(row) == row.hash = ChainHash(row.prev, row.payload, row.seq)

\* Mutant: only the links are checked, not the hashes.
verify_chain_LinksOnly(type, res) ==
    LET rows == Ordered(type, res)
    IN  \A n \in DOMAIN rows :
           /\ rows[n].seq = n - 1
           /\ rows[n].prev = IF n = 1 THEN None ELSE rows[n - 1].hash

\* The entries in order have contiguous sequences from 0, each links to the one before.
verify_chain(type, res) ==
    LET rows == Ordered(type, res)
    IN  \A n \in DOMAIN rows :
           /\ rows[n].seq = n - 1
           /\ rows[n].prev = IF n = 1 THEN None ELSE rows[n - 1].hash
           /\ HashesMatch(rows[n])

\* _check_evidence_content: an entry that names an evidence has the hash of its data.
ContentMatches(row) == row.id # 0 => DataHash(evidence[row.id].data) = row.payload

verify_evidence_chain(ch) ==
    /\ verify_chain("evidence_chain", ch)
    /\ \A i \in Rows("evidence_chain", ch) : ContentMatches(entries[i])

\* chain_valid of get_evidence_timeline
get_evidence_timeline(type, res) ==
    LET rows == Ordered(type, res)
    IN  \A n \in DOMAIN rows :
           /\ HashesMatch(rows[n])
           /\ rows[n].seq > 0 => rows[n].prev = IF n = 1 THEN None ELSE rows[n - 1].hash

-----------------------------------------------------------------------------
(* Properties.                                                              *)

\* Rows keep their types: sequences are naturals, entries refer to evidence that exists.
TypeOK ==
    /\ Len(evidence) <= MaxEvidence /\ Len(entries) <= MaxEntries
    /\ \A i \in DOMAIN entries :
          /\ entries[i].type \in {"evidence", "evidence_chain"}
          /\ entries[i].seq \in Nat
          /\ entries[i].id \in 0..Len(evidence)
          /\ entries[i].type = "evidence" => entries[i].res \in DOMAIN evidence
          /\ entries[i].type = "evidence_chain" => entries[i].res \in Chains
    /\ altered \subseteq Chains

\* verify_evidence_chain is exact: it accepts a chain if and only if every entry was
\* appended to the one before it (two requests did not append at the same place, no
\* caller gave another previous_hash) and no hashed column, evidence or inner entry was
\* changed, wherever a request died and whatever is appended afterwards.
VerificationExact ==
    \A ch \in Chains : verify_evidence_chain(ch) <=> ch \notin altered /\ Linear(ch)

\* A fork does not go unnoticed: when two requests appended to one chain at the same
\* sequence, verify_chain rejects the chain, whatever comes after; the timeline does too,
\* unless both entries are genesis entries.
ForksDetected ==
    \A ch \in Chains : \A i, j \in Rows("evidence_chain", ch) :
       i # j /\ entries[i].seq = entries[j].seq =>
          /\ ~verify_chain("evidence_chain", ch)
          /\ entries[i].seq > 0 => ~get_evidence_timeline("evidence_chain", ch)

\* A chain is locked once: a second lock_evidence_chain finds the first lock although
\* entries were emitted after it.  Only two locks at the same time both succeed, and
\* leave a chain that forked.
LockedOnce ==
    \A ch \in Chains :
       ch \notin altered /\ Linear(ch) =>
          Cardinality({i \in Rows("evidence_chain", ch) : entries[i].event = "chain_locked"}) <= 1

\* lock_evidence_chain: "Once locked, no further entries can be added".
LockedIsFinal ==
    [][\A ch \in Chains :
          (\E i \in Rows("evidence_chain", ch) : entries[i].event = "chain_locked")
          => Rows("evidence_chain", ch)' = Rows("evidence_chain", ch)]_vars

\* Verification tells the truth about every chain: it accepts exactly the intact ones, a fork is
\* noticed, and a chain is locked once unless two locks raced and left such a fork.
ChainsVerify == VerificationExact /\ ForksDetected /\ LockedOnce
=============================================================================
