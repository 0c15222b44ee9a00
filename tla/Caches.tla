-------------------------------- MODULE Caches --------------------------------
(* Two caches of decisions' inputs.

   DecisionCache (canon utils/cache.py) keeps the value of a gate or a policy for
   a time to live; evaluations look it up, compute what they miss and store it.
   CharterRegistry (canon runtime/registry.py) keeps compiled charters beside the
   content hash of the source they came from; a lookup checks the hash in the
   database, and reads and compiles the row when it differs.

   truth is the version of what is cached; a cached value is the version it was
   computed from.  Compiling is the identity on versions, and so is the hash.   *)
EXTENDS Integers, FiniteSets

CONSTANTS Entries, Readers, GateTtl, PolicyTtl, MaxEntries, MaxVersions, MaxEvaluation

ASSUME CacheAssumption ==
    /\ GateTtl \in Nat /\ PolicyTtl \in Nat /\ MaxEvaluation \in Nat
    /\ MaxEntries \in Nat \ {0} /\ MaxVersions \in Nat \ {0}

Missing == 0

VARIABLES
    truth,     \* the present version of every entry
    validity,  \* how long ago a version stopped being the present one
    cached,    \* the cached entries: version, age
    reader     \* what each evaluation is doing

cacheVars == <<truth, validity, cached, reader>>

AtRest == [at |-> "rest", entry |-> 0, version |-> Missing, age |-> 0]

CacheInit ==
    /\ truth = [e \in Entries |-> 1]
    /\ validity = [e \in Entries |-> [v \in 1..MaxVersions |-> 0]]
    /\ cached = [e \in {} |-> AtRest]
    /\ reader = [r \in Readers |-> AtRest]

\* The time to live depends on the kind of the key: the first entry is a gate's.
ttl(e) == IF e = 1 THEN GateTtl ELSE PolicyTtl

expired(e) == cached[e].age > ttl(e)

Live(e) == e \in DOMAIN cached /\ ~expired(e)

Without(e) == [x \in DOMAIN cached \ {e} |-> cached[x]]

\* get: a hit is answered at once; an expired entry is removed and counts as a miss,
\* after which the caller computes the value.
get(r, e) ==
    /\ reader[r].at = "rest"
    /\ \/ /\ Live(e)
          /\ reader' = [reader EXCEPT ![r] = [at |-> "hit", entry |-> e, version |-> cached[e].version, age |-> 0]]
          /\ UNCHANGED cached
       \/ /\ ~Live(e)
          /\ cached' = Without(e)
          /\ reader' = [reader EXCEPT ![r] = [at |-> "computing", entry |-> e, version |-> truth[e], age |-> 0]]
    /\ UNCHANGED <<truth, validity>>

Answered(r) ==
    /\ reader[r].at = "hit"
    /\ reader' = [reader EXCEPT ![r] = AtRest]
    /\ UNCHANGED <<truth, validity, cached>>

\* _evict_oldest: the entry stored first, as dict order breaks ties.
Oldest == {x \in DOMAIN cached : \A y \in DOMAIN cached : cached[y].age <= cached[x].age}

set(r) ==
    /\ reader[r].at = "computing"
    /\ \E kept \in IF Cardinality(DOMAIN cached) >= MaxEntries
                     THEN {DOMAIN cached \ {old} : old \in Oldest} ELSE {DOMAIN cached} :
        cached' = [x \in kept \cup {reader[r].entry} |->
                    IF x = reader[r].entry THEN [version |-> reader[r].version, age |-> 0] ELSE cached[x]]
    /\ reader' = [reader EXCEPT ![r] = AtRest]
    /\ UNCHANGED <<truth, validity>>

\* invalidate, invalidate_by_prefix, invalidate_by_tenant, clear: some entries go.
invalidate(gone) ==
    /\ gone # {} /\ gone \subseteq DOMAIN cached
    /\ cached' = [x \in DOMAIN cached \ gone |-> cached[x]]
    /\ UNCHANGED <<truth, validity, reader>>

cleanup_expired ==
    /\ \E e \in DOMAIN cached : expired(e)
    /\ cached' = [x \in {e \in DOMAIN cached : ~expired(e)} |-> cached[x]]
    /\ UNCHANGED <<truth, validity, reader>>

\* What is cached changes at its source.
Publish(e) ==
    /\ truth[e] < MaxVersions
    /\ truth' = [truth EXCEPT ![e] = @ + 1]
    /\ UNCHANGED <<validity, cached, reader>>

LongestTtl == IF GateTtl > PolicyTtl THEN GateTtl ELSE PolicyTtl

\* Bounds: what is older than this is expired, or too old to be answered with.
MaxAge == LongestTtl + MaxEvaluation + 1

\* Time: a hit is used at once and an evaluation takes at most MaxEvaluation.
CacheTick ==
    /\ \A r \in Readers : reader[r].at # "hit" /\ (reader[r].at = "computing" => reader[r].age < MaxEvaluation)
    /\ reader' = [r \in Readers |-> IF reader[r].at = "computing" THEN [reader[r] EXCEPT !.age = @ + 1] ELSE reader[r]]
    /\ cached' = [e \in DOMAIN cached |-> [cached[e] EXCEPT !.age = IF @ > LongestTtl THEN @ ELSE @ + 1]]
    /\ validity' = [e \in Entries |-> [v \in 1..MaxVersions |->
                        IF v < truth[e] /\ validity[e][v] < MaxAge THEN validity[e][v] + 1 ELSE validity[e][v]]]
    /\ UNCHANGED truth

CacheNext ==
    \/ CacheTick \/ cleanup_expired
    \/ \E e \in Entries : Publish(e) \/ \E r \in Readers : get(r, e)
    \/ \E r \in Readers : set(r) \/ Answered(r)
    \/ \E gone \in SUBSET Entries : invalidate(gone)

CacheSpec == CacheInit /\ [][CacheNext]_cacheVars

-----------------------------------------------------------------------------
VARIABLES
    row,       \* the charter's row: its version, or Missing once deleted
    entry,     \* the registry's entry: the compiled version and the hash stored with it
    lookup,    \* what each lookup is doing
    seen       \* the versions the row has had since each lookup began

registryVars == <<row, entry, lookup, seen>>

NoEntry == [compiled |-> Missing, hash |-> Missing]

RegistryInit ==
    /\ row = 1 /\ entry = NoEntry
    /\ lookup = [r \in Readers |-> [at |-> "rest", entry |-> NoEntry]]
    /\ seen = [r \in Readers |-> {}]

\* CharterRegistry.get: the entry is read under the lock, the rest is not.
BeginLookup(r) ==
    /\ lookup[r].at = "rest"
    /\ lookup' = [lookup EXCEPT ![r] = [at |-> IF entry = NoEntry THEN "fetch" ELSE "verify", entry |-> entry]]
    /\ seen' = [seen EXCEPT ![r] = {row}]
    /\ UNCHANGED <<row, entry>>

\* The hash in the database decides whether the entry is good.
VerifyHash_Trusts(r) ==
    /\ lookup[r].at = "verify"
    /\ lookup' = [lookup EXCEPT ![r].at = "done"]
    /\ UNCHANGED <<row, entry, seen>>

VerifyHash(r) ==
    /\ lookup[r].at = "verify"
    /\ lookup' = [lookup EXCEPT ![r].at = IF row # Missing /\ row = lookup[r].entry.hash THEN "done" ELSE "fetch"]
    /\ UNCHANGED <<row, entry, seen>>

\* Otherwise the row is read and compiled; without a row the charter is not found.
Fetch(r) ==
    /\ lookup[r].at = "fetch"
    /\ lookup' = [lookup EXCEPT ![r] =
            IF row = Missing THEN [at |-> "done", entry |-> NoEntry]
            ELSE [at |-> "store", entry |-> [compiled |-> row, hash |-> row]]]
    /\ UNCHANGED <<row, entry, seen>>

StoreEntry(r) ==
    /\ lookup[r].at = "store"
    /\ entry' = lookup[r].entry
    /\ lookup' = [lookup EXCEPT ![r].at = "done"]
    /\ UNCHANGED <<row, seen>>

EndLookup(r) ==
    /\ lookup[r].at = "done"
    /\ lookup' = [lookup EXCEPT ![r] = [at |-> "rest", entry |-> NoEntry]]
    /\ seen' = [seen EXCEPT ![r] = {}]
    /\ UNCHANGED <<row, entry>>

\* register: the caller compiled the present source and may not know its hash.
register(hash) ==
    /\ row # Missing /\ hash \in {row, Missing}
    /\ entry' = [compiled |-> row, hash |-> hash]
    /\ UNCHANGED <<row, lookup, seen>>

InvalidateCharter ==
    /\ entry # NoEntry /\ entry' = NoEntry
    /\ UNCHANGED <<row, lookup, seen>>

\* The charter is changed or removed in the database.
ChangeRow ==
    /\ row # Missing
    /\ row' \in {Missing} \cup {v \in 1..MaxVersions : v = row + 1}
    /\ seen' = [r \in Readers |-> IF lookup[r].at = "rest" THEN {} ELSE seen[r] \cup {row'}]
    /\ UNCHANGED <<entry, lookup>>

RegistryNext ==
    \/ ChangeRow \/ InvalidateCharter \/ \E hash \in 0..MaxVersions : register(hash)
    \/ \E r \in Readers : BeginLookup(r) \/ VerifyHash(r) \/ Fetch(r) \/ StoreEntry(r) \/ EndLookup(r)

RegistrySpec == RegistryInit /\ [][RegistryNext]_registryVars

-----------------------------------------------------------------------------
(* The decision cache stays within its size, and what it serves was true not long
   ago: a value it answers with was the present one within its time to live and
   the time one evaluation takes - also when the value was invalidated while
   another evaluation was still computing it, which then stores it again.      *)
ServedIsRecent ==
    /\ Cardinality(DOMAIN cached) <= MaxEntries
    /\ \A r \in Readers : reader[r].at = "hit" =>
        validity[reader[r].entry][reader[r].version] <= ttl(reader[r].entry) + MaxEvaluation

(* A charter looked up is one the database had while the lookup ran - however the
   row, the registry and other lookups changed meanwhile - and "not found" is
   only said of a charter that was gone at some moment of the lookup.          *)
LookupIsCurrent ==
    \A r \in Readers : lookup[r].at = "done" => lookup[r].entry.compiled \in seen[r]

(* Neither cache answers with what is long gone, however evaluations, lookups,
   invalidations and updates of the row overlap.                               *)
CachesCurrent == ServedIsRecent /\ LookupIsCurrent
=============================================================================
