---------------------------- MODULE PolicyReleases ----------------------------
(***************************************************************************)
(* Definitions, adapters and releases of one policy.  created_at grows with *)
(* the row id.  Every request reads first and writes in a statement of its  *)
(* own.  Where the phrases pass order_by to select_one, which has no such   *)
(* parameter, the order they ask for is modelled.  A hash is the tuple of   *)
(* what is hashed.                                                          *)
(***************************************************************************)
EXTENDS Rows

CONSTANTS
    PolicyClients,    \* concurrent requests
    PolicyVersions,   \* versions of the definition, in order
    Contents,         \* contents of adapters
    MaxPolicyRows     \* bound: rows of each table and its pending inserts

ASSUME PolicyAssumption == IsFiniteSet(PolicyClients) /\ Null \notin {"active", "published"}

VARIABLES
    policy_definitions,
    policy_adapters,
    policy_releases,
    policyReq         \* policyReq[c]: the statement c has still to send

policyVars == <<policy_definitions, policy_adapters, policy_releases, policyReq>>

PolicyIdle == [at |-> "idle"]

PolicyInit ==
    /\ policy_definitions = <<>>
    /\ policy_adapters = <<>>
    /\ policy_releases = <<>>
    /\ policyReq = [c \in PolicyClients |-> PolicyIdle]

Room(name, rows) ==
    Cardinality(DOMAIN rows) + Cardinality({c \in PolicyClients : policyReq[c].at = name}) < MaxPolicyRows

\* ORDER BY created_at DESC LIMIT 1
NewestOf(table, where) ==
    LET ids == select(table, where)
    IN  IF ids = {} THEN Null ELSE CHOOSE i \in ids : \A j \in ids : j <= i

DefinitionHash(version, content) == <<"definition", version, content>>

AdapterHash(row) == <<"adapter", row.definition_version, row.content>>

-----------------------------------------------------------------------------
\* The row a request has still to insert, and the table
Inserts(c, table, row) ==
    /\ policyReq[c] = PolicyIdle
    /\ policyReq' = [policyReq EXCEPT ![c] = [at |-> table, row |-> row]]
    /\ UNCHANGED <<policy_definitions, policy_adapters, policy_releases>>

Written(c, table, rows) ==
    IF policyReq[c].at = table THEN insert(rows, NextId(rows), policyReq[c].row) ELSE rows

PolicyInsert(c) ==
    /\ policyReq[c].at \in {"definition", "adapter", "release"}
    /\ policy_definitions' = Written(c, "definition", policy_definitions)
    /\ policy_adapters' = Written(c, "adapter", policy_adapters)
    /\ policy_releases' = Written(c, "release", policy_releases)
    /\ policyReq' = [policyReq EXCEPT ![c] = PolicyIdle]

\* Every request defines a content of its own.
create_policy_definition(c, version) ==
    /\ Room("definition", policy_definitions)
    /\ select(policy_definitions, [version |-> version]) = {}
    /\ Inserts(c, "definition", [version |-> version, status |-> "draft", content |-> c,
                                 hash |-> DefinitionHash(version, c)])

\* For the newest definition only
create_policy_adapter(c, version, content) ==
    /\ Room("adapter", policy_adapters)
    /\ LET d == NewestOf(policy_definitions, <<>>)
       IN  d # Null /\ policy_definitions[d].version = version
    /\ Inserts(c, "adapter", [definition_version |-> version, content |-> content])

Pinned(d, a) ==
    [definition_version |-> policy_definitions[d].version, definition_hash |-> policy_definitions[d].hash,
     adapter |-> a, adapter_hash |-> AdapterHash(policy_adapters[a])]

NewRelease(c, entry, explicit) ==
    /\ Room("release", policy_releases)
    /\ Inserts(c, "release", [entry |-> entry, bundle_hash |-> <<"bundle", entry>>, explicit |-> explicit,
                              status |-> "draft", signature |-> Null, published_at |-> 0])

\* Named versions: the definition and the adapter are looked up independently.
create_release_explicit(c, d, a) == NewRelease(c, Pinned(d, a), TRUE)

\* Mutant: the newest adapter, whatever version it was written for.
create_policy_release_AnyAdapter(c) ==
    LET d == NewestOf(policy_definitions, <<>>)
        a == NewestOf(policy_adapters, <<>>)
    IN  d # Null /\ a # Null /\ NewRelease(c, Pinned(d, a), FALSE)

\* The newest definition and the newest adapter written for its version; both tables only
\* grow, so that the two reads are one.
create_policy_release(c) ==
    LET d == NewestOf(policy_definitions, <<>>)
    IN  /\ d # Null
        /\ LET a == NewestOf(policy_adapters, [definition_version |-> policy_definitions[d].version])
           IN  a # Null /\ NewRelease(c, Pinned(d, a), FALSE)

\* A later now_utc() than those stored or still to be stored
Later ==
    LET times == {0} \cup {policy_releases[r].published_at : r \in DOMAIN policy_releases}
                 \cup {policyReq[c].published_at : c \in {k \in PolicyClients : policyReq[k].at = "publish"}}
    IN  1 + CHOOSE t \in times : \A u \in times : u <= t

\* Without a key the UPDATE leaves the column signature alone: Null here.
PublishSelect(c, r, sign) ==
    /\ policyReq[c] = PolicyIdle
    /\ policy_releases[r].status = "draft"
    /\ policyReq' = [policyReq EXCEPT ![c] = [at |-> "publish", id |-> r, published_at |-> Later,
          signature |-> IF sign THEN <<"sig", policy_releases[r].bundle_hash>> ELSE Null]]
    /\ UNCHANGED <<policy_definitions, policy_adapters, policy_releases>>

PublishUpdate(c) ==
    /\ policyReq[c].at = "publish"
    /\ LET req == policyReq[c]
           row == policy_releases[req.id]
       IN  policy_releases' = [policy_releases EXCEPT ![req.id] =
               [row EXCEPT !.status = "published", !.published_at = req.published_at,
                           !.signature = IF req.signature # Null THEN req.signature ELSE row.signature]]
    /\ policyReq' = [policyReq EXCEPT ![c] = PolicyIdle]
    /\ UNCHANGED <<policy_definitions, policy_adapters>>

\* Activated by other code
release_activated(r) ==
    /\ policy_releases[r].status = "published"
    /\ policy_releases' = [policy_releases EXCEPT ![r].status = "active"]
    /\ UNCHANGED <<policy_definitions, policy_adapters, policyReq>>

LatestPublished(status) ==
    LET ids == select(policy_releases, [status |-> status])
    IN  {r \in ids : \A q \in ids : policy_releases[q].published_at <= policy_releases[r].published_at}

\* By version that release in any status, else the active one published last, else the
\* published one published last: the possible answers.
resolve_policy(named) ==
    IF named # Null THEN {named}
    ELSE IF LatestPublished("active") # {} THEN LatestPublished("active")
    ELSE LatestPublished("published")

\* Defining and releasing, with every overlap of the inserts
PolicyNext ==
    \E c \in PolicyClients :
        \/ PolicyInsert(c)
        \/ \E v \in PolicyVersions : create_policy_definition(c, v)
        \/ \E v \in PolicyVersions, k \in Contents : create_policy_adapter(c, v, k)
        \/ /\ policy_releases = <<>>
           /\ \/ create_policy_release(c)
              \/ \E d \in DOMAIN policy_definitions, a \in DOMAIN policy_adapters : create_release_explicit(c, d, a)

Alone == \A c \in PolicyClients : policyReq[c] = PolicyIdle

\* Publishing, with every overlap of the publications, releases of one definition and adapter
PublishNext ==
    \/ \E c \in PolicyClients :
          \/ PolicyInsert(c) \/ create_policy_release(c) \/ PublishUpdate(c)
          \/ \E v \in PolicyVersions : Alone /\ policy_definitions = <<>> /\ create_policy_definition(c, v)
          \/ \E v \in PolicyVersions, k \in Contents : Alone /\ policy_adapters = <<>> /\ create_policy_adapter(c, v, k)
    \/ \E c \in PolicyClients, r \in DOMAIN policy_releases, sign \in BOOLEAN : PublishSelect(c, r, sign)
    \/ \E r \in DOMAIN policy_releases : release_activated(r)

PolicySpec == PolicyInit /\ [][PolicyNext \/ PublishNext]_policyVars

-----------------------------------------------------------------------------
\* What a release pins can be evaluated later: its hashes are those of a definition and an
\* adapter in the tables, also when a version was defined twice by overlapping requests; in a
\* release assembled from policy ids the adapter was written for the very definition version
\* it is pinned with; and a signature covers the bundle it is
\* stored with.
ReleasePinsWhatExists ==
    \A r \in DOMAIN policy_releases :
          LET e == policy_releases[r].entry
              row == policy_releases[r]
          IN  /\ \E d \in DOMAIN policy_definitions : policy_definitions[d].hash = e.definition_hash
              /\ AdapterHash(policy_adapters[e.adapter]) = e.adapter_hash
              /\ ~row.explicit => policy_adapters[e.adapter].definition_version = e.definition_version
              /\ row.bundle_hash = <<"bundle", e>>
              /\ row.signature # Null => row.status # "draft" /\ row.signature[2] = row.bundle_hash

\* Without a version resolve_policy finds a release exactly when one was published, also
\* when two publications of the same release overlap, and never one that is still a draft.
ResolvesWhatWasPublished ==
    LET live == {r \in DOMAIN policy_releases : policy_releases[r].status # "draft"}
    IN  /\ resolve_policy(Null) \subseteq live
        /\ live # {} => resolve_policy(Null) # {}

\* What a release refers to is there, however requests overlap or end early: it pins a definition
\* and an adapter that exist, and resolve_policy finds a release once one was published.
ReferencesResolve == ReleasePinsWhatExists /\ ResolvesWhatWasPublished
=============================================================================
