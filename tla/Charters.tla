------------------------------- MODULE Charters -------------------------------
(***************************************************************************)
(* The charters of one tenant.  Two packages move the same rows: charter    *)
(* (draft, active, suspended, retired) and core (draft, ratified, active,   *)
(* superseded).  Activation selects the charter, selects the active ones,   *)
(* retires them one UPDATE at a time and then activates; every statement    *)
(* names rows by id only and is committed by itself.                        *)
(***************************************************************************)
EXTENDS Rows

CONSTANTS
    CharterClients,   \* concurrent requests
    MaxCharters,      \* bound: rows of charters
    Gates             \* gates and evidence requirements a decision may need

ASSUME TenantAssumption == Null # "active"

VARIABLES
    charters,
    bindings,       \* charter_surface_bindings: [charter, requirements]
    charterReq,     \* charterReq[c]: the statements c has still to send
    charterCut      \* an activation was cut off between two statements, or a ratification
                    \* overwrote a status newer than the one it had read

charterVars == <<charters, bindings, charterReq, charterCut>>

CharterIdle == [at |-> "idle"]

CharterInit ==
    /\ charters = <<>>
    /\ bindings = {}
    /\ charterReq = [c \in CharterClients |-> CharterIdle]
    /\ charterCut = FALSE

-----------------------------------------------------------------------------
create_charter ==
    /\ Cardinality(DOMAIN charters) < MaxCharters
    /\ charters' = insert(charters, NextId(charters), [status |-> "draft"])
    /\ UNCHANGED <<bindings, charterReq, charterCut>>

\* CharterStatus.can_transition_to(ACTIVE)
can_transition_to_active(status) == status \in {"draft", "suspended"}

\* charter.activate_charter accepts what can become active, core.activate_charter what is
\* ratified; they retire, or supersede, what is active.
Activatable(pkg, status) ==
    IF pkg = "charter" THEN can_transition_to_active(status) ELSE status = "ratified"

Replaced(pkg) == IF pkg = "charter" THEN "retired" ELSE "superseded"

RatifySelect(c, id) ==
    /\ charterReq[c] = CharterIdle
    /\ charters[id].status = "draft"
    /\ charterReq' = [charterReq EXCEPT ![c] = [at |-> "ratify", id |-> id]]
    /\ UNCHANGED <<charters, bindings, charterCut>>

RatifyUpdate(c) ==
    /\ charterReq[c].at = "ratify"
    /\ charterCut' = (charterCut \/ charters[charterReq[c].id].status # "draft")
    /\ charters' = [charters EXCEPT ![charterReq[c].id].status = "ratified"]
    /\ charterReq' = [charterReq EXCEPT ![c] = CharterIdle]
    /\ UNCHANGED bindings

\* Done by other code: only an active charter can be suspended.
charter_suspended(id) ==
    /\ charters[id].status = "active"
    /\ charters' = [charters EXCEPT ![id].status = "suspended"]
    /\ UNCHANGED <<bindings, charterReq, charterCut>>

ActivateSelect(c, pkg, id) ==
    /\ charterReq[c] = CharterIdle
    /\ Activatable(pkg, charters[id].status)
    /\ charterReq' = [charterReq EXCEPT ![c] = [at |-> "active", id |-> id, pkg |-> pkg]]
    /\ UNCHANGED <<charters, bindings, charterCut>>

ActivateSelectActive(c) ==
    /\ charterReq[c].at = "active"
    /\ charterReq' = [charterReq EXCEPT ![c] = [at |-> "retire", id |-> @.id, pkg |-> @.pkg,
          others |-> select(charters, [status |-> "active"]) \ {@.id}]]
    /\ UNCHANGED <<charters, bindings, charterCut>>

RetireUpdate(c) ==
    /\ charterReq[c].at = "retire" /\ charterReq[c].others # {}
    /\ \E o \in charterReq[c].others :
          /\ charters' = [charters EXCEPT ![o].status = Replaced(charterReq[c].pkg)]
          /\ charterReq' = [charterReq EXCEPT ![c].others = @ \ {o}]
    /\ UNCHANGED <<bindings, charterCut>>

\* Mutant: what is active is looked up without leaving out the charter itself, after it was
\* activated.
ActivateUpdate_RetiresItself(c) ==
    /\ charterReq[c].at = "retire" /\ charterReq[c].others = {}
    /\ charters' = [charters EXCEPT ![charterReq[c].id].status =
          IF @ = "active" THEN Replaced(charterReq[c].pkg) ELSE "active"]
    /\ charterReq' = [charterReq EXCEPT ![c] = CharterIdle]
    /\ UNCHANGED <<bindings, charterCut>>

ActivateUpdate(c) ==
    /\ charterReq[c].at = "retire" /\ charterReq[c].others = {}
    /\ charters' = [charters EXCEPT ![charterReq[c].id].status = "active"]
    /\ charterReq' = [charterReq EXCEPT ![c] = CharterIdle]
    /\ UNCHANGED <<bindings, charterCut>>

ActivateAbort(c) ==
    /\ charterReq[c] # CharterIdle
    /\ charterReq' = [charterReq EXCEPT ![c] = CharterIdle]
    /\ charterCut' = TRUE
    /\ UNCHANGED <<charters, bindings>>

\* One surface; a binding that exists is refused, but looked for in a statement of its own.
BindSelect(c, id, requirements) ==
    /\ charterReq[c] = CharterIdle
    /\ charters[id].status \in {"draft", "active"}
    /\ ~\E b \in bindings : b.charter = id
    /\ charterReq' = [charterReq EXCEPT ![c] =
          [at |-> "bind", row |-> [charter |-> id, requirements |-> requirements]]]
    /\ UNCHANGED <<charters, bindings, charterCut>>

BindInsert(c) ==
    /\ charterReq[c].at = "bind"
    /\ bindings' = bindings \cup {charterReq[c].row}
    /\ charterReq' = [charterReq EXCEPT ![c] = CharterIdle]
    /\ UNCHANGED <<charters, charterCut>>

-----------------------------------------------------------------------------
\* A gate whose fact is false, and a gate no fact is given for, block.
Blocking(constraints, facts) == {g \in constraints : g \notin DOMAIN facts \/ ~facts[g]}

\* "error": the charter is not active or the surface not bound.
evaluate_decision(id, constraints, facts) ==
    IF charters[id].status # "active" \/ ~\E b \in bindings : b.charter = id THEN {"error"}
    ELSE {IF Blocking(constraints, facts) = {} /\ Blocking(b.requirements, facts) = {}
          THEN "allowed" ELSE "refused" : b \in {x \in bindings : x.charter = id}}

\* The active charters by effective_from, newest first: any active one may come out.
resolve_charter ==
    LET active == select(charters, [status |-> "active"])
    IN  IF active = {} THEN {Null} ELSE active

get_charter_by_id(id) == IF id \in DOMAIN charters THEN charters[id].status ELSE Null

get_charter_history == DOMAIN charters

CharterNext ==
    \/ create_charter
    \/ \E id \in DOMAIN charters : charter_suspended(id)
    \/ \E c \in CharterClients, id \in DOMAIN charters : RatifySelect(c, id)
    \/ \E c \in CharterClients, id \in DOMAIN charters, pkg \in {"charter", "core"} :
          ActivateSelect(c, pkg, id)
    \/ \E c \in CharterClients :
          \/ ActivateSelectActive(c) \/ RetireUpdate(c) \/ ActivateUpdate(c)
          \/ RatifyUpdate(c) \/ ActivateAbort(c)

\* Decisions under one charter
BindingNext ==
    \/ charters = <<>> /\ create_charter
    \/ \E c \in CharterClients, id \in DOMAIN charters, r \in SUBSET Gates : BindSelect(c, id, r)
    \/ \E c \in CharterClients, id \in DOMAIN charters : ActivateSelect(c, "charter", id)
    \/ \E c \in CharterClients : BindInsert(c) \/ ActivateSelectActive(c) \/ ActivateUpdate(c)

CharterSpec == CharterInit /\ [][CharterNext \/ BindingNext]_charterVars

-----------------------------------------------------------------------------
InForce(id) == charters[id].status \in {"active", "suspended"}

\* A tenant that has had a charter activated keeps one: however activations of the two
\* packages overlap, when none is under way, none was cut off and no ratification overwrote a
\* newer status, a tenant with a replaced charter in its history has one that is active or
\* suspended, and resolve_charter finds one unless none is active.
ActiveCharterSurvives ==
    ((\A c \in CharterClients : charterReq[c] = CharterIdle) /\ ~charterCut) =>
        /\ (\E id \in get_charter_history :
               get_charter_by_id(id) \in {"active", "suspended", "retired", "superseded"})
              => \E id \in DOMAIN charters : InForce(id)
        /\ resolve_charter = {Null} => \A id \in DOMAIN charters : charters[id].status # "active"

Established(facts, g) == [x \in DOMAIN facts \cup {g} |-> IF x = g THEN TRUE ELSE facts[x]]

\* Decisions are monotone in what is established: a fact that becomes true never turns a
\* permission into a refusal, and a gate or an evidence requirement without a fact blocks
\* exactly like one that is false.
DecisionsMonotone ==
    \A id \in DOMAIN charters, constraints \in SUBSET Gates, known \in SUBSET Gates : \A facts \in [known -> BOOLEAN] :
        LET answer == evaluate_decision(id, constraints, facts)
        IN  /\ answer = evaluate_decision(id, constraints, [g \in Gates |-> g \in known /\ facts[g]])
            /\ \A g \in Gates : "allowed" \in answer =>
                  "allowed" \in evaluate_decision(id, constraints, Established(facts, g))

\* What is in force can be found and applied: a tenant keeps its charter through overlapping
\* activations, and decisions under it are monotone in what is established.
RulesInForce == ActiveCharterSurvives /\ DecisionsMonotone
=============================================================================
