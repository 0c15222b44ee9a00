--------------------------- MODULE SchemaMigration ---------------------------
(* State-based migration: the plan diff_schemas makes of the difference between
   the schema in the database and the one declared, run statement by statement.
   An object of a schema is a column, constraint, index or trigger of a table;
   the table itself is one of kind "table". Any statement may fail on the data,
   and the script ends there. Phase A is one transaction, phase B is not.
   Table names are numbers, in the order of the names.                          *)
EXTENDS Integers, Sequences, SequencesExt, FiniteSets

CONSTANTS DesiredSchemas   \* the schemas the entities may declare: sets of objects

VARIABLES
    db,         \* the objects in the database, each with its validity
    wanted,     \* the schema the plan leads to
    script,     \* the statements still to run
    planState,  \* "rest", "running" or "done"
    created,    \* the tables the plan creates
    atStart,    \* the database when the plan was made
    broken      \* whether a script has ended early

migrationVars == <<db, wanted, script, planState, created, atStart, broken>>

MigrationInit ==
    /\ db = {} /\ wanted = {} /\ script = <<>> /\ planState = "rest"
    /\ created = {} /\ atStart = {} /\ broken = FALSE

Valid(o) == [object |-> o, valid |-> TRUE]
NotValid(o) == [object |-> o, valid |-> FALSE]

\* What the catalogue queries return: they ask neither convalidated nor indisvalid.
introspect_schema(database) == {e.object : e \in database}

TablesOf(schema) == {o.table : o \in schema}
Of(schema, t, kind) == {o \in schema : o.table = t /\ o.kind = kind}
Named(objects, name) == {o \in objects : o.name = name}

Statement(op, phase, o) == [op |-> op, phase |-> phase, object |-> o]

\* diff_columns: an added or dropped column, or one statement for each attribute changed.
diff_columns(current, desired) ==
    LET new == CHOOSE o \in desired : TRUE
        old == CHOOSE o \in current : TRUE
    IN  IF current = {} THEN <<Statement("add", "A", new)>>
        ELSE IF desired = {} THEN <<Statement("drop", "A", old)>>
        ELSE SelectSeq(<<Statement("type", "A", new), Statement("nullable", "A", new), Statement("default", "A", new)>>,
                       LAMBDA s : old.def[s.op] # new.def[s.op])

\* A new foreign key is added NOT VALID and validated in phase B, a new index is
\* built in phase B; other objects are added in phase A.
Additions(o) ==
    CASE o.kind = "fk" -> <<Statement("add not valid", "A", o), Statement("validate", "B", o)>>
      [] o.kind = "index" -> <<Statement("add concurrently", "B", o)>>
      [] OTHER -> <<Statement("add", "A", o)>>

\* What changed under its name is dropped and added again, a foreign key at once.
Replacement_Kept(old, o) ==
    IF o.kind = "trigger" THEN <<Statement("drop", "A", old)>>
    ELSE <<Statement("drop", "A", old)>> \o Additions(o)

Replacement(old, o) ==
    <<Statement("drop", "A", old)>>
    \o IF o.kind = "fk" THEN <<Statement("add", "A", o)>> ELSE Additions(o)

\* The common form of the five functions below: drops, additions, replacements.
diff_named(current, desired) ==
    LET gone == SetToSeq({o \in current : Named(desired, o.name) = {}})
        new == SetToSeq({o \in desired : Named(current, o.name) = {}})
        changed == SetToSeq({o \in desired : Named(current, o.name) \notin {{}, {o}}})
    IN  [i \in DOMAIN gone |-> Statement("drop", "A", gone[i])]
        \o FlattenSeq([i \in DOMAIN new |-> Additions(new[i])])
        \o FlattenSeq([i \in DOMAIN changed |->
                Replacement(CHOOSE old \in Named(current, changed[i].name) : TRUE, changed[i])])

diff_foreign_keys(current, desired, t) == diff_named(Of(current, t, "fk"), Of(desired, t, "fk"))

diff_indexes(current, desired, t) == diff_named(Of(current, t, "index"), Of(desired, t, "index"))

diff_triggers(current, desired, t) == diff_named(Of(current, t, "trigger"), Of(desired, t, "trigger"))

diff_check_constraints(current, desired, t) == diff_named(Of(current, t, "check"), Of(desired, t, "check"))

diff_unique_constraints(current, desired, t) == diff_named(Of(current, t, "unique"), Of(desired, t, "unique"))

\* A new table is created with its columns, then its keys, indexes and triggers are
\* added, and neither its CHECK nor its UNIQUE constraints.
Creation(desired, t) ==
    [i \in 1..1 |-> Statement("create table", "A", [table |-> t, kind |-> "table", name |-> t, def |-> Of(desired, t, "column")])]
    \o FlattenSeq([k \in 1..3 |->
            LET objects == SetToSeq(Of(desired, t, <<"fk", "index", "trigger">>[k]))
            IN  [i \in DOMAIN objects |-> Statement("add", "A", objects[i])]])

diff_tables(current, desired, t) ==
    IF Of(current, t, "table") = {} THEN Creation(desired, t)
    ELSE IF Of(desired, t, "table") = {}
    THEN <<Statement("drop table", "A", CHOOSE o \in Of(current, t, "table") : TRUE)>>
    ELSE LET names == SetToSeq({o.name : o \in Of(current \cup desired, t, "column")})
         IN  FlattenSeq([i \in DOMAIN names |->
                diff_columns(Named(Of(current, t, "column"), names[i]), Named(Of(desired, t, "column"), names[i]))])
             \o diff_foreign_keys(current, desired, t) \o diff_indexes(current, desired, t)
             \o diff_triggers(current, desired, t) \o diff_check_constraints(current, desired, t)
             \o diff_unique_constraints(current, desired, t)

\* Tables come in the order of their names.
diff_schemas(current, desired) ==
    LET tables == SetToSortSeq({o.table : o \in current \cup desired}, LAMBDA t, u : t < u)
        ops == FlattenSeq([i \in DOMAIN tables |-> diff_tables(current, desired, tables[i])])
    IN  SelectSeq(ops, LAMBDA s : s.phase = "A") \o SelectSeq(ops, LAMBDA s : s.phase = "B")

-----------------------------------------------------------------------------
\* The database. Dropping a column takes its indexes and constraints with it, and
\* dropping a table CASCADE the foreign keys that refer to it.
Uses(o, column) == o.table = column.table /\ o.kind \in {"fk", "index", "check", "unique"} /\ column.name \in o.def.columns
Present(o) == \E e \in db : e.object.table = o.table /\ e.object.kind = o.kind /\ e.object.name = o.name
Has(t, kind, name) == \E e \in db : e.object.table = t /\ e.object.kind = kind /\ e.object.name = name

\* Whether the database accepts a statement; IF NOT EXISTS statements are accepted anyway.
Accepts(s) ==
    CASE s.op = "create table" -> TRUE
      [] s.op \in {"drop", "drop table", "validate", "type", "nullable", "default"} -> Present(s.object)
      [] OTHER ->
            /\ (s.object.kind # "index" => ~Present(s.object))
            /\ Has(s.object.table, "table", s.object.table)
            /\ s.object.kind \in {"fk", "index", "check", "unique"} =>
                    \A c \in s.object.def.columns : Has(s.object.table, "column", c)
            /\ s.object.kind = "fk" => Has(s.object.def.ref, "table", s.object.def.ref)

Effect(s) ==
    LET o == s.object
        without == {e \in db : ~(e.object.table = o.table /\ e.object.kind = o.kind /\ e.object.name = o.name)}
        old == CHOOSE e \in db \ without : TRUE
    IN  CASE s.op = "create table" ->
                IF Present(o) THEN db ELSE db \cup {Valid(c) : c \in o.def} \cup {Valid([o EXCEPT !.def = "table"])}
          [] s.op = "drop table" ->
                {e \in db : e.object.table # o.table /\ ~(e.object.kind = "fk" /\ e.object.def.ref = o.table)}
          [] s.op = "drop" -> IF o.kind = "column" THEN {e \in without : ~Uses(e.object, o)} ELSE without
          [] s.op \in {"type", "nullable", "default"} ->
                without \cup {[old EXCEPT !.object.def[s.op] = o.def[s.op]]}
          [] s.op = "validate" -> without \cup {Valid(o)}
          [] s.op = "add not valid" -> without \cup {NotValid(o)}
          [] OTHER -> IF Present(o) THEN db ELSE db \cup {Valid(o)}

\* An operator plans, reading the database as it is, and runs phase A in one
\* transaction and then phase B.
PlanMigration(desired) ==
    /\ planState # "running"
    /\ wanted' = desired
    /\ script' = diff_schemas(introspect_schema(db), desired)
    /\ created' = TablesOf(desired) \ TablesOf(introspect_schema(db))
    /\ atStart' = db /\ planState' = "running"
    /\ UNCHANGED <<db, broken>>

RunStatement ==
    /\ planState = "running" /\ script # <<>> /\ Accepts(Head(script))
    /\ db' = Effect(Head(script)) /\ script' = Tail(script)
    /\ UNCHANGED <<wanted, planState, created, atStart, broken>>

\* A statement is refused, or fails on the data, or the process ends: phase A is
\* undone. An index whose concurrent build fails stays, marked invalid.
StatementFails ==
    /\ planState = "running" /\ script # <<>>
    /\ LET s == Head(script)
       IN  db' \in IF s.phase = "A" THEN {atStart}
                   ELSE {db} \cup IF s.op = "add concurrently" /\ Accepts(s) /\ ~Present(s.object)
                                  THEN {db \cup {NotValid(s.object)}} ELSE {}
    /\ script' = <<>> /\ planState' = "rest" /\ broken' = TRUE
    /\ UNCHANGED <<wanted, created, atStart>>

EndPlan ==
    /\ planState = "running" /\ script = <<>>
    /\ planState' = "done"
    /\ UNCHANGED <<db, wanted, script, created, atStart, broken>>

MigrationNext ==
    \/ RunStatement \/ StatementFails \/ EndPlan
    \/ \E desired \in DesiredSchemas : PlanMigration(desired)

-----------------------------------------------------------------------------
\* A plan that ran to its end leaves the declared schema in the database, whatever
\* was there before and wherever earlier scripts stopped; all it may lack are the
\* CHECK and UNIQUE constraints of the tables it created (diff_schemas).
MigrationReachesDesired ==
    planState = "done" =>
        /\ introspect_schema(db) \subseteq wanted
        /\ \A o \in wanted \ introspect_schema(db) : o.kind \in {"check", "unique"} /\ o.table \in created

\* While no script has failed, a finished plan leaves no constraint unvalidated and
\* no index invalid (diff_foreign_keys, diff_indexes); after a failure in phase B it
\* may, since a later plan does not see them.
InvalidOnlyAfterFailure ==
    planState = "done" /\ ~broken => \A e \in db : e.valid

\* A finished plan did its work: the declared schema is there, and nothing of it is invalid
\* unless a script failed on the way.
MigrationComplete == MigrationReachesDesired /\ InvalidOnlyAfterFailure
=============================================================================
