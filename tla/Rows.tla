-------------------------------- MODULE Rows --------------------------------
(***************************************************************************)
(* The statements canon.db sends to the database.  A table is a function    *)
(* from row ids to rows, a row a function from columns to values, a where   *)
(* clause a record of the columns it compares.  Null never equals anything  *)
(* in SQL.  select_one has LIMIT 1 and no ORDER BY: it is the set of the    *)
(* answers the database may give, {Null} when no row matches.               *)
(***************************************************************************)
EXTENDS Integers, FiniteSets, TLC

CONSTANT Null

ASSUME NullAssumption == Null \notin Int

Matches(row, where) ==
    \A c \in DOMAIN where : where[c] # Null /\ row[c] = where[c]

select(table, where) == {id \in DOMAIN table : Matches(table[id], where)}

select_one(table, where) ==
    IF select(table, where) = {} THEN {Null} ELSE select(table, where)

count(table, where) == Cardinality(select(table, where))

insert(table, id, row) == [i \in DOMAIN table \cup {id} |-> IF i = id THEN row ELSE table[i]]

update(table, where, data) ==
    [id \in DOMAIN table |-> IF Matches(table[id], where) THEN data @@ table[id] ELSE table[id]]

delete(table, where) == [id \in DOMAIN table \ select(table, where) |-> table[id]]

\* The whole entity is written back by id, whatever the row has become meanwhile.
update_entity(table, id, entity) == [table EXCEPT ![id] = entity]

\* A new row gets an id no row has.
NextId(table) == CHOOSE id \in {1} \cup {i + 1 : i \in DOMAIN table} : id \notin DOMAIN table
=============================================================================
