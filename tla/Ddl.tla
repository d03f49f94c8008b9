-------------------------------- MODULE Ddl --------------------------------
(***************************************************************************)
(* The schema operations of Alembic that the migrations call, and what     *)
(* PostgreSQL does with them.  A database is a record                      *)
(*   ok       no operation of the transaction has been refused,            *)
(*   types    the extensions and enum types that are installed,            *)
(*   tables   per existing table, its columns: how each is filled when a   *)
(*            row does not name it, and its type,                          *)
(*   indexes  the indexes and unique constraints, fks the foreign keys,    *)
(*   rows     the rows of hazard_events, as far as a migration touches them*)
(*   held     per table that holds a row, the KeyColumns in which some row *)
(*            has a value.                                                 *)
(* Nothing here is code of the repository: it is what the code relies on.  *)
(***************************************************************************)
EXTENDS Integers, Sequences, FiniteSets, TLC, SequencesExt

CONSTANT Spelling       \* per text that occurs, what LOWER(TRIM(...)) makes of it

NULL == "null"

(* sa.Column(...): NOT NULL without a default, NOT NULL with a server
   default, or nullable; "plain" stands for the types PostgreSQL always has. *)
typed(type, columns) == [c \in DOMAIN columns |-> [columns[c] EXCEPT !.type = type]]
required(names) == [c \in names |-> [fill |-> "required", type |-> "plain"]]
server_default(names) == [c \in names |-> [fill |-> "default", type |-> "plain"]]
nullable(names) == [c \in names |-> [fill |-> "null", type |-> "plain"]]

fk(name, table, columns, ref, ondelete) ==
    [name |-> name, table |-> table, columns |-> columns, ref |-> ref, ondelete |-> ondelete]
index(name, table, columns, unique) ==
    [name |-> name, table |-> table, columns |-> columns, unique |-> unique]

(* The operations.  A table is created with the foreign keys and the unique
   constraints written inside op.create_table. *)
create_table(table, columns, fks, uniques) ==
    [op |-> "create_table", table |-> table, columns |-> columns, fks |-> fks, uniques |-> uniques]
drop_table(table) == [op |-> "drop_table", table |-> table]
add_column(table, columns) == [op |-> "add_column", table |-> table, columns |-> columns]
drop_column(table, column) == [op |-> "drop_column", table |-> table, column |-> column]
rename_column(table, column, new) ==
    [op |-> "rename_column", table |-> table, column |-> column, new |-> new]
create_index(name, table, columns) ==
    [op |-> "create_index", index |-> index(name, table, columns, FALSE)]
create_unique(name, table, columns) ==
    [op |-> "create_index", index |-> index(name, table, columns, TRUE)]
drop_index(name, table) == [op |-> "drop_index", name |-> name, table |-> table]
create_foreign_key(key) == [op |-> "create_foreign_key", key |-> key]
drop_constraint(name, table) == [op |-> "drop_constraint", name |-> name, table |-> table]
create_type(name) == [op |-> "create_type", name |-> name]
drop_type(name, cascade) == [op |-> "drop_type", name |-> name, cascade |-> cascade]
insert_row(table) == [op |-> "insert_row", table |-> table]
copy_column(table, column, from) ==          \* UPDATE table SET column = from
    [op |-> "copy_column", table |-> table, column |-> column, from |-> from]
set_where(table, column, value, where, equals) ==
    [op |-> "set_where", table |-> table, column |-> column, value |-> value,
     from |-> where, equals |-> equals]

(* Tables, indexes and unique constraints share one name space. *)
Relations(s) == DOMAIN s.tables \cup {i.name : i \in s.indexes}

(* The columns declared with a type that is not installed. *)
MissingType(s, columns) ==
    {c \in DOMAIN columns : columns[c].type \notin s.types \cup {"plain"}}

UsedBy(s, type) ==
    UNION {{<<t, c>> : c \in {c \in DOMAIN s.tables[t] : s.tables[t][c].type = type}} :
              t \in DOMAIN s.tables}

(* Only the columns are followed on which a key is declared after their table
   is created: eval_benchmark_runs', investigations' and hazard_events'. *)
KeyColumns == {"investigation_id", "user_id", "source", "external_id"}

(* Some row has a value in each of the columns.  As long as no key is declared
   on them nothing makes two such rows differ, or keeps the row they refer to. *)
Held(s, table, columns) == table \in DOMAIN s.held /\ columns \subseteq s.held[table]

(* What PostgreSQL requires of an operation.  A key that is declared on a table
   with rows is validated against them; NULL refers to nothing and differs from
   every NULL. *)
Allowed(s, o) ==
    CASE o.op = "create_table" ->
            /\ o.table \notin Relations(s)
            /\ MissingType(s, o.columns) = {}
            /\ {k.ref : k \in o.fks} \subseteq DOMAIN s.tables
            /\ {u.name : u \in o.uniques} \cap Relations(s) = {}
      [] o.op = "drop_table" ->
            /\ o.table \in DOMAIN s.tables
            /\ \A k \in s.fks : k.ref = o.table => k.table = o.table
      [] o.op = "add_column" ->
            /\ o.table \in DOMAIN s.tables
            /\ DOMAIN o.columns \cap DOMAIN s.tables[o.table] = {}
            /\ MissingType(s, o.columns) = {}
            /\ o.table \in DOMAIN s.held => \A c \in DOMAIN o.columns : o.columns[c].fill # "required"
      [] o.op = "drop_column" -> o.table \in DOMAIN s.tables /\ o.column \in DOMAIN s.tables[o.table]
      [] o.op = "rename_column" ->
            /\ o.table \in DOMAIN s.tables /\ o.column \in DOMAIN s.tables[o.table]
            /\ o.new \notin DOMAIN s.tables[o.table]
      [] o.op = "create_index" ->
            /\ o.index.name \notin Relations(s)
            /\ o.index.table \in DOMAIN s.tables
            /\ o.index.columns \subseteq DOMAIN s.tables[o.index.table]
            /\ ~(o.index.unique /\ Held(s, o.index.table, o.index.columns))
      [] o.op = "drop_index" ->
            \E i \in s.indexes : i.name = o.name /\ i.table = o.table
      [] o.op = "create_foreign_key" ->
            /\ {o.key.table, o.key.ref} \subseteq DOMAIN s.tables
            /\ o.key.columns \subseteq DOMAIN s.tables[o.key.table]
            /\ o.key.name \notin {k.name : k \in s.fks}
            /\ ~Held(s, o.key.table, o.key.columns)
      [] o.op = "drop_constraint" ->
            \E k \in s.fks \cup s.indexes : k.name = o.name /\ k.table = o.table
      [] o.op = "drop_type" -> o.cascade \/ UsedBy(s, o.name) = {}
      [] o.op = "insert_row" -> o.table \in DOMAIN s.tables
      [] o.op \in {"copy_column", "set_where"} ->
            o.table \in DOMAIN s.tables /\ {o.column, o.from} \subseteq DOMAIN s.tables[o.table]
      [] OTHER -> TRUE

Without(f, x) == [y \in DOMAIN f \ {x} |-> f[y]]

(* The table's rows, if there are any, from now on have values in these columns. *)
HoldIn(s, table, columns) ==
    [t \in DOMAIN s.held |-> IF t = table THEN columns ELSE s.held[t]]

(* Only the columns that hold a hazard event's place are followed row by row. *)
RowColumns == {"region", "region_label", "region_geom", "region_str"}

(* Dropping a column also drops the indexes and the foreign keys on it. *)
DropColumn(s, table, column) ==
    [s EXCEPT !.tables[table] = Without(@, column),
              !.indexes = {i \in @ : ~(i.table = table /\ column \in i.columns)},
              !.fks = {k \in @ : ~(k.table = table /\ column \in k.columns)},
              !.held = HoldIn(s, table, s.held[table] \ {column}),
              !.rows = IF table = "hazard_events" THEN [r \in DOMAIN @ |-> Without(@[r], column)] ELSE @]

(* SQL's LOWER(TRIM(...)), on the texts that occur. *)
lower_trim(text) == IF text \in DOMAIN Spelling THEN Spelling[text] ELSE text

(* What the operation then does. *)
Effect(s, o) ==
    CASE o.op = "create_table" ->
            [s EXCEPT !.tables = (o.table :> o.columns) @@ @,
                      !.fks = @ \cup o.fks, !.indexes = @ \cup o.uniques]
      [] o.op = "drop_table" ->
            [s EXCEPT !.tables = Without(@, o.table),
                      !.indexes = {i \in @ : i.table # o.table},
                      !.fks = {k \in @ : k.table # o.table},
                      !.held = Without(@, o.table),
                      !.rows = IF o.table = "hazard_events" THEN <<>> ELSE @]
      [] o.op = "add_column" ->
            [s EXCEPT !.tables[o.table] = o.columns @@ @,
                      !.held = HoldIn(s, o.table, s.held[o.table] \cup
                                {c \in DOMAIN o.columns \cap KeyColumns : o.columns[c].fill = "default"}),
                      !.rows = IF o.table = "hazard_events"
                               THEN [r \in DOMAIN @ |->
                                       [c \in DOMAIN o.columns \cap RowColumns |-> NULL] @@ @[r]]
                               ELSE @]
      [] o.op = "drop_column" -> DropColumn(s, o.table, o.column)
      [] o.op = "rename_column" ->
            [s EXCEPT !.tables[o.table] = (o.new :> @[o.column]) @@ Without(@, o.column),
                      !.rows = [r \in DOMAIN @ |-> (o.new :> @[r][o.column]) @@ Without(@[r], o.column)]]
      [] o.op = "create_index" -> [s EXCEPT !.indexes = @ \cup {o.index}]
      [] o.op = "drop_index" -> [s EXCEPT !.indexes = {i \in @ : i.name # o.name}]
      [] o.op = "create_foreign_key" -> [s EXCEPT !.fks = @ \cup {o.key}]
      [] o.op = "drop_constraint" ->
            [s EXCEPT !.fks = {k \in @ : k.name # o.name}, !.indexes = {i \in @ : i.name # o.name}]
      [] o.op = "create_type" -> [s EXCEPT !.types = @ \cup {o.name}]
      [] o.op = "drop_type" ->
            LET dropped == FoldSet(LAMBDA tc, acc : DropColumn(acc, tc[1], tc[2]), s, UsedBy(s, o.name))
            IN  [dropped EXCEPT !.types = @ \ {o.name}]
      [] o.op = "insert_row" -> [s EXCEPT !.held = (o.table :> DOMAIN s.tables[o.table] \cap KeyColumns) @@ @]
      [] o.op = "copy_column" ->
            [s EXCEPT !.rows = [r \in DOMAIN @ |-> [@[r] EXCEPT ![o.column] = s.rows[r][o.from]]]]
      [] o.op = "set_where" ->
            [s EXCEPT !.rows = [r \in DOMAIN @ |-> [@[r] EXCEPT ![o.column] =
                IF lower_trim(s.rows[r][o.from]) = o.equals THEN o.value ELSE @]]]

(* One operation, and a sequence of them, in one transaction: after a refusal
   nothing more is done. *)
Execute(s, o) ==
    IF s.ok /\ Allowed(s, o) THEN Effect(s, o) ELSE [s EXCEPT !.ok = FALSE]

ExecuteAll(s, ops) == FoldLeft(Execute, s, ops)

=============================================================================
