-------------------------- MODULE SchemaEvolution --------------------------
(***************************************************************************)
(* data/migrations/env.py and the migrations it runs.  An operator's       *)
(* `alembic upgrade head`, `downgrade -1` or `downgrade base` reads the    *)
(* version, and then runs every script on the way in ONE transaction       *)
(* (online mode sets no transaction_per_migration).  Each script ends by   *)
(* moving the version row, which fails when another run has moved it: that *)
(* run's transaction and everything it did is rolled back.  Two operators  *)
(* may run Alembic at once, either may be killed, and the application,     *)
(* whose models are those of the newest revision, writes rows meanwhile.   *)
(***************************************************************************)
EXTENDS OrmModels

CONSTANTS
    Operators,      \* the concurrent runs of Alembic
    Commands,       \* per operator, the commands it gives: "head", "-1", "base"
    Labels,         \* the texts a hazard event's place can have
    Coordinates,    \* a point that an ingested event brings along
    MaxRows,        \* hazard events written
    WrittenTables   \* the other tables the application writes to here

VARIABLES
    db,             \* the committed database
    version,        \* how many of the upgrades are applied (alembic_version)
    run             \* per operator, the run in progress: from where to where

vars == <<db, version, run>>

Idle == [from |-> -1, to |-> -1]

empty_database(types) ==
    [ok |-> TRUE, types |-> types, tables |-> <<>>, indexes |-> {}, fks |-> {}, rows |-> <<>>,
     held |-> <<>>]

(* The scripts between two revisions, run one after the other. *)
scripts(from, to) ==
    IF from <= to THEN SubSeq(upgrades, from + 1, to) ELSE Reverse(SubSeq(downgrades, to + 1, from))

migrate(s, from, to) ==
    FoldLeft(LAMBDA acc, script : IF acc.ok THEN ExecuteAll(acc, script) ELSE acc, s, scripts(from, to))

(* The key columns in which the application's rows have values.  The harness
   records a benchmark run without the investigation it belongs to. *)
written(s, table) ==
    (DOMAIN s.tables[table] \cap KeyColumns)
        \ (IF table = "eval_benchmark_runs" THEN {"investigation_id"} ELSE {})

(* A new database, in which the container's init-extensions.sql may have
   installed the extensions. *)
FreshDatabase ==
    /\ \E types \in {{}, {"postgis", "vector"}} : db = empty_database(types)
    /\ version = 0

(* The database of the release before 0011, whose events name their region. *)
EarlierDatabase ==
    /\ \E regions \in SeqOf(Labels, MaxRows) :
          LET s == migrate(empty_database({}), 0, rev_0011 - 1)
              tables == {"users", "investigations", "eval_benchmark_runs"}
                          \cup (IF regions = <<>> THEN {} ELSE {"hazard_events"})
          IN  db = [s EXCEPT !.rows = [r \in DOMAIN regions |-> [region |-> regions[r], given |-> NULL,
                                                                   named |-> regions[r]]],
                             !.held = [t \in tables |-> written(s, t)] @@ @]
    /\ version = rev_0011 - 1

Init ==
    /\ FreshDatabase \/ EarlierDatabase
    /\ run = [o \in Operators |-> Idle]

(* Where upgrade head, downgrade -1 and downgrade base lead. *)
target(command) ==
    CASE command = "head" -> head
      [] command = "-1" -> version - 1
      [] command = "base" -> 0

(* An operator starts Alembic, which reads the version. *)
alembic(o) ==
    /\ run[o] = Idle
    /\ \E command \in Commands[o] :
          /\ command = "-1" => version > 0
          /\ run' = [run EXCEPT ![o] = [from |-> version, to |-> target(command)]]
    /\ UNCHANGED <<db, version>>

(* The transaction: committed as a whole, or rolled back as a whole. *)
do_run_migrations(o) ==
    /\ run[o] # Idle
    /\ LET after == migrate(db, run[o].from, run[o].to)
       IN  IF run[o].from = version /\ after.ok
           THEN db' = after /\ version' = run[o].to
           ELSE UNCHANGED <<db, version>>
    /\ run' = [run EXCEPT ![o] = Idle]

(* Alembic is killed, or loses its connection, before it commits. *)
Killed(o) ==
    /\ run[o] # Idle
    /\ run' = [run EXCEPT ![o] = Idle]
    /\ UNCHANGED <<db, version>>

(* The table can hold what the application writes through the model. *)
Serves(m) ==
    /\ m.table \in DOMAIN db.tables
    /\ LET columns == db.tables[m.table]
       IN  /\ DOMAIN columns = DOMAIN m.columns
           /\ \A c \in DOMAIN columns :
                 /\ columns[c].type = m.columns[c].type
                 /\ columns[c].fill = "null" <=> m.columns[c].fill = "null"
    /\ m.fks = {<<k.columns, k.ref, k.ondelete>> : k \in {k \in db.fks : k.table = m.table}}
    /\ m.uniques = {i.columns : i \in {i \in db.indexes : i.table = m.table /\ i.unique}}

(* The application records a hazard event, with or without a point. *)
WriteHazardEvent ==
    /\ Serves(HazardEvent)
    /\ Len(db.rows) < MaxRows
    /\ \E label \in Labels \cup {NULL}, point \in {NULL, Coordinates} :
          db' = [db EXCEPT !.rows = Append(@, [region |-> point, region_label |-> label,
                                               given |-> point, named |-> label]),
                           !.held = ("hazard_events" :> written(db, "hazard_events")) @@ @]
    /\ UNCHANGED <<version, run>>

(* The application writes the first row of another table. *)
WriteRow(m) ==
    /\ m.table \in WrittenTables \ DOMAIN db.held
    /\ Serves(m)
    /\ db' = [db EXCEPT !.held = (m.table :> written(db, m.table)) @@ @]
    /\ UNCHANGED <<version, run>>

Next ==
    \/ \E o \in Operators : alembic(o) \/ do_run_migrations(o) \/ Killed(o)
    \/ WriteHazardEvent
    \/ \E m \in models : WriteRow(m)

Spec == Init /\ [][Next]_vars

-----------------------------------------------------------------------------

TypeOK ==
    /\ db.ok
    /\ DOMAIN db.held \subseteq DOMAIN db.tables
    /\ \A t \in DOMAIN db.held : db.held[t] \subseteq DOMAIN db.tables[t]
    /\ \A r \in DOMAIN db.rows :
          DOMAIN db.rows[r] = {"given", "named"} \cup (RowColumns \cap DOMAIN db.tables["hazard_events"])
    /\ version \in 0 .. head
    /\ run \in [Operators -> [from : -1 .. head, to : -1 .. head]]

(* The schema that the upgrades alone make, for each revision. *)
schema_at == [n \in 0 .. head |-> migrate(empty_database({}), 0, n)]

(* Downgrading 0011 leaves hazard_events.region nullable, which 0008 declares
   NOT NULL: the one difference that is looked through. *)
Shape(s) ==
    [t \in DOMAIN s.tables |-> [c \in DOMAIN s.tables[t] |->
        IF t = "hazard_events" /\ c = "region" THEN s.tables[t][c].type ELSE s.tables[t][c]]]

(* "The migration history is auditable and reversible": wherever upgrades and
   downgrades have led, whoever raced and whoever died, the schema is the one
   its revision stands for, table by table, index by index and key by key. *)
RevisionIsSchema ==
    LET s == schema_at[version]
    IN  /\ s.ok
        /\ Shape(db) = Shape(s)
        /\ db.indexes = s.indexes /\ db.fks = s.fks
        /\ s.types \subseteq db.types
        /\ "backup_status_enum" \in db.types => "backup_status_enum" \in s.types

(* Whatever rows the application has written and wherever earlier runs have
   led, no script on the way raises, the validation of existing rows included:
   a run of Alembic is rolled back only when another run has moved the version
   since it read it. *)
RefusedOnlyByRace ==
    \A o \in Operators :
        run[o] # Idle /\ run[o].from = version => migrate(db, run[o].from, run[o].to).ok

(* At the newest revision every table is what its model says: the columns,
   which of them may be null, their types, the foreign keys with what they do
   on delete, and the uniqueness that the application's lookups rely on. *)
HeadServesModels == version = head => \A m \in models : Serves(m)

(* "Unknown locations are left NULL (not silently mapped to Tokyo)": whatever
   upgrades and downgrades have moved it through, an event is still called what
   it came with, and its point is the one its writer gave or the one its name
   stands for. *)
PlaceIsHonest ==
    \A r \in DOMAIN db.rows :
        LET row == db.rows[r]
            place == lower_trim(row.named)
        IN  IF version < rev_0011 THEN row.region = row.named
            ELSE /\ row.region_label = row.named
                 /\ \/ row.region \in {NULL, row.given}
                    \/ place \in DOMAIN LOCAL_GEOCODE_DB /\ row.region = LOCAL_GEOCODE_DB[place]
=============================================================================
