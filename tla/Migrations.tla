----------------------------- MODULE Migrations -----------------------------
(***************************************************************************)
(* run_migrations: fourteen versions of the schema, each a few statements  *)
(* and the row that records it, every one committed on its own.  A till    *)
(* starts from any released version and may be killed between statements.  *)
(***************************************************************************)
EXTENDS Integers, Sequences, Functions

CONSTANT MaxCrashes  \* bound on kills

ASSUME MigrationAssumption == MaxCrashes \in Nat

VARIABLES
  objects,   \* tables, indices and columns the database has
  versions,  \* rows of schema_version
  step,      \* the version being applied and how many of its statements ran, or idle
  failed,    \* a statement was refused, and with it the start
  crashes

migrationVars == <<objects, versions, step, failed, crashes>>

Current == 14
Create(o) == [does |-> "create", what |-> o]
Add(o)    == [does |-> "add",    what |-> o]
Drop(o)   == [does |-> "drop",   what |-> o]

\* The statements of apply_v1..apply_v14, one per table or column; a version's
\* other tables and its indices stand behind one name, and v5 does nothing.
Statements == <<
  <<Create("operators"), Create("products"), Create("offline_transactions"),
    Create("terminal_config")>>,
  <<Create("z_reports"), Add("type"), Add("status"), Add("payment_method"), Add("total"), Add("tax"),
    Add("discount")>>,
  <<Create("terminal_registration")>>, <<Create("features")>>, <<>>, <<Create("active_cart")>>,
  <<Add("catalog_etag")>>, <<Add("license_key")>>, <<Create("shared_drafts"), Create("draft_sync_queue")>>,
  <<Add("employee_id"), Add("employee_number"), Add("department"), Add("position"),
    Create("idx_operators_employee")>>,
  <<Add("tax_rate"), Add("tax_inclusive")>>,
  <<Add("product_type"), Add("track_inventory"), Add("product_nature"), Create("idx_products_type")>>,
  <<Drop("pin_hash")>>, <<Create("operator_sessions")>> >>

NotMigrating == [version |-> 0, ran |-> 0]

\* The table of operators is made with the column that version 13 drops.
Made(s) == {s.what} \cup (IF s.what = "operators" THEN {"pin_hash"} ELSE {})
Effect(objs, s) == IF s.does = "drop" THEN objs \ {s.what} ELSE objs \cup Made(s)

\* The schema the first v versions lead to: what they make and do not drop, as
\* nothing dropped is made again.
RunBy(v) == UNION {Range(Statements[u]) : u \in 1..v}
SchemaAt(v) ==
  (UNION {Made(s) : s \in {t \in RunBy(v) : t.does # "drop"}}) \ {s.what : s \in {t \in RunBy(v) : t.does = "drop"}}

GetSchemaVersion == IF versions = {} THEN 0 ELSE CHOOSE v \in versions : \A w \in versions : w <= v

-----------------------------------------------------------------------------
SlipChecksNothing(s) == s.does # "create" \/ s.what \notin objects

\* has_column, and IF NOT EXISTS: what is there already is not made again.
Needed(s) == (s.does = "drop") <=> (s.what \in objects)

\* SQLite refuses a column twice, and to drop one that is not there; a table or
\* an index is only made if it does not exist.
Runs(s) ==
  IF s.does # "create" /\ ((s.does = "drop") <=> (s.what \notin objects))
  THEN failed' = TRUE /\ UNCHANGED objects
  ELSE objects' = Effect(objects, s) /\ UNCHANGED failed

\* The next version above the highest recorded one, until there is none.
Begin ==
  /\ step = NotMigrating /\ ~failed /\ GetSchemaVersion < Current
  /\ step' = [version |-> GetSchemaVersion + 1, ran |-> 0]
  /\ UNCHANGED <<objects, versions, failed, crashes>>

Statement ==
  /\ step # NotMigrating /\ step.ran < Len(Statements[step.version])
  /\ LET s == Statements[step.version][step.ran + 1] IN
     IF Needed(s) THEN Runs(s) ELSE UNCHANGED <<objects, failed>>
  /\ step' = IF failed' THEN NotMigrating ELSE [step EXCEPT !.ran = @ + 1]
  /\ UNCHANGED <<versions, crashes>>

SlipRecordsEarly ==
  /\ step # NotMigrating /\ step.version \notin versions /\ versions' = versions \cup {step.version}
  /\ step' = IF step.ran = Len(Statements[step.version]) THEN NotMigrating ELSE step
  /\ UNCHANGED <<objects, failed, crashes>>

\* The version's row comes last.
RecordVersion ==
  /\ step # NotMigrating /\ step.ran = Len(Statements[step.version])
  /\ versions' = versions \cup {step.version} /\ step' = NotMigrating
  /\ UNCHANGED <<objects, failed, crashes>>

Crash ==
  /\ crashes < MaxCrashes /\ crashes' = crashes + 1 /\ step' = NotMigrating /\ failed' = FALSE
  /\ UNCHANGED <<objects, versions>>

MigrationInit ==
  /\ \E v \in 0..Current : versions = 1..v /\ objects = SchemaAt(v)
  /\ step = NotMigrating /\ failed = FALSE /\ crashes = 0

MigrationNext == Begin \/ Statement \/ RecordVersion \/ Crash
MigrationSpec == MigrationInit /\ [][MigrationNext]_migrationVars

-----------------------------------------------------------------------------
\* A version that is recorded has been applied whole, whatever was killed.
RecordedIsApplied == step = NotMigrating => SchemaAt(GetSchemaVersion) \ {"pin_hash"} \subseteq objects

\* The credential that left the till with version 13 does not come back.
HashStaysGone == GetSchemaVersion >= 13 => "pin_hash" \notin objects

\* No start is refused because an earlier one was killed half way.
NoStartFails == ~failed

\* However often it is killed, a start ends with the schema it records.
MigratedIsWhole == RecordedIsApplied /\ HashStaysGone /\ NoStartFails
=============================================================================
