-------------------------- MODULE SchemaMigrations --------------------------
(***************************************************************************)
(* The life of the database schema.  The API container runs "alembic       *)
(* upgrade head" before it serves, and is restarted when that fails; an    *)
(* operator downgrades by hand.  env.py runs every script of an upgrade or *)
(* a downgrade in one transaction: PostgreSQL's DDL rolls back with it.    *)
(* While a migration holds its locks the API's statements wait; they are   *)
(* disabled here.                                                          *)
(***************************************************************************)
EXTENDS MigrationScripts, CodeSchema

CONSTANTS Rows,           \* rows the API may store: <<table, column that matters, value>>
          Targets,        \* bound: the revisions an operator downgrades to
          MaxDowngrades,  \* bound: how often
          MaxCrashes      \* bound: how often the container dies

ASSUME MigrationsAssumption == /\ Targets \subseteq 0..HeadRev
                               /\ MaxDowngrades \in Nat
                               /\ MaxCrashes \in Nat
                               /\ \A r \in Rows : r[1] \in {o[2] : o \in Of("table", CodeObjects)}
                               /\ \A r \in Rows : r = <<r[1], r[2], r[3]>>

VARIABLES db,          \* what is committed: alembic_version, the schema, the rows
          tx,          \* <<>>, or the one migration that is running
          serving,     \* uvicorn is up
          downgrades, crashes

vars == <<db, tx, serving, downgrades, crashes>>

Init == /\ db = [rev |-> 0, schema |-> {}, rows |-> {}]
        /\ tx = <<>>
        /\ serving = FALSE
        /\ downgrades = 0
        /\ crashes = 0

-----------------------------------------------------------------------------
(* One statement. *)

\* A table takes everything that belongs to it along.
After(statement, schema) ==
  IF statement.sql \in {"create", "create if missing"} THEN schema \cup statement.objects
  ELSE LET tables == {o[2] : o \in Of("table", statement.objects)}
       IN {o \in schema \ statement.objects : o[2] \notin tables}

Needs(o) == (IF o[1] \in {"table", "function"} THEN {} ELSE {Table(o[2])})
              \cup (IF o[1] = "ref" THEN {Table(o[4])} ELSE {})
              \cup (IF o[1] = "trigger" THEN {Function("set_updated_at")} ELSE {})

WellFormed(schema) == \A o \in schema : Needs(o) \subseteq schema

Fits(r, schema) == \A o \in Of("domain", schema) :
                     o[2] = r[1] /\ o[3] = r[2] => r[3] \in o[4]

Legal(statement, schema, rows) ==
  CASE statement.sql = "create" ->
         /\ statement.objects \cap schema = {}
         /\ \A o \in statement.objects : Needs(o) \subseteq schema \cup statement.objects
         /\ \A r \in rows : Fits(r, statement.objects)
    [] statement.sql = "drop" ->
         /\ statement.objects \subseteq schema
         /\ \A o \in Of("ref", After(statement, schema)) : Table(o[4]) \notin statement.objects
    [] statement.sql = "drop if exists" ->
         \A o \in Of("trigger", After(statement, schema)) : Needs(o) \cap statement.objects = {}
    [] OTHER -> TRUE

\* 0004: a date that is missing though raw has one in the known format.
Backfilled(r) ==
  IF r[1] = "bid_pipeline" /\ r[3] = "missing" THEN <<r[1], r[2], "backfilled">> ELSE r

RowsAfter(statement, schema, rows) ==
  IF statement.sql = "backfill" THEN {Backfilled(r) : r \in rows}
  ELSE {r \in rows : Table(r[1]) \in After(statement, schema)}

Executed(statement, run) ==
  IF run.ok /\ Legal(statement, run.schema, run.rows)
    THEN [ok |-> TRUE, schema |-> After(statement, run.schema),
          rows |-> RowsAfter(statement, run.schema, run.rows)]
    ELSE [run EXCEPT !.ok = FALSE]

The(singleton) == CHOOSE x \in singleton : TRUE

\* A script runs statement by statement; the first that raises ends it.
Ran(script, schema, rows) ==
  LET run[i \in 0..Len(script)] ==
        IF i = 0 THEN [ok |-> TRUE, schema |-> schema, rows |-> rows]
        ELSE The({Executed(script[i], before) : before \in {run[i - 1]}})
  IN run[Len(script)]

\* SchemaAt[n]: the schema that the first n upgrades build from nothing.
SchemaAt[n \in 0..HeadRev] ==
  IF n = 0 THEN {} ELSE Ran(Up[n], SchemaAt[n - 1], {}).schema

Chain == {<<n, SchemaAt[n]>> : n \in 0..HeadRev}

-----------------------------------------------------------------------------
(* Migrations. *)

Start(target, booting) ==
  tx' = <<[rev |-> db.rev, schema |-> db.schema, rows |-> db.rows,
           target |-> target, booting |-> booting]>>

\* The container starts: sh -c "alembic upgrade head && uvicorn ..."
Boot ==
  /\ ~ serving /\ tx = <<>>
  /\ Start(HeadRev, TRUE)
  /\ UNCHANGED <<db, serving, downgrades, crashes>>

Downgrade(target) ==
  /\ tx = <<>>
  /\ target < db.rev
  /\ downgrades < MaxDowngrades
  /\ downgrades' = downgrades + 1
  /\ Start(target, FALSE)
  /\ UNCHANGED <<db, serving, crashes>>

Upwards(t) == t.rev < t.target
Script(t) == IF Upwards(t) THEN Up[t.rev + 1] ELSE Down[t.rev]
Running == tx # <<>> /\ tx[1].rev # tx[1].target

\* One revision; Alembic then writes its name into alembic_version.
Revision ==
  /\ Running
  /\ LET t == tx[1]
         run == Ran(Script(t), t.schema, t.rows)
     IN /\ run.ok
        /\ tx' = <<[t EXCEPT !.schema = run.schema, !.rows = run.rows,
                             !.rev = IF Upwards(t) THEN @ + 1 ELSE @ - 1]>>
  /\ UNCHANGED <<db, serving, downgrades, crashes>>

Bug_KeepsWhatItDid(t) == [rev |-> db.rev, schema |-> t.schema, rows |-> t.rows]

RolledBack(t) == db

\* A statement raises: the whole migration is rolled back.
RevisionFails ==
  /\ Running
  /\ ~ Ran(Script(tx[1]), tx[1].schema, tx[1].rows).ok
  /\ db' = RolledBack(tx[1])
  /\ tx' = <<>>
  /\ UNCHANGED <<serving, downgrades, crashes>>

Commit ==
  /\ tx # <<>> /\ ~ Running
  /\ db' = [rev |-> tx[1].rev, schema |-> tx[1].schema, rows |-> tx[1].rows]
  /\ serving' = (serving \/ tx[1].booting)
  /\ tx' = <<>>
  /\ UNCHANGED <<downgrades, crashes>>

\* "restart: unless-stopped" boots it again.
Crash ==
  /\ crashes < MaxCrashes
  /\ crashes' = crashes + 1
  /\ db' = IF tx = <<>> THEN db ELSE RolledBack(tx[1])
  /\ tx' = <<>>
  /\ serving' = FALSE
  /\ UNCHANGED downgrades

-----------------------------------------------------------------------------
(* What the API does to the rows, with the code of the head revision. *)

Serves == serving /\ tx = <<>>

Holds(t, rows) == \E r \in rows : r[1] = t

\* The code names every column it knows; the database checks the rest.
\* SET NULL columns are nullable, the others need their parent.
Store(r) ==
  /\ Serves
  /\ r \notin db.rows
  /\ r[1] = "bid_pipeline" => ~ Holds("bid_pipeline", db.rows)
  /\ {o \in CodeObjects : o[1] \in {"table", "column"} /\ o[2] = r[1]} \subseteq db.schema
  /\ Fits(r, db.schema)
  /\ \A o \in Of("ref", db.schema) :
       o[2] = r[1] /\ o[5] # "SET NULL" => Holds(o[4], db.rows)
  /\ db' = [db EXCEPT !.rows = @ \cup {r}]
  /\ UNCHANGED <<tx, serving, downgrades, crashes>>

\* The tables that cleanup names, children first.
Named == {"attachment_fetch_files", "attachment_fetch_jobs", "notice_errors", "notice_exports",
          "notice_spec_items", "bid_pipeline"}

\* What the database deletes with them, n cascades deep.
Swept[n \in 0..2] ==
  IF n = 0 THEN Named
  ELSE Swept[n - 1] \cup {o[2] : o \in {p \in Of("ref", db.schema) :
                                          p[5] = "CASCADE" /\ p[4] \in Swept[n - 1]}}

Restricted == \E o \in Of("ref", db.schema) :
                o[5] = "RESTRICT" /\ o[4] \in Swept[2] /\ Holds(o[2], db.rows)

\* POST /e2e/cleanup, in test environments: the notice goes with all it has.
CleanupWorks == {Table(t) : t \in Named} \subseteq db.schema /\ ~ Restricted

E2ECleanup ==
  /\ Serves
  /\ Holds("bid_pipeline", db.rows)
  /\ CleanupWorks
  /\ db' = [db EXCEPT !.rows = {r \in @ : r[1] \notin Swept[2]}]
  /\ UNCHANGED <<tx, serving, downgrades, crashes>>

-----------------------------------------------------------------------------

Migrate == Revision \/ RevisionFails \/ Commit

Next == \/ Boot
        \/ \E target \in Targets : Downgrade(target)
        \/ Migrate
        \/ Crash
        \/ \E r \in Rows : Store(r)
        \/ E2ECleanup

Spec == Init /\ [][Next]_vars

\* The container runtime restarts what has exited, and a migration that has
\* started goes on.
FairSpec == Spec /\ WF_vars(Boot) /\ WF_vars(Migrate)

-----------------------------------------------------------------------------
(* Properties. *)

RowValues == {r[3] : r \in Rows} \cup {"backfilled"}

\* Every variable has its type: whatever upgrades, failures and crashes do,
\* alembic_version names a revision that exists and no stored value is one
\* that nothing writes.
TypeOK == /\ db.rev \in 0..HeadRev
          /\ WellFormed(db.schema)
          /\ \A r \in db.rows : Table(r[1]) \in db.schema /\ r[3] \in RowValues
          /\ tx # <<>> => tx[1].rev \in 0..HeadRev
          /\ serving \in BOOLEAN
          /\ downgrades \in 0..MaxDowngrades
          /\ crashes \in 0..MaxCrashes

\* Whatever was upgraded, downgraded, refused or cut short by a crash, the
\* committed schema is the one its revision names: each downgrade undoes its
\* upgrade to the last column, and nothing of a failed migration stays.
SchemaIsItsRevision == <<db.rev, db.schema>> \in Chain

\* At head the database has every table, added column, index, foreign key and
\* CHECK domain that the code is written against (0010 repaired the one that
\* had drifted).
HeadFitsTheCode == db.rev = HeadRev => CodeObjects \subseteq db.schema

\* Of all scripts only one can be refused, and for one reason: 0010 does not
\* go back while an export of the new kind exists.  No other script meets an
\* object that another table still needs, or a row that does not fit.
OnlyTheNewKindBlocks ==
  [][RevisionFails =>
       /\ tx[1].rev = 10 /\ tx[1].target < 10
       /\ <<"notice_exports", "kind", "bid_form_hwp">> \in db.rows]_vars

\* Tables that outlive a notice.
Shared == {"ontology_concepts", "ontology_aliases", "ontology_rules", "knowledge_evidence",
           "ontology_relations", "role_bindings", "company_profiles", "hwp_templates",
           "document_field_mappings", "proposal_documents", "document_chunks",
           "project_performances"}

\* At head no foreign key stands in the way of a cleanup, and it removes every
\* row of the notice, those of the tables it does not name included, and
\* nothing else.
CleanupLeavesNoTrace ==
  /\ [](db.rev = HeadRev => CleanupWorks)
  /\ [][E2ECleanup => db'.rows = {r \in db.rows : r[1] \in Shared}]_vars

\* The container comes up whenever it has gone down.
ApiComesUp == []<>serving
=============================================================================
