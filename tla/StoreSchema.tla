----------------------------- MODULE StoreSchema -----------------------------
(***************************************************************************)
(* Opening a Store: every process that opens one brings its schema up to   *)
(* date first, statement by statement and without a transaction, except    *)
(* for the normalisation of a legacy SQLite file.  Processes may do so at  *)
(* the same time, and each may stop between two statements.                *)
(*                                                                         *)
(* A database is the tables, columns, indexes and backfilled rows the code *)
(* relies on, by name; columns a CREATE TABLE brings along come with it.   *)
(***************************************************************************)
EXTENDS Naturals, Sequences, FiniteSets

CONSTANTS
  Openers,    \* processes that open the Store
  Starts,     \* databases to begin with
  Attempts    \* times a process opens the Store

CurrentSchemaVersion == 23
Dialects == {"mysql", "postgres", "sqlite"}

Tables ==
  {"runs", "api_case_runs", "evidence_records", "observability", "agent_tasks", "profile_config",
   "catalog_versions", "test_maps", "map_contents", "map_versions", "plan_instances",
   "plan_tasks", "plan_leases", "assistant_sessions", "environments", "components",
   "component_links", "environment_files", "environment_runtime"}
Columns ==
  [t \in Tables |->
     CASE t = "runs" -> {"environment_id", "run planner"}
       [] t = "api_case_runs" -> {"case planner"}
       [] t = "evidence_records" -> {"evidence step"}
       [] t = "agent_tasks" -> {"claim_token"}
       [] OTHER -> {}]
Extras == {"indexes", "wide", "history", "legacy"}
Parts == Tables \cup (UNION {Columns[t] : t \in Tables}) \cup Extras

(* The version whose upgrade adds part p to older tables: 0 for a part that  *)
(* none adds.                                                                *)
Introduced(d, p) ==
  CASE p = "environment_id" -> IF d = "sqlite" THEN 0 ELSE 6
    [] p \in {"run planner", "case planner"} -> 16
    [] p = "wide" -> IF d = "sqlite" THEN 0 ELSE 19
    [] p = "history" -> 19
    [] p = "claim_token" -> CurrentSchemaVersion
    [] OTHER -> 0
Accompanies(t) == Columns[t] \cup IF t = "runs" THEN {"wide", "history"} ELSE {}
Normalised(x) == x.dialect = "sqlite" => "legacy" \notin x.has

(* What a database may lack and no statement will add to it: columns of an  *)
(* evidence table older than they are, of a SQLite file older than its       *)
(* legacy tables, and the history of the catalogs in a normalised file.      *)
NeverAdded(x) ==
  {p \in {"evidence step"} \ x.has : "evidence_records" \in x.has}
  \cup {p \in {"environment_id"} \ x.has : x.dialect = "sqlite" /\ "runs" \in x.has}
  \cup {p \in {"history"} : x.dialect = "sqlite" /\ (~Normalised(x) \/ x.version >= 19)}

(* What programs of older versions left, but for the parts in without: the  *)
(* columns they knew, the wide types and the history of the catalog, unless *)
(* the upgrade from their version adds them; a SQLite file with legacy      *)
(* tables may lack more, for it is normalised.  Without a version row,      *)
(* every table is there as a whole.                                         *)
LeftByOlder(x, without) ==
  Normalised(x) =>
    IF x.version = CurrentSchemaVersion THEN Parts \ ({"legacy"} \cup without) \subseteq x.has
    ELSE \A t \in Tables \cap x.has : \A p \in Accompanies(t) \ (x.has \cup without) :
           x.version \in 1..(Introduced(x.dialect, p) - 1) \/ p = "claim_token"

ASSUME SchemaAssumption ==
  /\ Starts \subseteq [dialect : Dialects, version : 0..CurrentSchemaVersion, has : SUBSET Parts]
  /\ \A x \in Starts : LeftByOlder(x, NeverAdded(x))
  /\ Attempts \in Nat \ {0}

VARIABLES
  db,       \* [dialect, version (0 without a row), has]
  opener,   \* [Openers -> where the process is]
  begun     \* the database to begin with, kept as history

schemaVars == <<db, opener, begun>>

Closed == [pc |-> "idle", todo |-> <<>>, tries |-> 0]
SchemaInit == db \in Starts /\ begun = db /\ opener = [o \in Openers |-> Closed]

-----------------------------------------------------------------------------
(* The statements of an upgrade                                             *)

Statement(op, part, needs) == [op |-> op, part |-> part, needs |-> needs]

(* CREATE TABLE IF NOT EXISTS, with the tables its foreign keys refer to,   *)
(* followed by its indexes.  MySQL has no such form for an index.           *)
Create(t, references) ==
  <<Statement("table", t, references), Statement("index", "indexes", {t})>>

coreRunSchemaSQL ==
  Create("runs", {}) \o Create("api_case_runs", {}) \o Create("evidence_records", {})

(* Trace topologies, post-process tasks and baseline gates.                 *)
coreObservabilitySchemaSQL == Create("observability", {})

(* Tasks and their runs.                                                    *)
coreAgentTaskSchemaSQL == Create("agent_tasks", {})

(* Indexes, config versions, read models and the catalogs themselves.       *)
coreProfileConfigSchemaSQL == Create("profile_config", {})

(* Heads and revisions.                                                     *)
coreProfileCatalogVersionSchemaSQL == Create("catalog_versions", {})

corePlanGraphVersionSchemaSQL == Create("map_versions", {})

(* Nodes, edges, paths, steps and materializations belong to a map.         *)
corePlanGraphSchemaSQL ==
  Create("test_maps", {}) \o Create("map_contents", {"test_maps"})
  \o corePlanGraphVersionSchemaSQL

testMapPlanLeaseSchemaSQL == Create("plan_leases", {"plan_instances"})

coreMapPlannerSchemaSQL ==
  Create("plan_instances", {}) \o Create("plan_tasks", {"plan_instances"})
  \o testMapPlanLeaseSchemaSQL

(* Sessions, their messages and their memory.                               *)
assistantSchemaSQL == Create("assistant_sessions", {})

coreEnvironmentFileSchemaSQL == Create("environment_files", {"environments"})

(* Services and health checks.                                              *)
coreEnvironmentRuntimeMetadataSchemaSQL == Create("environment_runtime", {"environments"})

(* Dependencies and config assets refer to components.                      *)
coreEnvironmentCatalogSchemaSQL ==
  Create("environments", {}) \o Create("components", {"environments"})
  \o Create("component_links", {"components"})
  \o coreEnvironmentFileSchemaSQL \o coreEnvironmentRuntimeMetadataSchemaSQL

CoreSchemaSQL ==
  coreRunSchemaSQL \o coreObservabilitySchemaSQL \o coreAgentTaskSchemaSQL
  \o coreProfileConfigSchemaSQL \o coreProfileCatalogVersionSchemaSQL
  \o corePlanGraphSchemaSQL \o coreMapPlannerSchemaSQL \o assistantSchemaSQL
  \o coreEnvironmentCatalogSchemaSQL

(* The claim token is looked for before and after it is added.              *)
agentTaskClaimTokenMigrationSQL == <<Statement("probed column", "claim_token", {"agent_tasks"})>>

(* Identifiers and texts of older MySQL tables are widened.                 *)
mysqlMediumTextMigrationSQL == <<Statement("modify", "wide", {"runs"})>>

legacyCompatibilitySchemaSQL(d, v) ==
  (IF v < 6 /\ d # "sqlite"
   THEN <<Statement("column", "environment_id", {"runs"}), Statement("drop", "legacy", {})>>
   ELSE <<>>)
  \o (IF d = "mysql" /\ v < 9 THEN mysqlMediumTextMigrationSQL ELSE <<>>)

plannerAssociationMigrationSQL ==
  <<Statement("column", "run planner", {"runs"}),
    Statement("column", "case planner", {"api_case_runs"})>>

profileCatalogVersionBackfillSQL ==
  <<Statement("rows", "history", {"catalog_versions", "profile_config"})>>

incrementalSchemaSQL(d, v) ==
  LET Since(n, s) == IF v < n THEN s ELSE <<>> IN
  IF v = 0 THEN <<>>
  ELSE legacyCompatibilitySchemaSQL(d, v)
       \o Since(13, coreEnvironmentFileSchemaSQL)
       \o Since(14, coreEnvironmentRuntimeMetadataSchemaSQL)
       \o Since(15, corePlanGraphSchemaSQL)
       \o Since(16, plannerAssociationMigrationSQL)
       \o Since(17, coreMapPlannerSchemaSQL)
       \o Since(18, corePlanGraphVersionSchemaSQL)
       \o Since(19, profileCatalogVersionBackfillSQL)
       \o Since(20, testMapPlanLeaseSchemaSQL)

(* A comment names its table and its columns, which have to exist; on MySQL *)
(* it restates the column's type as well, always the wide one.              *)
Comment(needs) == <<Statement("comment", "wide", needs)>>

coreRunCommentSpecs ==
  Comment({"runs", "environment_id"}) \o Comment({"api_case_runs"})
  \o Comment({"evidence_records", "evidence step"})

observabilityCommentSpecs == Comment({"observability"})

profileCatalogVersionCommentSpecs == Comment({"catalog_versions"})

profileConfigCommentSpecs == Comment({"profile_config"}) \o profileCatalogVersionCommentSpecs

environmentCatalogCommentSpecs ==
  Comment({"environments"}) \o Comment({"components", "component_links"})

schemaCommentSpecs ==
  coreRunCommentSpecs \o observabilityCommentSpecs \o profileConfigCommentSpecs
  \o environmentCatalogCommentSpecs

schemaCommentSQL(d, v) ==
  CASE d = "sqlite" -> <<>>
    [] d # "sqlite" /\ v < 11 -> schemaCommentSpecs
    [] d # "sqlite" /\ v \in 11..18 -> profileCatalogVersionCommentSpecs
    [] OTHER -> <<>>

Record == <<Statement("version", "version", {})>>

(* Mutant of UpgradeSQL: the version is recorded before the older tables    *)
(* have been changed.                                                       *)
RecordsFirst(d, v) ==
  CoreSchemaSQL \o agentTaskClaimTokenMigrationSQL \o Record \o incrementalSchemaSQL(d, v)
  \o schemaCommentSQL(d, v)

UpgradeSQL(d, v) ==
  CoreSchemaSQL \o agentTaskClaimTokenMigrationSQL \o incrementalSchemaSQL(d, v)
  \o schemaCommentSQL(d, v) \o Record

-----------------------------------------------------------------------------
(* Executing a statement                                                    *)

(* MySQL's complaint about an index or a column that is already there is    *)
(* taken for success; PostgreSQL's and SQLite's about a column is not.      *)
isIdempotentSchemaReplayError(s) == db.dialect = "mysql" /\ s.op \in {"index", "column"}

Rejected(s) ==
  \/ ~(s.needs \subseteq db.has)
  \/ /\ s.part \in db.has /\ ~isIdempotentSchemaReplayError(s)
     /\ s.op = "column" \/ (s.op = "index" /\ db.dialect = "mysql")

Effect(s) ==
  CASE s.op = "table" ->
         [db EXCEPT !.has = IF s.part \in @ THEN @ ELSE @ \cup {s.part} \cup Accompanies(s.part)]
    [] s.op = "drop" -> [db EXCEPT !.has = @ \ {s.part}]
    [] s.op = "version" -> [db EXCEPT !.version = CurrentSchemaVersion]
    [] OTHER -> [db EXCEPT !.has = @ \cup {s.part}]

-----------------------------------------------------------------------------
(* Opening                                                                  *)

Goes(o, pc, todo) == opener' = [opener EXCEPT ![o].pc = pc, ![o].todo = todo]

Open(o) ==
  /\ opener[o].pc \in {"idle", "failed", "refused"} /\ opener[o].tries < Attempts
  /\ opener' = [opener EXCEPT ![o] =
       [pc |-> IF db.dialect = "sqlite" THEN "normalize" ELSE "check",
        todo |-> <<>>, tries |-> opener[o].tries + 1]]
  /\ UNCHANGED <<db, begun>>

(* normalizeLegacySchema, one transaction: the shared tables, the columns   *)
(* an older table lacks, the legacy tables dropped, and the current version *)
(* on record.  It adds no columns of the evidence table and no history, not *)
(* even of the catalog it makes of the legacy tables if that is not there.  *)
ensureLegacySharedColumns == {"environment_id", "run planner", "case planner", "claim_token"}

normalizeLegacySchema(o) ==
  /\ opener[o].pc = "normalize"
  /\ LET known == IF "profile_config" \in db.has THEN {"history"} \cap db.has ELSE {"history"}
     IN IF "legacy" \notin db.has THEN db' = db
        ELSE \E history \in {{}, known} :
               db' = [db EXCEPT !.version = CurrentSchemaVersion,
                        !.has = (@ \ {"legacy", "history"}) \cup Tables \cup history
                                \cup ensureLegacySharedColumns \cup {"indexes", "wide"}
                                \cup UNION {Columns[t] : t \in Tables \ @}]
  /\ UNCHANGED begun
  /\ Goes(o, "check", <<>>)

(* currentSchemaVersion: nothing is done to a database at or beyond the     *)
(* version of the program.                                                  *)
currentSchemaVersion(o) ==
  /\ opener[o].pc = "check"
  /\ IF db.version >= CurrentSchemaVersion THEN Goes(o, "open", <<>>)
     ELSE Goes(o, "apply", UpgradeSQL(db.dialect, db.version))
  /\ UNCHANGED <<db, begun>>

UpgradeSchema(o) ==
  /\ opener[o].pc = "apply"
  /\ LET s == Head(opener[o].todo)
         rest == Tail(opener[o].todo) IN
     IF Rejected(s) THEN Goes(o, "refused", <<>>) /\ db' = db
     ELSE db' = Effect(s) /\ Goes(o, IF rest = <<>> THEN "open" ELSE "apply", rest)
  /\ UNCHANGED begun

(* The process is killed, or the database refuses a statement for a reason  *)
(* of its own; a transaction leaves nothing behind.                         *)
Stop(o) ==
  /\ opener[o].pc \in {"normalize", "check", "apply"}
  /\ Goes(o, "failed", <<>>)
  /\ UNCHANGED <<db, begun>>

SchemaNext ==
  \E o \in Openers :
    Open(o) \/ normalizeLegacySchema(o) \/ currentSchemaVersion(o) \/ UpgradeSchema(o) \/ Stop(o)

SchemaSpec == SchemaInit /\ [][SchemaNext]_schemaVars

-----------------------------------------------------------------------------
(* A process that opened the Store finds everything the code relies on,     *)
(* whatever version the database had, wherever earlier upgrades stopped and *)
(* whoever else upgrades it at the same time (UpgradeSchema), but for what  *)
(* no upgrade adds: it is opened without.                                   *)
OpenedStoreIsComplete ==
  (\E o \in Openers : opener[o].pc = "open") =>
    Parts \ ({"legacy"} \cup NeverAdded(begun)) \subseteq db.has

=============================================================================
