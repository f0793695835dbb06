------------------------ MODULE EnvironmentMigration ------------------------
(***************************************************************************)
(* The MySQL assets of an environment: versioned migrations, which         *)
(* `environment migration add` keeps in the component graph and            *)
(* `environment migration apply | baseline` and `environment restore`      *)
(* bring into the target database through its history table, and the       *)
(* bootstrap assets (plain SQL, object-storage seeds) a restore applies.   *)
(*                                                                         *)
(* One owner, one provider and one database. The graph is read and         *)
(* replaced as a whole by separate Store calls; the database is shared by  *)
(* every command. A checksum stands for the content it is the digest of.   *)
(***************************************************************************)
EXTENDS Integers, Sequences, FiniteSets, Functions

CONSTANTS
  Clients,        \* concurrent commands
  Ids, Versions, Contents,
  Overrides,      \* the values given with --apply-order
  Guarded,        \* the contents with a precondition: their column does not exist yet
  Bootstraps,     \* the bootstrap assets an environment may have, as sequences
  Adds, Commands, Faults   \* bounds: migrations added, other commands, failures

ASSUME MigrationAssumption ==
  /\ IsFiniteSet(Ids) /\ Versions \subseteq Nat \ {0} /\ "none" \notin Contents
  /\ Overrides \subseteq Nat \ {0}
  /\ Bootstraps \subseteq Seq([kind : {"sql", "object"}, mounted : BOOLEAN, path : Nat,
                               command : BOOLEAN])

NoAsset == [version |-> 0, content |-> "none", order |-> 0, complete |-> FALSE]
NoRow == [content |-> "none", applied |-> FALSE]

VARIABLES
  assets,   \* the graph's migration assets
  links,    \* the dependency's assetIds, in the order they were added
  boot,     \* the graph's bootstrap assets
  db,       \* the target: exists, its history rows, what ran in it, recreated
  cmd,      \* what each client is doing
  raced,    \* history: the migrations replaced while a command worked on them
  left      \* what is left of the bounds

migrationVars == <<assets, links, boot, db, cmd, raced, left>>

Idle == [op |-> "idle"]
FreshDB(again) ==
  [exists |-> FALSE, history |-> [v \in Versions |-> NoRow], ran |-> [s \in Contents |-> 0],
   seeded |-> [i \in 1..Len(boot) |-> 0], recreated |-> again]

(* A new MySQL runs the files mounted into it, once. *)
StartedDB(d) ==
  [d EXCEPT !.exists = TRUE,
            !.seeded = [i \in DOMAIN boot |->
                          IF boot[i].kind = "sql" /\ boot[i].mounted THEN 1 ELSE d.seeded[i]]]

(* How often something ran, as far as it matters. *)
OnceMore(n) == IF n = 2 THEN 2 ELSE n + 1

(***************************************************************************)
(* environment migration add                                               *)
(***************************************************************************)
(* A known asset is refused, and nothing happens, without --force; with it, *)
(* the asset is replaced and starts over. The apply order comes from the    *)
(* version, or from --apply-order.                                          *)
addEnvironmentMigrationToStore(c, id, version, content, order) ==
  /\ cmd[c] = Idle /\ left.add > 0
  /\ left' = [left EXCEPT !.add = @ - 1]
  /\ cmd' = [cmd EXCEPT ![c] =
       [op |-> "add",
        assets |-> [assets EXCEPT ![id] = [version |-> version, content |-> content,
                                           order |-> order, complete |-> FALSE]],
        links |-> IF id \in Range(links) THEN links ELSE Append(links, id)]]
  /\ UNCHANGED <<assets, links, boot, db, raced>>

(* The migrations a client works on of which a graph has another version or *)
(* content.                                                                 *)
Disturbed(graph, d) ==
  {id \in Ids : /\ cmd[d].op \in {"apply", "baseline", "restore"}
                /\ \E i \in cmd[d].items :
                     /\ i.id = id /\ graph[id] # NoAsset
                     /\ graph[id].version # i.version \/ graph[id].content # i.content}

(* The whole graph is replaced by the one that was read and changed, over   *)
(* whatever was written in between.                                         *)
ReplaceEnvironmentComponentGraph(c) ==
  /\ cmd[c].op = "add"
  /\ assets' = cmd[c].assets /\ links' = cmd[c].links
  /\ raced' = raced \cup UNION {Disturbed(cmd[c].assets, d) : d \in Clients}
  /\ cmd' = [cmd EXCEPT ![c] = Idle]
  /\ UNCHANGED <<boot, db, left>>

(***************************************************************************)
(* environment migration apply | baseline                                  *)
(***************************************************************************)
MigrationItem(id) ==
  [id |-> id, version |-> assets[id].version, content |-> assets[id].content,
   order |-> assets[id].order]
LinkedItems == {MigrationItem(id) : id \in {i \in Range(links) : assets[i] # NoAsset}}
LinkIndex(id) == CHOOSE i \in DOMAIN links : links[i] = id

(* apply and baseline go by apply order, then by version; the sort is       *)
(* stable.                                                                  *)
compareEnvironmentMigrationItems(a, b) ==
  \/ a.order < b.order
  \/ a.order = b.order /\ a.version < b.version
  \/ a.order = b.order /\ a.version = b.version /\ LinkIndex(a.id) < LinkIndex(b.id)

(* --through-version, when it is given, bounds the apply order.             *)
NoBound == 0
environmentMigrationItems(through) ==
  {i \in LinkedItems : through = NoBound \/ i.order <= through}
ApplyOrders(items) ==
  {todo \in [1 .. Cardinality(items) -> items] :
     /\ Range(todo) = items
     /\ \A i, j \in DOMAIN todo : i < j => compareEnvironmentMigrationItems(todo[i], todo[j])}

(* The target is a running MySQL service; without --execute nothing follows. *)
prepareEnvironmentMigrationTarget(c, op, through) ==
  /\ cmd[c] = Idle /\ db.exists /\ left.command > 0
  /\ left' = [left EXCEPT !.command = @ - 1]
  /\ LinkedItems # {}
  /\ \E todo \in ApplyOrders(environmentMigrationItems(through)) :
       cmd' = [cmd EXCEPT ![c] = [op |-> op, at |-> "query", todo |-> todo, items |-> Range(todo),
                                  done |-> {}, adopt |-> FALSE]]
  /\ UNCHANGED <<assets, links, boot, db, raced>>

(* What a command does with the item at the head of its list.               *)
Working(c) == cmd[c].op \in {"apply", "baseline", "restore"} /\ cmd[c].at \in {"query", "run", "insert"}
Current(c) == Head(cmd[c].todo)
Succeed(c) ==
  [cmd EXCEPT ![c] =
     [cmd[c] EXCEPT !.todo = Tail(@), !.at = "query", !.done = @ \cup {Current(c).id}]]

(* Mutant of Fail: apply goes on with the next migration. *)
FailAndGoOn(c) == [cmd EXCEPT ![c] = [cmd[c] EXCEPT !.todo = Tail(@), !.at = "query"]]
(* apply and baseline stop at the first failure; a restore goes on.         *)
Fail(c) ==
  [cmd EXCEPT ![c] = [cmd[c] EXCEPT !.todo = IF cmd[c].op = "restore" THEN Tail(@) ELSE <<>>,
                                    !.at = "query"]]

(* The history is queried, then the preconditions of a migration to apply   *)
(* (its column does not exist yet).                                         *)
runEnvironmentMigrationWithHistory(c) ==
  /\ Working(c) /\ cmd[c].at = "query" /\ cmd[c].todo # <<>> /\ "id" \in DOMAIN Current(c)
  /\ LET item == Current(c)
         row == db.history[item.version] IN
     cmd' = IF row # NoRow
              THEN IF row.content = item.content THEN Succeed(c) ELSE Fail(c)
            ELSE IF cmd[c].op = "baseline"
              THEN [cmd EXCEPT ![c].at = "insert"]
            ELSE IF item.content \in Guarded /\ db.ran[item.content] > 0
              THEN Fail(c)
            ELSE [cmd EXCEPT ![c].at = "run"]
  /\ UNCHANGED <<assets, links, boot, db, raced, left>>

(* One client input: the migration's statements, then the history row. The  *)
(* statements commit by themselves; an error ends the input.                *)
environmentMigrationApplySQL(c) ==
  /\ Working(c) /\ cmd[c].at = "run"
  /\ db' = [db EXCEPT !.ran[Current(c).content] = OnceMore(@)]
  /\ cmd' = [cmd EXCEPT ![c].at = "insert"]
  /\ UNCHANGED <<assets, links, boot, raced, left>>

environmentMigrationInsertHistorySQL(c) ==
  /\ Working(c) /\ cmd[c].at = "insert"
  /\ LET item == Current(c) IN
     IF db.history[item.version] # NoRow       \* uq_atb_migration
       THEN cmd' = Fail(c) /\ UNCHANGED db
       ELSE /\ db' = [db EXCEPT !.history[item.version] =
                        [content |-> item.content, applied |-> cmd[c].op # "baseline"]]
            /\ cmd' = Succeed(c)
  /\ UNCHANGED <<assets, links, boot, raced, left>>

(* The connection is lost before or between the statements: the whole input *)
(* is sent again; any other error of the SQL fails the item.                *)
runRestoreMySQLCommandWithInputRetry(c) ==
  /\ Working(c) /\ cmd[c].at \in {"run", "insert"} /\ left.fault > 0
  /\ left' = [left EXCEPT !.fault = @ - 1]
  /\ \/ cmd' = [cmd EXCEPT ![c].at = IF cmd[c].op = "baseline" THEN "insert" ELSE "run"]
     \/ cmd' = Fail(c)
  /\ UNCHANGED <<assets, links, boot, db, raced>>

(* The completed statuses go back into the graph as it is now, by asset id. *)
persistEnvironmentMigrationTargetStatuses(c) ==
  /\ cmd[c].op \in {"apply", "baseline", "restore"} /\ cmd[c].at = "query" /\ cmd[c].todo = <<>>
  /\ LET hit == {id \in cmd[c].done : assets[id] # NoAsset} IN
     cmd' = [cmd EXCEPT ![c] =
       IF hit = {} THEN Idle
       ELSE [op |-> "add", links |-> links,
             assets |-> [id \in Ids |-> IF id \in hit THEN [assets[id] EXCEPT !.complete = TRUE]
                                                       ELSE assets[id]]]]
  /\ UNCHANGED <<assets, links, boot, db, raced, left>>

(***************************************************************************)
(* environment restore --execute                                           *)
(***************************************************************************)
SQLAssets == {i \in DOMAIN boot : boot[i].kind = "sql"}

(* Bootstrap assets come first, then the migrations in link order (only the *)
(* report is sorted by apply order), as the graph has them when the command *)
(* starts. Assets and links are written together, so that what is linked is *)
(* there.                                                                   *)
RestoreItems ==
  [i \in DOMAIN boot |-> [seed |-> i]] \o [i \in DOMAIN links |-> MigrationItem(links[i])]
Restoring(at, adopt) ==
  [op |-> "restore", at |-> at, todo |-> RestoreItems, items |-> {MigrationItem(id) : id \in Range(links)},
   done |-> {}, adopt |-> adopt]

(* A cleaned target loses its volumes. Cleaning it under another command is *)
(* left out.                                                                *)
environmentRestoreDocker(c, clean) ==
  /\ cmd[c] = Idle /\ left.command > 0
  /\ left' = [left EXCEPT !.command = @ - 1]
  /\ clean => ~db.recreated /\ \A d \in Clients : cmd[d] = Idle
  /\ cmd' = [cmd EXCEPT ![c] = Restoring("project", FALSE)]
  /\ db' = IF clean THEN FreshDB(TRUE) ELSE db
  /\ UNCHANGED <<assets, links, boot, raced>>

(* Plain SQL is projected into files MySQL reads when it first starts: each *)
(* must be mounted into its service, at a path no other asset has.          *)
environmentRestoreProjectMySQLInitDBAssets ==
  {i \in SQLAssets : boot[i].mounted /\ \A j \in SQLAssets : j < i => boot[j].path # boot[i].path}

(* The services start, on what their volumes hold.                          *)
ProjectAndStart(c) ==
  /\ cmd[c].op = "restore" /\ cmd[c].at = "project"
  /\ LET projected == environmentRestoreProjectMySQLInitDBAssets IN
     IF projected # SQLAssets
       THEN cmd' = [cmd EXCEPT ![c] = Idle] /\ UNCHANGED db
       ELSE /\ db' = IF db.exists THEN db ELSE StartedDB(db)
            /\ cmd' = [cmd EXCEPT ![c].at = "query"]
  /\ UNCHANGED <<assets, links, boot, raced, left>>

AdoptContainers(c) ==
  /\ cmd[c] = Idle /\ db.exists /\ left.command > 0
  /\ left' = [left EXCEPT !.command = @ - 1]
  /\ cmd' = [cmd EXCEPT ![c] = Restoring("query", TRUE)]
  /\ UNCHANGED <<assets, links, boot, db, raced>>

(* An object without a seed command needs a one-shot service that has       *)
(* completed, of containers this restore started.                           *)
environmentRestoreApplyObjectStorageEdgeAsset(c, i) ==
  IF boot[i].command THEN OnceMore(db.seeded[i]) ELSE db.seeded[i]

(* Mutant of environmentRestoreApplyMySQLSQLEdgeAsset: adopted services are *)
(* treated like started ones.                                               *)
ApplySQLAgain(c, i) == OnceMore(db.seeded[i])
(* Existing containers are left alone, mounted files are only compared;     *)
(* anything else is sent to the running service.                            *)
environmentRestoreApplyMySQLSQLEdgeAsset(c, i) ==
  IF cmd[c].adopt \/ boot[i].mounted THEN db.seeded[i] ELSE OnceMore(db.seeded[i])

environmentRestoreApplyEdgeAsset(c) ==
  /\ cmd[c].op = "restore" /\ cmd[c].at = "query"
  /\ cmd[c].todo # <<>> /\ "seed" \in DOMAIN Current(c)
  /\ LET i == Current(c).seed IN
     db' = [db EXCEPT !.seeded[i] =
              IF boot[i].kind = "sql" THEN environmentRestoreApplyMySQLSQLEdgeAsset(c, i)
              ELSE environmentRestoreApplyObjectStorageEdgeAsset(c, i)]
  /\ cmd' = [cmd EXCEPT ![c].todo = Tail(@)]
  /\ UNCHANGED <<assets, links, boot, raced, left>>

environmentRestorePersistAppliedMigrationStatuses(c) ==
  cmd[c].op = "restore" /\ persistEnvironmentMigrationTargetStatuses(c)

(* A command is killed. *)
Crash(c) ==
  /\ cmd[c] # Idle /\ left.fault > 0
  /\ left' = [left EXCEPT !.fault = @ - 1]
  /\ cmd' = [cmd EXCEPT ![c] = Idle]
  /\ UNCHANGED <<assets, links, boot, db, raced>>

MigrationInit ==
  /\ boot \in Bootstraps
  /\ assets = [id \in Ids |-> NoAsset]
  /\ links = <<>>
  /\ db \in {FreshDB(FALSE), StartedDB(FreshDB(FALSE))}
  /\ cmd = [c \in Clients |-> Idle]
  /\ raced = {}
  /\ left = [add |-> Adds, command |-> Commands, fault |-> Faults]

MigrationNext == \E c \in Clients :
  \/ \E id \in Ids, v \in Versions, s \in Contents, order \in Versions \cup Overrides :
       /\ order = v \/ order \in Overrides
       /\ addEnvironmentMigrationToStore(c, id, v, s, order)
  \/ ReplaceEnvironmentComponentGraph(c)
  \/ \E op \in {"apply", "baseline"}, through \in Versions \cup {NoBound} :
       prepareEnvironmentMigrationTarget(c, op, through)
  \/ runEnvironmentMigrationWithHistory(c)
  \/ environmentMigrationApplySQL(c)
  \/ environmentMigrationInsertHistorySQL(c)
  \/ runRestoreMySQLCommandWithInputRetry(c)
  \/ cmd[c].op # "restore" /\ persistEnvironmentMigrationTargetStatuses(c)
  \/ \E clean \in BOOLEAN : environmentRestoreDocker(c, clean)
  \/ ProjectAndStart(c)
  \/ AdoptContainers(c)
  \/ environmentRestoreApplyEdgeAsset(c)
  \/ environmentRestorePersistAppliedMigrationStatuses(c)
  \/ Crash(c)

MigrationSpec == MigrationInit /\ [][MigrationNext]_migrationVars

(***************************************************************************)
(* Properties                                                              *)
(***************************************************************************)

(* What `environment migration plan` no longer shows is in the target: as   *)
(* long as the database was not recreated, an asset with a complete status  *)
(* has its version and checksum in the history, unless it was ever replaced *)
(* by another version or content while a command worked on it (the status   *)
(* goes back by asset id, to whatever has the id by then); a history row    *)
(* that says applied stands for SQL that ran; and apply runs no migration   *)
(* before those with a smaller apply order are in the history with their    *)
(* checksums, whatever crashes, retries and concurrent commands did.        *)
HistoryIsTrue ==
  /\ \A id \in Ids \ raced : assets[id] # NoAsset /\ assets[id].complete /\ ~db.recreated =>
       db.history[assets[id].version].content = assets[id].content
  /\ \A v \in Versions : db.history[v] # NoRow /\ db.history[v].applied =>
       db.ran[db.history[v].content] > 0
  /\ \A c \in Clients : Working(c) /\ cmd[c].op = "apply" /\ cmd[c].at # "query" =>
       \A i \in cmd[c].items :
         i.order < Current(c).order => db.history[i.version].content = i.content

(* Plain bootstrap SQL runs at most once in a database, however often the   *)
(* environment is restored and whether or not containers are adopted.       *)
BootstrapSQLOnce == \A i \in SQLAssets : db.seeded[i] <= 1
=============================================================================
