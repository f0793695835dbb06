----------------------------- MODULE StoreCopy -----------------------------
(***************************************************************************)
(* store copy, the command that promotes the current state of one Store    *)
(* into another: the profile catalog with its index, active configuration  *)
(* version and read models, then every environment with its structured     *)
(* rows and its component graph (store_copy.go).  Each call is a           *)
(* transaction of its own, so a call that fails leaves what the earlier    *)
(* ones wrote, and the operator repeats the command.                       *)
(*                                                                         *)
(* The Stores are named in store-config.json, which store config set,      *)
(* remove and use read, change and write back without a lock               *)
(* (store_config.go); a name is resolved when the command starts.          *)
(*                                                                         *)
(* The items of an environment (files in compose lists, generated file     *)
(* contents, services, health checks) are entries of the row's JSON or     *)
(* rows of their own; an entry and a row are the same item when they have  *)
(* the same key, or, for checks, the same signature                        *)
(* (environment_runtime_metadata.go).                                      *)
(***************************************************************************)
EXTENDS Naturals, FiniteSets

CONSTANTS
  URLs,          \* the Stores
  Names,         \* entries of store-config.json
  Admins,        \* store config and store use commands under way at a time
  Environments,
  Entries, Kind, Key, Sig,
  Structured,    \* the row that a JSON entry becomes
  Parts,         \* the components, dependencies and assets of a graph
  Components,    \* the ones that are components
  Catalogs, Profiles, ConfigVersions,
  ProfileOf,     \* the profile a catalog names, or ""
  Flows,         \* the workflows an environment may be for
  Starts,        \* what the Stores may hold at first
  Configured,    \* the entries of store-config.json at first
  Active,        \* the active one
  References,    \* the --from and --to of a copy: names, URLs or "" for the active Store
  NewEnvironments, \* what another client registers meanwhile
  Requirements,  \* the --require flags of a copy
  Copies,        \* how many copies are run
  Events         \* how many settings, faults and edits of others there are

Single(S) == \A a, b \in S : a = b

\* An environment of a Store, and a Store; an id has one environment or none.
EnvironmentRecords ==
  [json : SUBSET Entries, rows : SUBSET Entries, workflow : Flows, verified : BOOLEAN]
StoreStates ==
  [catalog : SUBSET Catalogs, index : SUBSET Profiles, config : SUBSET ConfigVersions,
   models : SUBSET [catalog : SUBSET Catalogs, config : SUBSET ConfigVersions],
   environments : [Environments -> {E \in SUBSET EnvironmentRecords : Single(E)}],
   graphs : [Environments -> SUBSET Parts]]

ASSUME CopyAssumption ==
  /\ Kind \in [Entries -> {"list", "content", "service", "check"}]
  /\ Structured \in [Entries -> Entries]
  /\ IsFiniteSet(Parts) /\ Components \subseteq Parts
  /\ Configured \in [Names -> SUBSET URLs] /\ \A n \in Names : Single(Configured[n])
  /\ Active \subseteq Names /\ Single(Active)
  /\ ProfileOf \in [Catalogs -> Profiles \cup {""}]
  /\ NewEnvironments \subseteq EnvironmentRecords
  /\ \A S \in Starts : S \in [URLs -> StoreStates]
  /\ \A q \in UNION Requirements :
       q \in [environment : SUBSET Environments, workflow : SUBSET Flows, verified : BOOLEAN,
              components : Nat, assets : Nat]

VARIABLES
  file,      \* store-config.json
  admin,     \* the commands that change it
  store,     \* the Stores
  copy,      \* the store copy under way
  quiet,     \* no one else has written a Store since the copy began
  allowance  \* what may still happen

copyVars == <<file, admin, store, copy, quiet, allowance>>

-----------------------------------------------------------------------------
(* The items of an environment.                                            *)

\* "" stands for an entry without an id, or a check that probes nothing.
SameItem(r, j) ==
  /\ Kind[r] = Kind[j]
  /\ \/ Key[r] = Key[j] /\ Key[j] # ""
     \/ Kind[j] = "check" /\ Sig[r] = Sig[j] /\ Sig[j] # ""

WithoutMatches(json, rows) == {j \in json : \A r \in rows : ~SameItem(r, j)}

\* A read: rows take the place of their entries; a compose list of rows takes
\* the place of the whole list.
StructuredView(json, rows) ==
  rows \cup {j \in WithoutMatches(json, rows) :
               Kind[j] = "list" => \A r \in rows : Kind[r] # "list"}

Shown(e) == StructuredView(e.json, e.rows)

(* Mutant of storeCopyEnvironmentForTarget: with rows of a kind, all entries of the kind go. *)
stripKinds(json, rows) == {j \in json : \A r \in rows : Kind[r] # Kind[j]}

\* The compose lists stay; the target's own upsert takes them out.
storeCopyEnvironmentForTarget(json, rows) ==
  {j \in json : Kind[j] = "list"} \cup WithoutMatches(json, rows)

-----------------------------------------------------------------------------
(* store-config.json.                                                      *)

Off == [at |-> "idle", new |-> file]

\* os.WriteFile empties the file before it writes; an empty file is an error
\* to every reader.
loadStoreConfig == file.readable

Save(p, urls, active) ==
  /\ admin[p].at = "idle"
  /\ allowance.events > 0
  /\ loadStoreConfig
  /\ allowance' = [allowance EXCEPT !.events = @ - 1]
  /\ admin' = [admin EXCEPT ![p] = [at |-> "truncate",
                 new |-> [readable |-> TRUE, urls |-> urls, active |-> active]]]
  /\ UNCHANGED <<file, store, copy, quiet>>

runStoreConfigSet(p) ==
  \E n \in Names, u \in URLs : Save(p, [file.urls EXCEPT ![n] = {u}], file.active)

loadNamedStoreConfigFromArgs(n) == file.urls[n] # {}

runStoreConfigRemove(p) ==
  \E n \in Names :
    /\ loadNamedStoreConfigFromArgs(n)
    /\ Save(p, [file.urls EXCEPT ![n] = {}], file.active \ {n})

runStoreUse(p) ==
  \E n \in Names : loadNamedStoreConfigFromArgs(n) /\ Save(p, file.urls, {n})

saveStoreConfig(p) ==
  /\ \/ /\ admin[p].at = "truncate"
        /\ file' = [file EXCEPT !.readable = FALSE]
        /\ admin' = [admin EXCEPT ![p].at = "write"]
     \/ /\ admin[p].at = "write"
        /\ file' = admin[p].new
        /\ admin' = [admin EXCEPT ![p] = [at |-> "idle", new |-> admin[p].new]]
  /\ UNCHANGED <<store, copy, quiet, allowance>>

activeStoreConfig == UNION {file.urls[n] : n \in file.active}

\* {} is an error: an unknown name, no active Store or an unreadable file.
resolveStoreReference(ref) ==
  CASE ref \in URLs -> {ref}
    [] ref \in Names -> IF loadStoreConfig THEN file.urls[ref] ELSE {}
    [] OTHER -> IF loadStoreConfig THEN activeStoreConfig ELSE {}

-----------------------------------------------------------------------------
(* The copy.                                                               *)

NoCopy ==
  [at |-> "idle", ok |-> FALSE, to |-> "", source |-> {}, target |-> {}, catalog |-> {},
   config |-> {}, todo |-> {}, listed |-> <<>>, env |-> {}, rows |-> {}, lost |-> {},
   graphs |-> {}, require |-> {}]

Source == store[CHOOSE u \in copy.source : TRUE]
Target == store[CHOOSE u \in copy.target : TRUE]

\* The statement at "here" is done, and the copy goes on with the changes c.
Continue(here, c) ==
  /\ copy.at = here
  /\ copy' = c
  /\ UNCHANGED <<file, admin, quiet, allowance>>

Read(here, c) == Continue(here, c) /\ UNCHANGED store

\* A statement of the copy in the target.
WriteTarget(here, t, next) ==
  /\ Continue(here, [copy EXCEPT !.at = next])
  /\ store' = [u \in URLs |-> IF u \in copy.target THEN t ELSE store[u]]

runStoreCopy ==
  /\ copy.at = "idle"
  /\ allowance.copies > 0
  /\ allowance' = [allowance EXCEPT !.copies = @ - 1]
  /\ \E ref \in References, q \in Requirements :
       /\ resolveStoreReference(ref[1]) # {}
       /\ copy' = [NoCopy EXCEPT !.at = "resolve", !.source = resolveStoreReference(ref[1]),
                                 !.to = ref[2], !.require = q]
  /\ quiet' = TRUE
  /\ UNCHANGED <<file, admin, store>>

resolveTarget ==
  /\ resolveStoreReference(copy.to) # {}
  /\ Read("resolve", [copy EXCEPT !.at = "catalog", !.target = resolveStoreReference(copy.to)])

\* copyStoreProfileState, call by call. Without a catalog, or with one that
\* names no profile, the rest is skipped.
GetProfileCatalog ==
  Read("catalog", [copy EXCEPT !.at = IF Source.catalog = {} THEN "list" ELSE "write catalog",
                               !.catalog = Source.catalog])

ReplaceProfileCatalog ==
  WriteTarget("write catalog", [Target EXCEPT !.catalog = copy.catalog],
              IF \A c \in copy.catalog : ProfileOf[c] = "" THEN "list" ELSE "index")

\* The index of the catalog's profile, when the source has one.
copyProfileIndex ==
  WriteTarget("index",
    [Target EXCEPT !.index = @ \cup (Source.index \cap {ProfileOf[c] : c \in copy.catalog})],
    "config")

\* Whatever its profile, the source's active version becomes the target's.
copyActiveConfigVersion ==
  /\ Continue("config", [copy EXCEPT !.at = "models", !.config = Source.config])
  /\ store' = [u \in URLs |->
                 IF u \in copy.target /\ Source.config # {}
                 THEN [store[u] EXCEPT !.config = Source.config] ELSE store[u]]

\* A version id made up for the copy when the source has none.
UpsertProfileReadModels ==
  WriteTarget("models",
    [Target EXCEPT !.models = {[catalog |-> copy.catalog, config |-> copy.config]}], "list")

\* copyStoreEnvironmentState: the environments as a read merges them.
ListEnvironments ==
  LET present == {e \in Environments : Source.environments[e] # {}} IN
  Read("list",
    [copy EXCEPT !.at = "next", !.todo = present,
                 !.listed = [e \in present |->
                   {[x EXCEPT !.json = Shown(x)] : x \in Source.environments[e]}]])

\* The rows of the next environment, by queries after the list.
listStructuredRows ==
  \E e \in copy.todo :
    Read("next",
      [copy EXCEPT !.at = "upsert", !.todo = @ \ {e}, !.env = {e},
                   !.rows = UNION {x.rows : x \in Source.environments[e]}])

Environment == CHOOSE e \in copy.env : TRUE
TargetRows == UNION {x.rows : x \in Target.environments[Environment]}

\* What the copy holds for the environment, before the target takes its own
\* rows out of it.
ForTarget ==
  {[x EXCEPT !.json = storeCopyEnvironmentForTarget(x.json, copy.rows), !.rows = TargetRows] :
     x \in copy.listed[Environment]}

\* The target takes out what it has rows for, before those are replaced.
UpsertEnvironment ==
  LET new == {[x EXCEPT !.json = WithoutMatches(x.json, TargetRows)] : x \in ForTarget} IN
  /\ copy.at = "upsert"
  /\ store' = [u \in URLs |-> IF u \in copy.target
                              THEN [store[u] EXCEPT !.environments[Environment] = new] ELSE store[u]]
  /\ copy' = [copy EXCEPT !.at = "list rows",
       !.lost = @ \cup {<<Environment, j>> :
                  j \in (UNION {x.json \ WithoutMatches(x.json, TargetRows) : x \in ForTarget})
                        \ copy.rows}]
  /\ UNCHANGED <<file, admin, quiet, allowance>>

ReplaceRows(here, kinds, next) ==
  WriteTarget(here,
    [Target EXCEPT !.environments[Environment] =
       {[x EXCEPT !.rows = {r \in x.rows : Kind[r] \notin kinds}
                           \cup {r \in copy.rows : Kind[r] \in kinds}] : x \in @}], next)

ReplaceTargetFiles == ReplaceRows("list rows", {"list", "content"}, "service rows")
ReplaceTargetServices == ReplaceRows("service rows", {"service"}, "check rows")
ReplaceTargetChecks == ReplaceRows("check rows", {"check"}, "graph")

\* An empty graph is not written: the target keeps the one it has.
copyComponentGraph ==
  LET g == Source.graphs[Environment] IN
  /\ Continue("graph",
       [copy EXCEPT !.at = "next", !.env = {}, !.rows = {},
                    !.graphs = IF g = {} THEN @ ELSE @ \cup {<<Environment, g>>}])
  /\ store' = [u \in URLs |-> IF u \in copy.target /\ g # {}
                              THEN [store[u] EXCEPT !.graphs[Environment] = g] ELSE store[u]]

\* The gate looks at what was copied, when everything has been written.
validateStoreCopyRequirements(q) ==
  /\ q.environment = {} => ~q.verified /\ q.workflow = {} /\ q.components = 0 /\ q.assets = 0
  /\ \A e \in q.environment :
       /\ e \in DOMAIN copy.listed
       /\ \A x \in copy.listed[e] : (q.workflow # {} => x.workflow \in q.workflow)
                                    /\ (q.verified => x.verified)
       /\ q.components + q.assets > 0 =>
            \E g \in copy.graphs :
              /\ g[1] = e /\ g[2] \cap Components # {}
              /\ Cardinality(g[2] \cap Components) >= q.components
              /\ Cardinality(g[2] \ Components) >= q.assets

finishStoreCopy ==
  /\ copy.todo = {}
  /\ Read("next", [copy EXCEPT !.at = "done", !.ok = \A q \in copy.require : validateStoreCopyRequirements(q)])

\* The operator sees the report and is free to copy again.
Report == Read("done", NoCopy)

\* --to names no Store.
refuseStoreCopy == resolveStoreReference(copy.to) = {} /\ Read("resolve", NoCopy)

\* A Store that cannot be opened or a call that fails; what was written stays.
failStoreCopy ==
  /\ copy.at \notin {"idle", "done"}
  /\ allowance.events > 0
  /\ copy' = NoCopy
  /\ allowance' = [allowance EXCEPT !.events = @ - 1]
  /\ UNCHANGED <<file, admin, store, quiet>>

-----------------------------------------------------------------------------
(* Other clients of the Stores.                                            *)

Disturb(u, t) ==
  /\ allowance.events > 0
  /\ allowance' = [allowance EXCEPT !.events = @ - 1]
  /\ store' = [store EXCEPT ![u] = t]
  /\ quiet' = FALSE
  /\ UNCHANGED <<file, admin, copy>>

\* Entries as rows: services and repositories by id, a list or a generated
\* file by path, and a check with an id made of its place when it has none.
EnvironmentFilesFromComposeJSON(json) ==
  {Structured[j] : j \in {i \in json : Kind[i] \in {"list", "content"}}}
EnvironmentServicesFromJSON(json) == {Structured[j] : j \in {i \in json : Kind[i] = "service"}}
EnvironmentHealthChecksFromJSON(json) == {Structured[j] : j \in {i \in json : Kind[i] = "check"}}

\* A registration turns the entries it brings into rows; the compose lists
\* stay in the JSON as well, unless there were rows for them.
RegisterEnvironment ==
  \E u \in URLs, e \in Environments, x \in NewEnvironments :
    Disturb(u, [store[u] EXCEPT !.environments[e] =
      {[x EXCEPT !.json = WithoutMatches({j \in x.json : Kind[j] = "list"},
                                         UNION {y.rows : y \in store[u].environments[e]}),
                 !.rows = EnvironmentFilesFromComposeJSON(x.json)
                          \cup EnvironmentServicesFromJSON(x.json)
                          \cup EnvironmentHealthChecksFromJSON(x.json)]}])

\* repo set: the services of the row's JSON become rows.
ServicesWithLegacyJSON(x) ==
  x.rows \cup EnvironmentServicesFromJSON(Shown(x) \ x.rows)

SetRepositories ==
  \E u \in URLs, e \in Environments :
    /\ store[u].environments[e] # {}
    /\ Disturb(u, [store[u] EXCEPT !.environments[e] =
         {[x EXCEPT !.json = {j \in Shown(x) : Kind[j] # "service"} \ x.rows,
                    !.rows = ServicesWithLegacyJSON(x)] : x \in @}])

ReplaceEnvironmentComponentGraph ==
  \E u \in URLs, e \in Environments, g \in {{}, Parts} :
    Disturb(u, [store[u] EXCEPT !.graphs[e] = g])

-----------------------------------------------------------------------------
CopyInit ==
  /\ file = [readable |-> TRUE, urls |-> Configured, active |-> Active]
  /\ admin = [p \in Admins |-> Off]
  /\ store \in Starts
  /\ copy = NoCopy
  /\ quiet = TRUE
  /\ allowance = [copies |-> Copies, events |-> Events]

CopyNext ==
  \/ \E p \in Admins :
       \/ runStoreConfigSet(p)
       \/ runStoreConfigRemove(p)
       \/ runStoreUse(p)
       \/ saveStoreConfig(p)
  \/ runStoreCopy
  \/ resolveTarget
  \/ GetProfileCatalog
  \/ ReplaceProfileCatalog
  \/ copyProfileIndex
  \/ copyActiveConfigVersion
  \/ UpsertProfileReadModels
  \/ ListEnvironments
  \/ listStructuredRows
  \/ UpsertEnvironment
  \/ ReplaceTargetFiles
  \/ ReplaceTargetServices
  \/ ReplaceTargetChecks
  \/ copyComponentGraph
  \/ finishStoreCopy
  \/ Report
  \/ refuseStoreCopy
  \/ failStoreCopy
  \/ RegisterEnvironment
  \/ SetRepositories
  \/ ReplaceEnvironmentComponentGraph

CopySpec == CopyInit /\ [][CopyNext]_copyVars

-----------------------------------------------------------------------------
(* Properties.                                                             *)

\* The target answers for environment e as the source does, except for what
\* the source has only as a JSON entry and the target had as a row, which the
\* copy loses, and for a graph the source does not have.
EnvironmentCopied(e) ==
  /\ Target.environments[e] # {}
  /\ \A x \in Source.environments[e], y \in Target.environments[e] :
       /\ y.workflow = x.workflow /\ y.verified = x.verified
       /\ Shown(y) = Shown(x) \ {l[2] : l \in {k \in copy.lost : k[1] = e}}
  /\ Source.graphs[e] \in {{}, Target.graphs[e]}

\* A copy that reports OK while nobody else wrote to either Store, whatever an
\* earlier copy left half done and whichever two names or the same one it was
\* given, leaves in the target the source's catalog with read models made from
\* it, and every environment of the source with all its items; and what the
\* --require flags ask for is true of the target.
CopiedStateIsWhole ==
  copy.at = "done" /\ copy.ok /\ quiet =>
    /\ Source.catalog # {} =>
         /\ Target.catalog = Source.catalog
         /\ (\A c \in Source.catalog : ProfileOf[c] # "") =>
              /\ \A m \in Target.models : m.catalog = Target.catalog /\ m.config = Source.config
              /\ Target.models # {}
    /\ \A e \in {d \in Environments : Source.environments[d] # {}} : EnvironmentCopied(e)
    /\ \A q \in copy.require : \A e \in q.environment :
         /\ q.components <= Cardinality(Target.graphs[e] \cap Components)
         /\ \A y \in Target.environments[e] :
              (q.workflow # {} => y.workflow \in q.workflow) /\ (q.verified => y.verified)

=============================================================================
