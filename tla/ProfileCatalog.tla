--------------------------- MODULE ProfileCatalog ---------------------------
(***************************************************************************)
(* The versioned catalog of one profile (internal/store/sqlstore/          *)
(* store_catalog_versions.go) and everything that writes it: the CLI       *)
(* commands, which hold a file lock; the editors of the control plane,     *)
(* which require the ETag their client last saw; the registration of a     *)
(* direct adapter, which runs a process between its read and its write;    *)
(* and the writers that replace the whole catalog (sandbox registration,   *)
(* restore, publication) without saying which revision they started from.  *)
(*                                                                         *)
(* A catalog is the set of things it holds, for one service, interface,    *)
(* case, workflow with one step, and step block.  "active" is the case's   *)
(* status, "source" its own case file or active request template, "config" *)
(* and "step config" its active execution configurations, "group" a use of *)
(* the block in the saved step.  A writer may refuse its request for its   *)
(* data (a parameter, a URL, a digest) at any time.                        *)
(***************************************************************************)
EXTENDS Naturals, Sequences

CONSTANTS
  CliWriters,   \* case, config, workflow and rollback commands
  Editors,      \* clients of the control plane's catalog endpoints
  Adapters,     \* registrations of direct adapters
  Replacers,    \* sandbox registration, restore and publication
  Seeds,        \* catalogs a Store may start with, as a publication left them
  Bundles,      \* catalogs a publication may write
  MaxRevision   \* bound on the revisions of a behaviour

Things == {"service", "interface", "case", "source", "active", "config", "workflow",
           "binding", "step config", "group", "block", "direct"}

Writers == CliWriters \cup Editors \cup Adapters \cup Replacers

VARIABLES
  versions,  \* profile_catalog_versions: contents, operation, revision asked for
  lock,      \* who holds the catalog write lock of the Store
  writer     \* each writer: where it is, the revision its user saw, read, claims

vars == <<versions, lock, writer>>

None == "none"
Revisions == 0..MaxRevision
Revision == Len(versions)
Content(r) == IF r = 0 THEN {} ELSE versions[r].content
Idle == [at |-> "idle", seen |-> {}, rev |-> 0, base |-> 0]

EditOperations == {"case-upsert", "case-config-upsert", "workflow-upsert",
                   "workflow-binding-upsert", "request-editor-save", "workflow-studio-save",
                   "step-library-save", "step-library-delete", "direct.register"}
ReplaceOperations == {"sandbox-service", "sandbox-interface", "restore", "publish"}
Operations == EditOperations \cup ReplaceOperations \cup {"rollback"}

TypeOK ==
  /\ versions \in Seq([content : SUBSET Things, op : Operations, by : Writers \cup {None},
                       seen : SUBSET Revisions])
  /\ Len(versions) <= MaxRevision
  /\ lock \in CliWriters \cup {None}
  /\ writer \in [Writers -> [at : {"idle", "locked", "loaded", "replacing"},
                             seen : SUBSET Revisions, rev : Revisions, base : Revisions]]

Resolved(c) ==
  /\ "interface" \in c => "service" \in c
  /\ "case" \in c => "interface" \in c
  /\ {"active", "source", "config", "step config", "block"} \cap c # {} => "case" \in c
  /\ "binding" \in c => "workflow" \in c
  /\ {"step config", "group"} \cap c # {} => "binding" \in c
  /\ "group" \in c => "block" \in c

ASSUME CatalogAssumption ==
  /\ MaxRevision \in Nat \ {0}
  /\ \A c \in Seeds \cup Bundles : c \subseteq Things /\ Resolved(c)

\* A process is one kind of writer: a command, a client of the catalog
\* endpoints, a registration of an adapter, or a replacement.
ASSUME WritersAssumption ==
  /\ CliWriters \cap (Editors \cup Adapters \cup Replacers) = {}
  /\ Editors \cap (Adapters \cup Replacers) = {}
  /\ Adapters \cap Replacers = {}
  /\ None \notin Writers

-----------------------------------------------------------------------------
(* What each operation computes from the catalog it read.                  *)

Runnable(c) == {"source", "config", "step config"} \cap c # {}

ValidateCase(c) ==
  /\ "interface" \in c
  /\ "active" \in c => Runnable(c)

\* Also what PATCH /api/case-catalog computes: the case is created or changed,
\* with or without a source of its own and the active status.
upsertCaseCatalogCase(c) ==
  {n \in {(c \ {"source", "active"}) \cup {"case"} \cup s : s \in SUBSET {"source", "active"}} :
     ValidateCase(n)}

validateCaseConfigWorkflowStepBinding(c) == "binding" \in c

\* Whose configuration is written: the case's, or that of the step bound to it.
prepareCaseExecutionTemplateConfig(c) ==
  {"config"} \cup {t \in {"step config"} : validateCaseConfigWorkflowStepBinding(c)}

\* It is written as active or with another status.
upsertCaseExecutionConfig(c) ==
  {n \in UNION {{c \cup {t}, c \ {t}} : t \in prepareCaseExecutionTemplateConfig(c)} :
     "case" \in c /\ ValidateCase(n)}

upsertWorkflowCatalogWorkflow(c) == {c \cup {"workflow"}}
upsertWorkflowCatalogBinding(c) == {n \in {c \cup {"binding"}} : "workflow" \in c}

\* A request that exists keeps its status and the status of its configuration.
compileRequestEditor(c) ==
  {n \in IF "case" \in c
           THEN {c, c \cup {"config"}}
           ELSE {c \cup {"interface", "case", "source", "config"} \cup s : s \in SUBSET {"active"}} :
     "service" \in c}

resolveWorkflowStepGroups(c) == {"case", "block"} \subseteq c
prepareWorkflowStudioSteps(c) == "case" \in c

\* The draft replaces the steps of the workflow: one, alone or as a group of
\* the step block, or none; configurations of steps it no longer has go.
compileWorkflowStudio(c) ==
  LET kept == (c \cup {"workflow"}) \ {"binding", "step config", "group"}
      step == kept \cup {"binding", "step config"}
  IN {kept} \cup {n \in {step} : prepareWorkflowStudioSteps(c)}
            \cup {n \in {step \cup {"group"}} : resolveWorkflowStepGroups(c)}

prepareStepBlockDefinition(c) == {n \in {c \cup {"block"}} : prepareWorkflowStudioSteps(c)}
stepBlockUsages(c) == {"group"} \cap c

(* Mutant of deleteStepBlock: the uses of the block are not looked up. *)
DeletesUsedBlock(c) == {n \in {c \ {"block"}} : "block" \in c}

deleteStepBlock(c) == {n \in {c \ {"block"}} : "block" \in c /\ stepBlockUsages(c) = {}}

replaceBinding(c) == {c \cup {"direct"}}

RegisterSandboxService(c) == {c \cup {"service"}}
RegisterSandboxInterface(c) ==
  {n \in {(c \ {"source", "active"}) \cup {"interface", "case", "config"} \cup s :
            s \in SUBSET {"source", "active"}} : "service" \in c}

Rollback(c) == {versions[r].content : r \in DOMAIN versions} \ {c}

Computed(op, c) ==
  CASE op = "case-upsert" -> upsertCaseCatalogCase(c)
    [] op = "case-config-upsert" -> upsertCaseExecutionConfig(c)
    [] op = "workflow-upsert" -> upsertWorkflowCatalogWorkflow(c)
    [] op = "workflow-binding-upsert" -> upsertWorkflowCatalogBinding(c)
    [] op = "request-editor-save" -> compileRequestEditor(c)
    [] op = "workflow-studio-save" -> compileWorkflowStudio(c)
    [] op = "step-library-save" -> prepareStepBlockDefinition(c)
    [] op = "step-library-delete" -> deleteStepBlock(c)
    [] op = "direct.register" -> replaceBinding(c)
    [] op = "sandbox-service" -> RegisterSandboxService(c)
    [] op = "sandbox-interface" -> RegisterSandboxInterface(c)
    [] op = "restore" -> {c}
    [] op = "publish" -> Bundles

Result(op, c) == IF op = "rollback" THEN Rollback(c) ELSE Computed(op, c)

-----------------------------------------------------------------------------
(* The Store.                                                              *)

(* Mutant of claimProfileCatalogHead: the update does not compare revisions. *)
ClaimsAnyRevision(expected) == Revision >= expected

\* Whether the row of profile_catalog_heads is at the expected revision; for
\* revision 0, whether the insert that creates it finds none.
claimProfileCatalogHead(expected) == Revision = expected

\* One transaction: claim the head, compare digests, append the version.
CompareAndSwapProfileCatalog(w, expected, content, op) ==
  IF ~claimProfileCatalogHead(expected) \/ (expected > 0 /\ content = Content(expected))
    THEN UNCHANGED versions
    ELSE /\ Revision < MaxRevision
         /\ versions' = Append(versions, [content |-> content, op |-> op, by |-> w,
                                          seen |-> writer[w].seen])

-----------------------------------------------------------------------------
(* The writers.                                                            *)

Become(w, s) == writer' = [writer EXCEPT ![w] = s]

\* A user reads the catalog, and remembers its revision or ETag.
Inspect(w) ==
  /\ w \in CliWriters \cup Editors
  /\ writer[w].at = "idle"
  /\ w \in Editors => Revision > 0
  /\ Become(w, [Idle EXCEPT !.seen = {Revision}])
  /\ UNCHANGED <<versions, lock>>

withProfileCatalogWriteLock(w) ==
  /\ w \in CliWriters
  /\ writer[w].at = "idle"
  /\ lock = None
  /\ lock' = w
  /\ Become(w, [writer[w] EXCEPT !.at = "locked"])
  /\ UNCHANGED versions

requireExpectedProfileCatalogRevision(w) == writer[w].seen \subseteq {Revision}

loadMutableProfileCatalogSnapshot(w) ==
  /\ w \in CliWriters
  /\ writer[w].at = "locked"
  /\ requireExpectedProfileCatalogRevision(w)
  /\ Become(w, [writer[w] EXCEPT !.at = "loaded", !.rev = Revision, !.base = Revision])
  /\ UNCHANGED <<versions, lock>>

(* Mutant of requireCaseCatalogIfMatch: any ETag will do. *)
IgnoresIfMatch(w) == writer[w].seen # {}

\* The header must be present and be the ETag of the current catalog.
requireCaseCatalogIfMatch(w) == writer[w].seen = {Revision}

prepareCaseCatalogMutation(w) ==
  /\ w \in Editors
  /\ writer[w].at = "idle"
  /\ Revision > 0
  /\ requireCaseCatalogIfMatch(w)
  /\ Become(w, [writer[w] EXCEPT !.at = "loaded", !.rev = Revision, !.base = Revision])
  /\ UNCHANGED <<versions, lock>>

\* currentCatalog, before the adapter is asked for its manifest.
RegisterAdapter(w) ==
  /\ w \in Adapters
  /\ writer[w].at = "idle"
  /\ Become(w, [Idle EXCEPT !.at = "loaded", !.rev = Revision, !.base = Revision])
  /\ UNCHANGED <<versions, lock>>

Unlocked(w) == lock' = IF lock = w THEN None ELSE lock

\* The write of a command, an editor or a registration; after it, a success
\* or a conflict, the request is over and the lock is released.
saveProfileCatalogMutation(w, op) ==
  /\ writer[w].at = "loaded"
  /\ \E n \in Result(op, Content(writer[w].rev)) :
       CompareAndSwapProfileCatalog(w, writer[w].base, n, op)
  /\ Unlocked(w)
  /\ Become(w, Idle)

runCaseCatalogUpsert(w) == w \in CliWriters /\ saveProfileCatalogMutation(w, "case-upsert")
runCaseConfigUpsert(w) == w \in CliWriters /\ saveProfileCatalogMutation(w, "case-config-upsert")
runWorkflowRegister(w) == w \in CliWriters /\ saveProfileCatalogMutation(w, "workflow-upsert")
runWorkflowBindingRegister(w) ==
  w \in CliWriters /\ saveProfileCatalogMutation(w, "workflow-binding-upsert")
runCaseCatalogRollback(w) == w \in CliWriters /\ saveProfileCatalogMutation(w, "rollback")

handleCaseCatalogPatch(w) == w \in Editors /\ saveProfileCatalogMutation(w, "case-upsert")
handleCaseCatalogRollback(w) == w \in Editors /\ saveProfileCatalogMutation(w, "rollback")
handleRequestEditorSave(w) == w \in Editors /\ saveProfileCatalogMutation(w, "request-editor-save")
handleWorkflowStudioSave(w) == w \in Editors /\ saveProfileCatalogMutation(w, "workflow-studio-save")
handleStepLibraryMutation(w) ==
  /\ w \in Editors
  /\ \/ saveProfileCatalogMutation(w, "step-library-save")
     \/ saveProfileCatalogMutation(w, "step-library-delete")

\* The manifest of the adapter is in; what was read before it was asked is kept.
Register(w) == w \in Adapters /\ saveProfileCatalogMutation(w, "direct.register")

\* The catalog a replacer starts from.
ReadCatalog(w) ==
  /\ w \in Replacers
  /\ writer[w].at = "idle"
  /\ Become(w, [Idle EXCEPT !.at = "loaded", !.rev = Revision])
  /\ UNCHANGED <<versions, lock>>

\* ReplaceProfileCatalog reads the revision again, and then writes.
ReplaceReads(w) ==
  /\ w \in Replacers
  /\ writer[w].at = "loaded"
  /\ Become(w, [writer[w] EXCEPT !.at = "replacing", !.base = Revision])
  /\ UNCHANGED <<versions, lock>>

ReplaceProfileCatalog(w, op) ==
  /\ w \in Replacers
  /\ writer[w].at = "replacing"
  /\ \E n \in Result(op, Content(writer[w].rev)) :
       CompareAndSwapProfileCatalog(w, writer[w].base, n, op)
  /\ Become(w, Idle)
  /\ UNCHANGED lock

handleSandboxServiceRegistration(w) == ReplaceProfileCatalog(w, "sandbox-service")
handleSandboxInterfaceRegistration(w) == ReplaceProfileCatalog(w, "sandbox-interface")
restoreProfileCatalog(w) == writer[w].rev > 0 /\ ReplaceProfileCatalog(w, "restore")
Publish(w) == ReplaceProfileCatalog(w, "publish")

\* A refused request, a failed Store call, or the death of the process, which
\* releases the file lock.
GiveUp(w) ==
  /\ writer[w] # Idle
  /\ Unlocked(w)
  /\ Become(w, Idle)
  /\ UNCHANGED versions

-----------------------------------------------------------------------------
Init ==
  /\ versions \in {<<>>} \cup {<<[content |-> c, op |-> "publish", by |-> None, seen |-> {}]>> :
                                c \in Seeds}
  /\ lock = None
  /\ writer = [w \in Writers |-> Idle]

Next ==
  \E w \in Writers :
    \/ Inspect(w)
    \/ withProfileCatalogWriteLock(w)
    \/ loadMutableProfileCatalogSnapshot(w)
    \/ prepareCaseCatalogMutation(w)
    \/ RegisterAdapter(w)
    \/ runCaseCatalogUpsert(w)
    \/ runCaseConfigUpsert(w)
    \/ runWorkflowRegister(w)
    \/ runWorkflowBindingRegister(w)
    \/ runCaseCatalogRollback(w)
    \/ handleCaseCatalogPatch(w)
    \/ handleCaseCatalogRollback(w)
    \/ handleRequestEditorSave(w)
    \/ handleWorkflowStudioSave(w)
    \/ handleStepLibraryMutation(w)
    \/ Register(w)
    \/ ReadCatalog(w)
    \/ ReplaceReads(w)
    \/ handleSandboxServiceRegistration(w)
    \/ handleSandboxInterfaceRegistration(w)
    \/ restoreProfileCatalog(w)
    \/ Publish(w)
    \/ GiveUp(w)

Spec == Init /\ [][Next]_vars

-----------------------------------------------------------------------------
(* Properties.                                                             *)

\* An edit is an edit of the revision before it, and a rollback brings back the
\* contents of an earlier one: whatever was written between a writer's read and
\* its write made the write fail.
EditsBuildOnPredecessor ==
  \A r \in 2..Revision :
    versions[r].op \notin ReplaceOperations =>
      \/ versions[r].op # "rollback" /\ versions[r].content \in Computed(versions[r].op, versions[r - 1].content)
      \/ versions[r].op = "rollback" /\ \E q \in 1..(r - 1) : versions[q].content = versions[r].content

\* A write that named the revision its user saw (an ETag, --expected-revision)
\* replaced that revision and no other.
ExpectedRevisionIsReplaced ==
  \A r \in DOMAIN versions : versions[r].seen \subseteq {r - 1}

\* In every revision an interface has its service, a case its interface, a
\* binding its workflow, a step configuration its binding and a group its
\* block, whichever writers raced and whatever was rolled back.
ReferencesResolve == \A r \in DOMAIN versions : Resolved(versions[r].content)

=============================================================================
