----------------------------- MODULE StoreProofs -----------------------------
(***************************************************************************)
(* Proofs about the revisions of a catalog (ProfileCatalog), for any       *)
(* number of commands, editors, registrations and replacers, any seeds and *)
(* bundles and any bound on the revisions; about the upgrade of a Store's  *)
(* schema (StoreSchema), for any number of processes that open it and any  *)
(* database an older program has left; about the publication of packages   *)
(* (ProfilePublication), for any number of jobs, edits and faults; about   *)
(* the drafts of the desktop (DesktopWorkspace), for any items, contents   *)
(* and keystrokes, and about the pages of the control plane (ReadModels),  *)
(* for any finite catalogs and bundle, any runs and any publishers.        *)
(***************************************************************************)
EXTENDS ProfileCatalog, StoreSchema, ProfilePublication, DesktopWorkspace, ReadModels,
        FiniteSetTheorems, WellFoundedInduction, TLAPS

Version == [content : SUBSET Things, op : Operations, by : Writers \cup {None},
            seen : SUBSET Revisions]
WriterState == [at : {"idle", "locked", "loaded", "replacing"},
                seen : SUBSET Revisions, rev : Revisions, base : Revisions]

-----------------------------------------------------------------------------
(* What the operations compute                                              *)

(* The commands, editors and registrations compute, from a catalog whose    *)
(* references resolve, a catalog whose references resolve.                  *)
LEMMA EditsResolve ==
  ASSUME NEW c, c \subseteq Things, Resolved(c), NEW op \in EditOperations,
         NEW n \in Computed(op, c)
  PROVE  n \subseteq Things /\ Resolved(n)
<1> USE DEF Things, Resolved
<1>1. CASE op = "case-upsert"
  <2>1. PICK s \in SUBSET {"source", "active"} :
          n = (c \ {"source", "active"}) \cup {"case"} \cup s /\ ValidateCase(n)
    BY <1>1 DEF Computed, upsertCaseCatalogCase
  <2> QED
    BY <2>1 DEF ValidateCase
<1>2. CASE op = "case-config-upsert"
  <2>1. n \in UNION {{c \cup {t}, c \ {t}} : t \in prepareCaseExecutionTemplateConfig(c)}
        /\ "case" \in c
    BY <1>2 DEF Computed, upsertCaseExecutionConfig
  <2>2. PICK t \in prepareCaseExecutionTemplateConfig(c) : n = c \cup {t} \/ n = c \ {t}
    BY <2>1
  <2>3. t = "config" \/ (t = "step config" /\ "binding" \in c)
    BY DEF prepareCaseExecutionTemplateConfig, validateCaseConfigWorkflowStepBinding
  <2> QED
    BY <2>1, <2>2, <2>3
<1>3. CASE op = "workflow-upsert"
  <2>1. n = c \cup {"workflow"}
    BY <1>3 DEF Computed, upsertWorkflowCatalogWorkflow
  <2> QED
    BY <2>1
<1>4. CASE op = "workflow-binding-upsert"
  <2>1. n = c \cup {"binding"} /\ "workflow" \in c
    BY <1>4 DEF Computed, upsertWorkflowCatalogBinding
  <2> QED
    BY <2>1
<1>5. CASE op = "request-editor-save"
  <2>1. n \in compileRequestEditor(c)
    BY <1>5 DEF Computed
  <2>2. CASE "case" \in c
    BY <2>1, <2>2 DEF compileRequestEditor
  <2>3. CASE "case" \notin c
    <3>1. PICK s \in SUBSET {"active"} :
            n = c \cup {"interface", "case", "source", "config"} \cup s /\ "service" \in c
      BY <2>1, <2>3 DEF compileRequestEditor
    <3> QED
      BY <3>1
  <2> QED
    BY <2>2, <2>3
<1>6. CASE op = "workflow-studio-save"
  <2> DEFINE kept == (c \cup {"workflow"}) \ {"binding", "step config", "group"}
  <2>1. \/ n = kept
        \/ n = kept \cup {"binding", "step config"} /\ "case" \in c
        \/ n = kept \cup {"binding", "step config", "group"} /\ {"case", "block"} \subseteq c
    BY <1>6 DEF Computed, compileWorkflowStudio, prepareWorkflowStudioSteps,
       resolveWorkflowStepGroups
  <2> QED
    BY <2>1
<1>7. CASE op = "step-library-save"
  <2>1. n = c \cup {"block"} /\ "case" \in c
    BY <1>7 DEF Computed, prepareStepBlockDefinition, prepareWorkflowStudioSteps
  <2> QED
    BY <2>1
<1>8. CASE op = "step-library-delete"
  BY <1>8 DEF Computed, deleteStepBlock, stepBlockUsages
<1>9. CASE op = "direct.register"
  <2>1. n = c \cup {"direct"}
    BY <1>9 DEF Computed, replaceBinding
  <2> QED
    BY <2>1
<1> QED
  BY <1>1, <1>2, <1>3, <1>4, <1>5, <1>6, <1>7, <1>8, <1>9 DEF EditOperations

(* So do the writers that replace the whole catalog.                        *)
LEMMA ReplacementsResolve ==
  ASSUME NEW c, c \subseteq Things, Resolved(c), NEW op \in ReplaceOperations,
         NEW n \in Computed(op, c)
  PROVE  n \subseteq Things /\ Resolved(n)
<1>1. CASE op = "sandbox-service"
  <2>1. n = c \cup {"service"}
    BY <1>1 DEF Computed, RegisterSandboxService
  <2> QED
    BY <2>1 DEF Things, Resolved
<1>2. CASE op = "sandbox-interface"
  <2>1. PICK s \in SUBSET {"source", "active"} :
          /\ n = (c \ {"source", "active"}) \cup {"interface", "case", "config"} \cup s
          /\ "service" \in c
    BY <1>2 DEF Computed, RegisterSandboxInterface
  <2> QED
    BY <2>1 DEF Things, Resolved
<1>3. CASE op = "restore"
  BY <1>3 DEF Computed
<1>4. CASE op = "publish"
  BY <1>4, CatalogAssumption DEF Computed
<1> QED
  BY <1>1, <1>2, <1>3, <1>4 DEF ReplaceOperations

-----------------------------------------------------------------------------
(* The inductive invariant                                                  *)

(* What a writer remembers is not ahead of the catalog; an editor or a      *)
(* command works on the revision it will compare with, and on the one its   *)
(* user saw; registrations and replacements have no user who saw one.       *)
Remembers(w) ==
  /\ writer[w].rev <= Revision /\ writer[w].base <= Revision
  /\ w \in Adapters \cup Replacers => writer[w].seen = {}
  /\ writer[w].at = "loaded" /\ w \notin Replacers =>
       writer[w].rev = writer[w].base /\ writer[w].seen \subseteq {writer[w].base}

CatalogInv ==
  /\ TypeOK
  /\ \A w \in Writers : Remembers(w)
  /\ EditsBuildOnPredecessor
  /\ ExpectedRevisionIsReplaced
  /\ ReferencesResolve

(* The parts of the type invariant, by the names used here. *)
LEMMA Types ==
  TypeOK <=> /\ versions \in Seq(Version)
             /\ Revision <= MaxRevision
             /\ lock \in CliWriters \cup {None}
             /\ writer \in [Writers -> WriterState]
BY DEF TypeOK, Version, WriterState, Revision

(* A writer between two operations is in a state of the type. *)
LEMMA IdleTyped == Idle \in WriterState
BY CatalogAssumption DEF Idle, WriterState, Revisions

(* A step that only changes what a writer remembers.                        *)
LEMMA ReadStep ==
  ASSUME CatalogInv, NEW w \in Writers, NEW s \in WriterState, Become(w, s),
         versions' = versions, lock' \in CliWriters \cup {None},
         s.rev <= Revision, s.base <= Revision,
         w \in Adapters \cup Replacers => s.seen = {},
         (s.at = "loaded" /\ w \notin Replacers) => (s.rev = s.base /\ s.seen \subseteq {s.base})
  PROVE  CatalogInv'
<1>1. writer' = [writer EXCEPT ![w] = s] /\ writer \in [Writers -> WriterState]
  BY Types DEF Become, CatalogInv
<1>2. TypeOK'
  <2>1. TypeOK' <=> /\ versions' \in Seq(Version)
                    /\ Revision' <= MaxRevision
                    /\ lock' \in CliWriters \cup {None}
                    /\ writer' \in [Writers -> WriterState]
    BY DEF TypeOK, Version, WriterState, Revision
  <2> QED
    BY <1>1, <2>1, Types DEF CatalogInv, Revision
<1>3. ASSUME NEW x \in Writers PROVE Remembers(x)'
  BY <1>1 DEF Remembers, CatalogInv, Revision
<1>4. (EditsBuildOnPredecessor /\ ExpectedRevisionIsReplaced /\ ReferencesResolve)'
  BY DEF CatalogInv, EditsBuildOnPredecessor, ExpectedRevisionIsReplaced,
     ReferencesResolve, Revision
<1> QED
  BY <1>2, <1>3, <1>4 DEF CatalogInv

(* A write whose expected revision is still the current one.                *)
LEMMA WriteStep ==
  ASSUME CatalogInv, NEW w \in Writers, NEW op \in Operations,
         NEW n \in Result(op, Content(writer[w].rev)),
         w \notin Replacers => (op \notin ReplaceOperations /\ writer[w].at = "loaded"),
         w \in Replacers => op \in ReplaceOperations,
         writer[w].base = Revision, Revision < MaxRevision,
         versions' = Append(versions, [content |-> n, op |-> op, by |-> w, seen |-> writer[w].seen]),
         Become(w, Idle), lock' \in CliWriters \cup {None}
  PROVE  CatalogInv'
<1> DEFINE v == [content |-> n, op |-> op, by |-> w, seen |-> writer[w].seen]
<1>1. /\ versions \in Seq(Version) /\ writer \in [Writers -> WriterState]
      /\ Revision \in Nat /\ Revision <= MaxRevision
      /\ \A r \in 1..Revision : versions[r] \in Version
  BY Types DEF CatalogInv, Revision
<1>2. Remembers(w) /\ writer[w] \in WriterState
  BY <1>1 DEF CatalogInv
<1>3. writer[w].rev \in 0..Revision
  BY <1>1, <1>2, CatalogAssumption DEF Remembers, WriterState, Revisions
<1> DEFINE c == Content(writer[w].rev)
<1>4. c \subseteq Things /\ Resolved(c)
  <2>1. CASE writer[w].rev = 0
    BY <2>1 DEF Content, Resolved
  <2>2. CASE writer[w].rev # 0
    <3>1. writer[w].rev \in DOMAIN versions /\ c = versions[writer[w].rev].content
      BY <1>1, <1>3, <2>2 DEF Content, Revision
    <3> QED
      BY <1>1, <1>3, <2>2, <3>1 DEF CatalogInv, ReferencesResolve, Version
  <2> QED
    BY <2>1, <2>2
<1>5. op = "rollback" => \E q \in 1..Revision : n = versions[q].content
  BY <1>1 DEF Result, Rollback, Revision
<1>5a. op # "rollback" => n \in Computed(op, c)
  BY DEF Result
<1>6. n \subseteq Things /\ Resolved(n)
  <2>1. CASE op = "rollback"
    BY <1>1, <1>5, <2>1 DEF CatalogInv, ReferencesResolve, Version, Revision
  <2>2. CASE op \in EditOperations
    BY <1>4, <1>5a, <2>2, EditsResolve DEF EditOperations
  <2>3. CASE op \in ReplaceOperations
    BY <1>4, <1>5a, <2>3, ReplacementsResolve DEF ReplaceOperations
  <2> QED
    BY <2>1, <2>2, <2>3 DEF Operations
<1>7. v \in Version
  BY <1>2, <1>6 DEF Version, WriterState
<1> HIDE DEF v, c
<1>8. /\ versions' = Append(versions, v)
      /\ versions' \in Seq(Version) /\ Revision' = Revision + 1
      /\ \A r \in 1..Revision : versions'[r] = versions[r]
      /\ versions'[Revision + 1] = v
      /\ DOMAIN versions' = 1..(Revision + 1) /\ DOMAIN versions = 1..Revision
  <2>1. versions' = Append(versions, v)
    BY DEF v
  <2> QED
    BY <1>1, <1>7, <2>1 DEF Revision
<1>9. TypeOK'
  <2>1. TypeOK' <=> /\ versions' \in Seq(Version)
                    /\ Revision' <= MaxRevision
                    /\ lock' \in CliWriters \cup {None}
                    /\ writer' \in [Writers -> WriterState]
    BY DEF TypeOK, Version, WriterState, Revision
  <2>2. writer' \in [Writers -> WriterState]
    BY <1>1, IdleTyped DEF Become
  <2> QED
    BY <1>1, <1>8, <2>1, <2>2, CatalogAssumption
<1>10. ASSUME NEW x \in Writers PROVE Remembers(x)'
  <2>1. CASE x = w
    <3>1. writer'[w] = Idle
      BY <1>1 DEF Become
    <3> QED
      BY <1>1, <1>8, <2>1, <3>1 DEF Remembers, Idle
  <2>2. CASE x # w
    <3>1. writer'[x] = writer[x] /\ writer[x] \in WriterState
      BY <1>1, <2>2 DEF Become
    <3>2. Remembers(x) /\ writer[x].rev \in Nat /\ writer[x].base \in Nat
      BY <3>1, CatalogAssumption DEF CatalogInv, WriterState, Revisions
    <3> QED
      BY <1>1, <1>8, <3>1, <3>2 DEF Remembers
  <2> QED
    BY <2>1, <2>2
<1>11. ReferencesResolve'
  <2> SUFFICES ASSUME NEW r \in 1..(Revision + 1) PROVE Resolved(versions'[r].content)
    BY <1>8 DEF ReferencesResolve, Resolved
  <2>0. r = Revision + 1 \/ r \in 1..Revision
    BY <1>1
  <2>1. CASE r = Revision + 1
    BY <1>6, <1>8, <2>1 DEF v
  <2>2. CASE r \in 1..Revision
    BY <1>8, <2>2 DEF CatalogInv, ReferencesResolve
  <2> QED
    BY <2>0, <2>1, <2>2
<1>12. ExpectedRevisionIsReplaced'
  <2> SUFFICES ASSUME NEW r \in 1..(Revision + 1) PROVE versions'[r].seen \subseteq {r - 1}
    BY <1>8 DEF ExpectedRevisionIsReplaced
  <2>0. r = Revision + 1 \/ r \in 1..Revision
    BY <1>1
  <2>1. CASE r = Revision + 1
    <3>1. writer[w].seen \subseteq {Revision}
      BY <1>2 DEF Remembers
    <3>2. r - 1 = Revision /\ versions'[r].seen = writer[w].seen
      BY <1>1, <1>8, <2>1 DEF v
    <3> QED
      BY <3>1, <3>2
  <2>2. CASE r \in 1..Revision
    BY <1>8, <2>2 DEF CatalogInv, ExpectedRevisionIsReplaced
  <2> QED
    BY <2>0, <2>1, <2>2
<1>13. EditsBuildOnPredecessor'
  <2> SUFFICES ASSUME NEW r \in 2..(Revision + 1), versions'[r].op \notin ReplaceOperations
               PROVE  \/ /\ versions'[r].op # "rollback"
                         /\ versions'[r].content \in Computed(versions'[r].op, versions'[r - 1].content)
                      \/ /\ versions'[r].op = "rollback"
                         /\ \E q \in 1..(r - 1) : versions'[q].content = versions'[r].content
    BY <1>8 DEF EditsBuildOnPredecessor
  <2>0. r \in 1..(Revision + 1) /\ r - 1 \in 1..Revision /\ (r = Revision + 1 \/ r \in 1..Revision)
    BY <1>1
  <2>1. CASE r = Revision + 1
    <3>1. versions'[r] = v /\ r - 1 = Revision /\ w \notin Replacers /\ op \notin ReplaceOperations
      BY <1>1, <1>8, <2>1 DEF v
    <3>2. CASE op = "rollback"
      <4>1. PICK q \in 1..Revision : n = versions[q].content
        BY <1>5, <3>2
      <4> QED
        BY <1>8, <3>1, <3>2, <4>1 DEF v
    <3>3. CASE op # "rollback"
      <4>2. writer[w].rev = Revision
        BY <1>2, <3>1 DEF Remembers
      <4>3. c = versions[r - 1].content /\ versions'[r - 1] = versions[r - 1]
        BY <1>1, <1>8, <2>0, <3>1, <4>2 DEF Content, c
      <4>4. versions'[r].op = op /\ versions'[r].content = n /\ versions'[r - 1].content = c
        <5>1. versions'[r].op = op
          BY <1>8, <2>1 DEF v
        <5>2. versions'[r].content = n
          BY <1>8, <2>1 DEF v
        <5>3. versions'[r - 1].content = c
          BY <4>3
        <5> QED
          BY <5>1, <5>2, <5>3
      <4>5. versions'[r].content \in Computed(versions'[r].op, versions'[r - 1].content)
        BY <1>5a, <3>3, <4>4
      <4> QED
        BY <3>3, <4>4, <4>5
    <3> QED
      BY <3>2, <3>3
  <2>2. CASE r \in 1..Revision
    <3>1. versions'[r] = versions[r] /\ versions'[r - 1] = versions[r - 1]
          /\ \A q \in 1..(r - 1) : versions'[q] = versions[q]
      BY <1>1, <1>8, <2>0, <2>2
    <3>3. \/ /\ versions[r].op # "rollback"
             /\ versions[r].content \in Computed(versions[r].op, versions[r - 1].content)
          \/ /\ versions[r].op = "rollback"
             /\ \E q \in 1..(r - 1) : versions[q].content = versions[r].content
      <4>1. r \in 2..Revision /\ versions[r].op \notin ReplaceOperations
        <5>1. r \in 2..Revision
          BY <1>1, <2>2
        <5>2. versions[r].op \notin ReplaceOperations
          BY <3>1
        <5> QED
          BY <5>1, <5>2
      <4> QED
        BY <4>1 DEF CatalogInv, EditsBuildOnPredecessor
    <3> QED
      BY <3>1, <3>3
  <2> QED
    BY <2>0, <2>1, <2>2
<1> QED
  BY <1>9, <1>10, <1>11, <1>12, <1>13 DEF CatalogInv
(* What any write leads to: nothing, when the head has moved or the content *)
(* is the same, or one more version.                                        *)
LEMMA AnyWrite ==
  ASSUME CatalogInv, NEW w \in Writers, NEW op \in Operations,
         NEW n \in Result(op, Content(writer[w].rev)),
         w \notin Replacers => (op \notin ReplaceOperations /\ writer[w].at = "loaded"),
         w \in Replacers => op \in ReplaceOperations,
         CompareAndSwapProfileCatalog(w, writer[w].base, n, op),
         Become(w, Idle), lock' \in CliWriters \cup {None}
  PROVE  CatalogInv'
<1>1. Revision \in Nat
  BY Types DEF CatalogInv, Revision
<1>2. CASE UNCHANGED versions
  BY <1>1, <1>2, IdleTyped, ReadStep DEF Idle
<1>3. CASE /\ writer[w].base = Revision /\ Revision < MaxRevision
           /\ versions' = Append(versions, [content |-> n, op |-> op, by |-> w,
                                            seen |-> writer[w].seen])
  BY <1>3, WriteStep
<1> QED
  BY <1>2, <1>3 DEF CompareAndSwapProfileCatalog, claimProfileCatalogHead

(* A lock that is released, if this writer holds it, is a lock.             *)
LEMMA UnlockedTyped ==
  ASSUME CatalogInv, NEW w, Unlocked(w)
  PROVE  lock' \in CliWriters \cup {None}
BY Types DEF CatalogInv, Unlocked

(* The write of a command, an editor or a registration keeps the invariant. *)
LEMMA MutationStep ==
  ASSUME CatalogInv, NEW w \in Writers, w \notin Replacers,
         NEW op \in EditOperations \cup {"rollback"}, saveProfileCatalogMutation(w, op)
  PROVE  CatalogInv'
<1>1. op \in Operations /\ op \notin ReplaceOperations
  BY DEF Operations, EditOperations, ReplaceOperations
<1>2. PICK n \in Result(op, Content(writer[w].rev)) :
        CompareAndSwapProfileCatalog(w, writer[w].base, n, op)
  BY DEF saveProfileCatalogMutation
<1>3. writer[w].at = "loaded" /\ Become(w, Idle) /\ lock' \in CliWriters \cup {None}
  BY UnlockedTyped DEF saveProfileCatalogMutation
<1> QED
  BY <1>1, <1>2, <1>3, AnyWrite

(* So does the write of a writer that replaces the whole catalog.           *)
LEMMA ReplacementStep ==
  ASSUME CatalogInv, NEW w \in Writers, NEW op \in ReplaceOperations,
         ReplaceProfileCatalog(w, op)
  PROVE  CatalogInv'
<1>1. op \in Operations /\ w \in Replacers
  BY DEF Operations, ReplaceProfileCatalog
<1>2. PICK n \in Result(op, Content(writer[w].rev)) :
        CompareAndSwapProfileCatalog(w, writer[w].base, n, op)
  BY DEF ReplaceProfileCatalog
<1>3. Become(w, Idle) /\ lock' \in CliWriters \cup {None}
  BY Types DEF ReplaceProfileCatalog, CatalogInv
<1> QED
  BY <1>1, <1>2, <1>3, AnyWrite

(* A Store starts empty or with a published catalog. *)
LEMMA InvInit == Init => CatalogInv
<1> SUFFICES ASSUME Init PROVE CatalogInv
  OBVIOUS
<1>1. \/ versions = <<>>
      \/ \E c \in Seeds :
           versions = <<[content |-> c, op |-> "publish", by |-> None, seen |-> {}]>>
  BY DEF Init
<1>2. /\ versions \in Seq(Version) /\ Revision \in {0, 1}
      /\ \A r \in DOMAIN versions :
           r = 1 /\ Resolved(versions[r].content) /\ versions[r].seen = {}
  <2>1. CASE versions = <<>>
    BY <2>1 DEF Revision
  <2>2. ASSUME NEW c \in Seeds,
               versions = <<[content |-> c, op |-> "publish", by |-> None, seen |-> {}]>>
        PROVE  /\ versions \in Seq(Version) /\ Revision \in {0, 1}
               /\ \A r \in DOMAIN versions :
                    r = 1 /\ Resolved(versions[r].content) /\ versions[r].seen = {}
    <3> DEFINE v == [content |-> c, op |-> "publish", by |-> None, seen |-> {}]
    <3>1. c \subseteq Things /\ Resolved(c)
      BY CatalogAssumption
    <3>2. v \in Version
      BY <3>1 DEF Version, Operations, ReplaceOperations
    <3>3. v.content = c /\ v.seen = {}
      OBVIOUS
    <3>4. versions = <<v>>
      BY <2>2
    <3> HIDE DEF v
    <3>5. versions \in Seq(Version) /\ Len(versions) = 1 /\ DOMAIN versions = {1} /\ versions[1] = v
      BY <3>2, <3>4
    <3> QED
      BY <3>1, <3>3, <3>5 DEF Revision
  <2> QED
    BY <1>1, <2>1, <2>2
<1>3. TypeOK
  BY <1>2, IdleTyped, Types, CatalogAssumption DEF Init
<1>4. ASSUME NEW w \in Writers PROVE Remembers(w)
  <2>1. writer[w] = Idle
    BY DEF Init
  <2> QED
    BY <1>2, <2>1 DEF Remembers, Idle
<1>5. EditsBuildOnPredecessor
  BY <1>2 DEF EditsBuildOnPredecessor
<1>6. ExpectedRevisionIsReplaced /\ ReferencesResolve
  BY <1>2 DEF ExpectedRevisionIsReplaced, ReferencesResolve
<1> QED
  BY <1>3, <1>4, <1>5, <1>6 DEF CatalogInv

(* Every step keeps the invariant. *)
LEMMA InvNext == CatalogInv /\ [Next]_vars => CatalogInv'
<1> SUFFICES ASSUME CatalogInv, [Next]_vars PROVE CatalogInv'
  OBVIOUS
<1>1. CASE UNCHANGED vars
  BY <1>1 DEF vars, CatalogInv, TypeOK, Revision, Remembers, EditsBuildOnPredecessor,
     ExpectedRevisionIsReplaced, ReferencesResolve
<1>2. CASE Next
  <2>1. PICK w \in Writers :
          \/ Inspect(w)
          \/ withProfileCatalogWriteLock(w)
          \/ loadMutableProfileCatalogSnapshot(w)
          \/ prepareCaseCatalogMutation(w)
          \/ RegisterAdapter(w)
          \/ ReadCatalog(w)
          \/ ReplaceReads(w)
          \/ GiveUp(w)
          \/ (w \notin Replacers /\ \E op \in EditOperations \cup {"rollback"} :
                saveProfileCatalogMutation(w, op))
          \/ \E op \in ReplaceOperations : ReplaceProfileCatalog(w, op)
    <3>1. CliWriters \cap Replacers = {} /\ Editors \cap Replacers = {} /\ Adapters \cap Replacers = {}
      BY WritersAssumption
    <3> QED
      BY <1>2, <3>1 DEF Next, EditOperations, ReplaceOperations,
         runCaseCatalogUpsert, runCaseConfigUpsert, runWorkflowRegister,
         runWorkflowBindingRegister, runCaseCatalogRollback, handleCaseCatalogPatch,
         handleCaseCatalogRollback, handleRequestEditorSave, handleWorkflowStudioSave,
         handleStepLibraryMutation, Register, handleSandboxServiceRegistration,
         handleSandboxInterfaceRegistration, restoreProfileCatalog, Publish
  <2>2. /\ writer[w] \in WriterState /\ Remembers(w) /\ lock \in CliWriters \cup {None}
        /\ Revision \in Nat /\ Revision \in Revisions
    <3>1. versions \in Seq(Version) /\ Revision <= MaxRevision /\ MaxRevision \in Nat
      BY Types, CatalogAssumption DEF CatalogInv
    <3> QED
      BY <3>1, Types DEF CatalogInv, Revision, Revisions
  <2>3. /\ CliWriters \cap (Adapters \cup Replacers) = {}
        /\ Editors \cap (Adapters \cup Replacers) = {}
        /\ Adapters \cap Replacers = {}
    BY WritersAssumption
  <2>4. /\ Idle.at = "idle" /\ Idle.seen = {} /\ Idle.rev = 0 /\ Idle.base = 0
        /\ 0 \in Revisions /\ Idle \in WriterState
    BY IdleTyped, CatalogAssumption DEF Idle, Revisions
  <2>5. CASE Inspect(w)
    <3> DEFINE s == [Idle EXCEPT !.seen = {Revision}]
    <3>1. s \in WriterState /\ s.at = "idle" /\ s.rev = 0 /\ s.base = 0
      BY <2>2, <2>4 DEF Idle, WriterState
    <3>2. Become(w, s) /\ UNCHANGED <<versions, lock>> /\ w \notin Adapters \cup Replacers
      BY <2>3, <2>5 DEF Inspect
    <3> HIDE DEF s
    <3> QED
      BY <2>2, <3>1, <3>2, ReadStep
  <2>6. CASE withProfileCatalogWriteLock(w)
    <3> DEFINE s == [writer[w] EXCEPT !.at = "locked"]
    <3>1. /\ s \in WriterState /\ s.at = "locked" /\ s.rev = writer[w].rev
          /\ s.base = writer[w].base /\ s.seen = writer[w].seen
      BY <2>2 DEF WriterState
    <3>2. Become(w, s) /\ versions' = versions /\ lock' \in CliWriters \cup {None}
      BY <2>6 DEF withProfileCatalogWriteLock
    <3> HIDE DEF s
    <3> QED
      BY <2>2, <3>1, <3>2, ReadStep DEF Remembers
  <2>7. CASE loadMutableProfileCatalogSnapshot(w) \/ prepareCaseCatalogMutation(w)
    <3> DEFINE s == [writer[w] EXCEPT !.at = "loaded", !.rev = Revision, !.base = Revision]
    <3>1. /\ s \in WriterState /\ s.rev = Revision /\ s.base = Revision /\ s.seen = writer[w].seen
      BY <2>2 DEF WriterState
    <3>2. Become(w, s) /\ UNCHANGED <<versions, lock>> /\ w \notin Adapters \cup Replacers
      BY <2>3, <2>7 DEF loadMutableProfileCatalogSnapshot, prepareCaseCatalogMutation
    <3>3. writer[w].seen \subseteq {Revision}
      BY <2>7 DEF loadMutableProfileCatalogSnapshot, prepareCaseCatalogMutation,
         requireExpectedProfileCatalogRevision, requireCaseCatalogIfMatch
    <3> HIDE DEF s
    <3> QED
      BY <2>2, <3>1, <3>2, <3>3, ReadStep
  <2>8. CASE RegisterAdapter(w)
    <3> DEFINE s == [Idle EXCEPT !.at = "loaded", !.rev = Revision, !.base = Revision]
    <3>1. s \in WriterState /\ s.rev = Revision /\ s.base = Revision /\ s.seen = {}
      BY <2>2, <2>4 DEF Idle, WriterState
    <3>2. Become(w, s) /\ UNCHANGED <<versions, lock>>
      BY <2>8 DEF RegisterAdapter
    <3> HIDE DEF s
    <3> QED
      BY <2>2, <3>1, <3>2, ReadStep
  <2>9. CASE ReadCatalog(w)
    <3> DEFINE s == [Idle EXCEPT !.at = "loaded", !.rev = Revision]
    <3>1. s \in WriterState /\ s.rev = Revision /\ s.base = 0 /\ s.seen = {}
      BY <2>2, <2>4 DEF Idle, WriterState
    <3>2. Become(w, s) /\ UNCHANGED <<versions, lock>> /\ w \in Replacers
      BY <2>9 DEF ReadCatalog
    <3> HIDE DEF s
    <3> QED
      BY <2>2, <3>1, <3>2, ReadStep
  <2>10. CASE ReplaceReads(w)
    <3> DEFINE s == [writer[w] EXCEPT !.at = "replacing", !.base = Revision]
    <3>1. s \in WriterState /\ s.rev = writer[w].rev /\ s.base = Revision /\ s.seen = writer[w].seen
      BY <2>2 DEF WriterState
    <3>2. Become(w, s) /\ UNCHANGED <<versions, lock>> /\ w \in Replacers
      BY <2>10 DEF ReplaceReads
    <3> HIDE DEF s
    <3> QED
      BY <2>2, <3>1, <3>2, ReadStep DEF Remembers
  <2>11. CASE GiveUp(w)
    <3>1. Become(w, Idle) /\ versions' = versions /\ lock' \in CliWriters \cup {None}
      BY <2>11, UnlockedTyped DEF GiveUp
    <3> QED
      BY <2>2, <2>4, <3>1, ReadStep
  <2>12. CASE w \notin Replacers /\ \E op \in EditOperations \cup {"rollback"} :
                saveProfileCatalogMutation(w, op)
    BY <2>12, MutationStep
  <2>13. CASE \E op \in ReplaceOperations : ReplaceProfileCatalog(w, op)
    BY <2>13, ReplacementStep
  <2> QED
    BY <2>1, <2>5, <2>6, <2>7, <2>8, <2>9, <2>10, <2>11, <2>12, <2>13
<1> QED
  BY <1>1, <1>2

-----------------------------------------------------------------------------
(* The properties                                                           *)

(* The invariant holds in every behaviour. *)
THEOREM Invariant == Spec => []CatalogInv
<1> QED
  BY InvInit, InvNext, PTL DEF Spec

(* An edit is an edit of the revision before it, and a rollback brings back *)
(* the contents of an earlier one: the compare-and-swap of the head makes   *)
(* every write fail that was computed from another revision.                *)
THEOREM NoLostEdit == Spec => []EditsBuildOnPredecessor
<1>1. CatalogInv => EditsBuildOnPredecessor
  BY DEF CatalogInv
<1> QED
  BY <1>1, Invariant, PTL

(* A write that named the revision its user saw, by ETag or with            *)
(* --expected-revision, replaced that revision and no other.                *)
THEOREM ExpectationsAreMet == Spec => []ExpectedRevisionIsReplaced
<1>1. CatalogInv => ExpectedRevisionIsReplaced
  BY DEF CatalogInv
<1> QED
  BY <1>1, Invariant, PTL

(* Every revision is closed under its references, whichever writers raced   *)
(* and whatever was rolled back, if the seeds and bundles are.              *)
THEOREM RevisionsResolve == Spec => []ReferencesResolve
<1>1. CatalogInv => ReferencesResolve
  BY DEF CatalogInv
<1> QED
  BY <1>1, Invariant, PTL

-----------------------------------------------------------------------------
(* Upgrades: the inductive invariant                                        *)

(* The set g is what no statement will add, NeverAdded(begun).              *)
Needed == Parts \ {"legacy"}
Whole(h, g) == Needed \ g \subseteq h

(* The statements of an upgrade, without the last one, which records the    *)
(* version.                                                                 *)
Work ==
  [op : {"table"}, part : Tables, needs : SUBSET Tables]
  \cup [op : {"index", "column", "probed column", "modify", "rows", "comment"},
        part : Needed \ Tables, needs : SUBSET Parts]
  \cup {Statement("drop", "legacy", {})}
VersionRow == Statement("version", "version", {})

Upgrade(l) ==
  /\ l \in Seq(Work \cup {VersionRow}) /\ Len(l) > 0
  /\ l[Len(l)] = VersionRow
  /\ \A i \in 1..(Len(l) - 1) : l[i] \in Work

(* Statement s brings part p about: a table only if it creates it.          *)
Brings(s, p) == s.part = p /\ (p \in Tables => s.op = "table")
Covers(l, P) == \A p \in P : \E i \in DOMAIN l : Brings(l[i], p)

(* With the rest l of its upgrade, a database with the parts h will be      *)
(* whole: each part is there, or in l, or comes with a table that l creates.*)
Suffices(h, l, g) ==
  \A p \in Needed \ g :
    \/ p \in h \/ \E i \in DOMAIN l : Brings(l[i], p)
    \/ \E t \in Tables \ h : p \in Accompanies(t)

DbInv ==
  /\ db = [dialect |-> db.dialect, version |-> db.version, has |-> db.has]
  /\ db.dialect \in Dialects /\ db.version \in 0..CurrentSchemaVersion
  /\ LeftByOlder(db, NeverAdded(begun))
  /\ Normalised(db) \/ db = begun

OpenersInv ==
  /\ opener = [o \in Openers |-> opener[o]]
  /\ \A o \in Openers :
       /\ opener[o] = [pc |-> opener[o].pc, todo |-> opener[o].todo, tries |-> opener[o].tries]
       /\ opener[o].pc = "normalize" => db.dialect = "sqlite"
       /\ opener[o].pc \in {"check", "apply", "open"} => Normalised(db)
       /\ opener[o].pc = "apply" => Upgrade(opener[o].todo) /\ Suffices(db.has, opener[o].todo, NeverAdded(begun))
       /\ opener[o].pc = "open" => Whole(db.has, NeverAdded(begun))

SchemaInv == DbInv /\ OpenersInv

-----------------------------------------------------------------------------
(* Upgrades: the statements                                                 *)

(* What comes with a table is not a table, and is needed.                   *)
LEMMA CompanionsAreNotTables ==
  ASSUME NEW t \in Tables
  PROVE  /\ Accompanies(t) \subseteq {"environment_id", "run planner", "case planner", "evidence step",
                                      "claim_token", "wide", "history"}
         /\ Accompanies(t) \cap Tables = {}
         /\ "legacy" \notin Accompanies(t) /\ Accompanies(t) \subseteq Needed
<1>1. Columns[t] = CASE t = "runs" -> {"environment_id", "run planner"}
                     [] t = "api_case_runs" -> {"case planner"}
                     [] t = "evidence_records" -> {"evidence step"}
                     [] t = "agent_tasks" -> {"claim_token"}
                     [] OTHER -> {}
  BY DEF Columns
<1>2. Accompanies(t) \subseteq {"environment_id", "run planner", "case planner", "evidence step",
                                "claim_token", "wide", "history"}
  BY <1>1 DEF Accompanies
<1>3. /\ Accompanies(t) \cap Tables = {}
      /\ "legacy" \notin Accompanies(t)
  BY <1>2 DEF Tables
<1>4. ASSUME NEW p \in Accompanies(t)
      PROVE  p \in Needed
  <2>1. p \in Columns[t] \/ p \in Extras
    BY DEF Accompanies, Extras
  <2>2. Columns[t] \subseteq UNION {Columns[u] : u \in Tables}
    OBVIOUS
  <2> QED BY <1>3, <2>1, <2>2 DEF Needed, Parts
<1> QED BY <1>2, <1>3, <1>4

(* The parts, one by one.                                                   *)
LEMMA NeededParts ==
  Needed \ Tables = {"environment_id", "run planner", "case planner", "evidence step",
                     "claim_token", "indexes", "wide", "history"}
<1>1. /\ Columns["runs"] = {"environment_id", "run planner"} /\ Columns["api_case_runs"] = {"case planner"}
      /\ Columns["evidence_records"] = {"evidence step"} /\ Columns["agent_tasks"] = {"claim_token"}
  BY DEF Columns, Tables
<1>2. \A t \in Tables \ {"runs", "api_case_runs", "evidence_records", "agent_tasks"} : Columns[t] = {}
  BY DEF Columns
<1>3. {"runs", "api_case_runs", "evidence_records", "agent_tasks"} \subseteq Tables
  BY DEF Tables
<1> DEFINE U == UNION {Columns[t] : t \in Tables}
<1>4. \A p : p \in U <=> \E t \in Tables : p \in Columns[t]
  OBVIOUS
<1> HIDE DEF U
<1>5. \A p : p \in U <=> p \in {"environment_id", "run planner", "case planner", "evidence step",
                              "claim_token"}
  BY <1>1, <1>2, <1>3, <1>4
<1>6. {"environment_id", "run planner", "case planner", "evidence step", "claim_token", "indexes",
       "wide", "history", "legacy"} \cap Tables = {}
  BY DEF Tables
<1>7. Needed = (Tables \cup U \cup Extras) \ {"legacy"}
  BY DEF Needed, Parts, U
<1> QED BY <1>5, <1>6, <1>7 DEF Extras

(* Two lists of statements, one after the other.                            *)
LEMMA RestsTogether ==
  ASSUME NEW S, NEW a \in Seq(S), NEW b \in Seq(S)
  PROVE  /\ a \o b \in Seq(S)
         /\ \A P, Q : Covers(a, P) /\ Covers(b, Q) => Covers(a \o b, P \cup Q)
<1>1. /\ a \o b \in Seq(S) /\ Len(a \o b) = Len(a) + Len(b)
      /\ \A i \in 1..Len(a) : (a \o b)[i] = a[i]
      /\ \A i \in 1..Len(b) : (a \o b)[Len(a) + i] = b[i]
  OBVIOUS
<1>2. ASSUME NEW P, NEW Q, Covers(a, P), Covers(b, Q), NEW p \in P \cup Q
      PROVE  \E i \in DOMAIN (a \o b) : Brings((a \o b)[i], p)
  <2>1. CASE p \in P
    <3>1. PICK i \in DOMAIN a : Brings(a[i], p)
      BY <1>2, <2>1 DEF Covers
    <3>2. i \in 1..Len(a) /\ i \in DOMAIN (a \o b)
      BY <1>1, <3>1
    <3> QED BY <1>1, <3>1, <3>2
  <2>2. CASE p \in Q
    <3>1. PICK i \in DOMAIN b : Brings(b[i], p)
      BY <1>2, <2>2 DEF Covers
    <3>2. i \in 1..Len(b) /\ Len(a) + i \in DOMAIN (a \o b)
      BY <1>1, <3>1
    <3> QED BY <1>1, <3>1, <3>2
  <2> QED BY <1>2, <2>1, <2>2
<1> QED BY <1>1, <1>2 DEF Covers

(* A list that is one statement of the work, or none.                       *)
LEMMA OneStatement ==
  ASSUME NEW s \in Work
  PROVE  <<s>> \in Seq(Work) /\ Covers(<<s>>, {s.part} \ Tables)
<1>1. <<s>> \in Seq(Work) /\ DOMAIN <<s>> = {1} /\ <<s>>[1] = s
  OBVIOUS
<1> QED BY <1>1 DEF Covers, Brings

LEMMA TwoStatements ==
  ASSUME NEW s \in Work, NEW t \in Work
  PROVE  <<s, t>> \in Seq(Work) /\ Covers(<<s, t>>, {s.part, t.part} \ Tables)
<1>1. <<s, t>> \in Seq(Work) /\ DOMAIN <<s, t>> = {1, 2} /\ <<s, t>>[1] = s /\ <<s, t>>[2] = t
  OBVIOUS
<1> QED BY <1>1 DEF Covers, Brings

LEMMA NoStatement == <<>> \in Seq(Work) /\ Covers(<<>>, {})
BY DEF Covers

(* A statement that adds a part to what it needs.                           *)
LEMMA Additions ==
  ASSUME NEW op \in {"index", "column", "probed column", "modify", "rows", "comment"},
         NEW part \in Needed \ Tables, NEW needs \in SUBSET Parts
  PROVE  /\ Statement(op, part, needs) \in Work
         /\ <<Statement(op, part, needs)>> \in Seq(Work)
         /\ Covers(<<Statement(op, part, needs)>>, {part})
<1> DEFINE s == Statement(op, part, needs)
<1>1. s \in Work
  BY DEF Statement, Work
<1>2. s.part = part
  BY DEF Statement
<1> HIDE DEF s
<1> QED BY <1>1, <1>2, OneStatement DEF s

LEMMA Creates ==
  ASSUME NEW t \in Tables, NEW r \in SUBSET Tables
  PROVE  Create(t, r) \in Seq(Work) /\ Covers(Create(t, r), {t, "indexes"})
<1> DEFINE s == Statement("table", t, r)
           x == Statement("index", "indexes", {t})
<1>1. s \in Work
  BY DEF Statement, Work
<1>2. x \in Work
  BY Additions, NeededParts DEF Parts
<1>3. s.part = t /\ s.op = "table" /\ x.part = "indexes"
  BY DEF Statement
<1>4. Create(t, r) = <<s, x>>
  BY DEF Create
<1> HIDE DEF s, x
<1>5. <<s, x>> \in Seq(Work) /\ 1 \in DOMAIN <<s, x>> /\ 2 \in DOMAIN <<s, x>>
      /\ <<s, x>>[1] = s /\ <<s, x>>[2] = x
  BY <1>1, <1>2
<1>6. "indexes" \notin Tables
  BY DEF Tables
<1> QED BY <1>3, <1>4, <1>5, <1>6 DEF Covers, Brings

(* The statements that are always executed create every table, with its     *)
(* indexes, and look for the claim token.                                   *)
LEMMA CoreCreates ==
  /\ CoreSchemaSQL \in Seq(Work)
  /\ Covers(CoreSchemaSQL, Tables \cup {"indexes"})
<1> DEFINE C(l, P) == l \in Seq(Work) /\ Covers(l, P \cup {"indexes"})
<1>1. ASSUME NEW a, NEW b, NEW P, NEW Q, C(a, P), C(b, Q)
      PROVE  C(a \o b, P \cup Q)
  <2>1. a \o b \in Seq(Work) /\ Covers(a \o b, (P \cup {"indexes"}) \cup (Q \cup {"indexes"}))
    BY <1>1, RestsTogether
  <2>2. (P \cup {"indexes"}) \cup (Q \cup {"indexes"}) = P \cup Q \cup {"indexes"}
    OBVIOUS
  <2> QED BY <2>1, <2>2
<1>2. ASSUME NEW t \in Tables, NEW r \in SUBSET Tables
      PROVE  C(Create(t, r), {t})
  <2>1. {t} \cup {"indexes"} = {t, "indexes"}
    OBVIOUS
  <2> QED BY <2>1, Creates
<1>3. {"runs", "api_case_runs", "evidence_records", "observability", "agent_tasks", "profile_config",
       "catalog_versions", "test_maps", "map_contents", "map_versions", "plan_instances",
       "plan_tasks", "plan_leases", "assistant_sessions", "environments", "components",
       "component_links", "environment_files", "environment_runtime"} = Tables
  BY DEF Tables
<1>4. {} \in SUBSET Tables /\ {"test_maps"} \in SUBSET Tables /\ {"plan_instances"} \in SUBSET Tables
      /\ {"environments"} \in SUBSET Tables /\ {"components"} \in SUBSET Tables
  BY <1>3
<1> HIDE DEF C
<1>5. C(coreRunSchemaSQL, {"runs", "api_case_runs", "evidence_records"})
  <2>1. C(Create("runs", {}), {"runs"}) /\ C(Create("api_case_runs", {}), {"api_case_runs"})
        /\ C(Create("evidence_records", {}), {"evidence_records"})
    BY <1>2, <1>3, <1>4
  <2>2. C(coreRunSchemaSQL, ({"runs"} \cup {"api_case_runs"}) \cup {"evidence_records"})
    BY <1>1, <2>1 DEF coreRunSchemaSQL
  <2>3. ({"runs"} \cup {"api_case_runs"}) \cup {"evidence_records"} = {"runs", "api_case_runs", "evidence_records"}
    OBVIOUS
  <2> QED BY <2>2, <2>3
<1>6. /\ C(coreObservabilitySchemaSQL, {"observability"})
      /\ C(coreAgentTaskSchemaSQL, {"agent_tasks"})
      /\ C(coreProfileConfigSchemaSQL, {"profile_config"})
      /\ C(coreProfileCatalogVersionSchemaSQL, {"catalog_versions"})
      /\ C(corePlanGraphVersionSchemaSQL, {"map_versions"})
      /\ C(testMapPlanLeaseSchemaSQL, {"plan_leases"})
      /\ C(assistantSchemaSQL, {"assistant_sessions"})
      /\ C(coreEnvironmentFileSchemaSQL, {"environment_files"})
      /\ C(coreEnvironmentRuntimeMetadataSchemaSQL, {"environment_runtime"})
  BY <1>2, <1>3, <1>4 DEF coreObservabilitySchemaSQL, coreAgentTaskSchemaSQL, coreProfileConfigSchemaSQL,
       coreProfileCatalogVersionSchemaSQL, corePlanGraphVersionSchemaSQL, testMapPlanLeaseSchemaSQL,
       assistantSchemaSQL, coreEnvironmentFileSchemaSQL, coreEnvironmentRuntimeMetadataSchemaSQL
<1>7. C(corePlanGraphSchemaSQL, {"test_maps", "map_contents", "map_versions"})
  <2>1. C(Create("test_maps", {}), {"test_maps"}) /\ C(Create("map_contents", {"test_maps"}), {"map_contents"})
    BY <1>2, <1>3, <1>4
  <2>2. C(corePlanGraphSchemaSQL, ({"test_maps"} \cup {"map_contents"}) \cup {"map_versions"})
    BY <1>1, <1>6, <2>1 DEF corePlanGraphSchemaSQL
  <2>3. ({"test_maps"} \cup {"map_contents"}) \cup {"map_versions"} = {"test_maps", "map_contents", "map_versions"}
    OBVIOUS
  <2> QED BY <2>2, <2>3
<1>8. C(coreMapPlannerSchemaSQL, {"plan_instances", "plan_tasks", "plan_leases"})
  <2>1. C(Create("plan_instances", {}), {"plan_instances"})
        /\ C(Create("plan_tasks", {"plan_instances"}), {"plan_tasks"})
    BY <1>2, <1>3, <1>4
  <2>2. C(coreMapPlannerSchemaSQL, ({"plan_instances"} \cup {"plan_tasks"}) \cup {"plan_leases"})
    BY <1>1, <1>6, <2>1 DEF coreMapPlannerSchemaSQL
  <2>3. ({"plan_instances"} \cup {"plan_tasks"}) \cup {"plan_leases"} = {"plan_instances", "plan_tasks", "plan_leases"}
    OBVIOUS
  <2> QED BY <2>2, <2>3
<1>9. C(coreEnvironmentCatalogSchemaSQL,
        {"environments", "components", "component_links", "environment_files", "environment_runtime"})
  <2>1. C(Create("environments", {}), {"environments"})
        /\ C(Create("components", {"environments"}), {"components"})
        /\ C(Create("component_links", {"components"}), {"component_links"})
    BY <1>2, <1>3, <1>4
  <2>2. C(Create("environments", {}) \o Create("components", {"environments"})
            \o Create("component_links", {"components"}),
          ({"environments"} \cup {"components"}) \cup {"component_links"})
    BY <1>1, <2>1
  <2>3. C(coreEnvironmentCatalogSchemaSQL,
          ((({"environments"} \cup {"components"}) \cup {"component_links"}) \cup {"environment_files"})
          \cup {"environment_runtime"})
    BY <1>1, <1>6, <2>2 DEF coreEnvironmentCatalogSchemaSQL
  <2>4. ((({"environments"} \cup {"components"}) \cup {"component_links"}) \cup {"environment_files"})
          \cup {"environment_runtime"}
        = {"environments", "components", "component_links", "environment_files", "environment_runtime"}
    OBVIOUS
  <2> QED BY <2>3, <2>4
<1> DEFINE a == coreRunSchemaSQL \o coreObservabilitySchemaSQL \o coreAgentTaskSchemaSQL
           b == a \o coreProfileConfigSchemaSQL \o coreProfileCatalogVersionSchemaSQL
           c == b \o corePlanGraphSchemaSQL \o coreMapPlannerSchemaSQL
           d == c \o assistantSchemaSQL \o coreEnvironmentCatalogSchemaSQL
           A == ({"runs", "api_case_runs", "evidence_records"} \cup {"observability"}) \cup {"agent_tasks"}
           B == (A \cup {"profile_config"}) \cup {"catalog_versions"}
           D == (B \cup {"test_maps", "map_contents", "map_versions"})
                \cup {"plan_instances", "plan_tasks", "plan_leases"}
           E == (D \cup {"assistant_sessions"})
                \cup {"environments", "components", "component_links", "environment_files", "environment_runtime"}
<1>10. C(a, A)
  BY <1>1, <1>5, <1>6
<1>11. C(b, B)
  <2> HIDE DEF a, A
  <2> QED BY <1>1, <1>6, <1>10
<1>12. C(c, D)
  <2> HIDE DEF b, B
  <2> QED BY <1>1, <1>7, <1>8, <1>11
<1>13. C(d, E)
  <2> HIDE DEF c, D
  <2> QED BY <1>1, <1>6, <1>9, <1>12
<1>14. E = Tables
  BY <1>3
<1>15. d = CoreSchemaSQL
  BY DEF CoreSchemaSQL
<1> QED BY <1>13, <1>14, <1>15 DEF C

(* A list of statements may be executed for some versions only.             *)
LEMMA ForSome ==
  ASSUME NEW a \in Seq(Work), NEW P, Covers(a, P), NEW Condition \in BOOLEAN
  PROVE  /\ (IF Condition THEN a ELSE <<>>) \in Seq(Work)
         /\ Covers(IF Condition THEN a ELSE <<>>, {p \in P : Condition})
BY NoStatement DEF Covers

(* A part that an upgrade adds was missing only from an older version.      *)
LEMMA Older ==
  ASSUME NEW d \in Dialects, NEW p, NEW v \in Nat, v \in 1..(Introduced(d, p) - 1)
  PROVE  /\ p = "environment_id" => d # "sqlite" /\ v < 6
         /\ p = "run planner" => v < 16
         /\ p = "case planner" => v < 16
         /\ p = "history" => v < 19
<1>1. ASSUME NEW n \in Nat, v \in 1..(n - 1)
      PROVE  v < n
  BY <1>1
<1>2. CASE p = "environment_id"
  <2>1. Introduced(d, p) = IF d = "sqlite" THEN 0 ELSE 6
    BY <1>2 DEF Introduced
  <2> QED BY <1>2, <2>1
<1>3. CASE p = "run planner"
  <2>1. Introduced(d, p) = 16
    BY <1>3 DEF Introduced
  <2>2. v < 16
    BY <1>1, <2>1
  <2> QED BY <1>3, <2>2
<1>4. CASE p = "case planner"
  <2>1. Introduced(d, p) = 16
    BY <1>4 DEF Introduced
  <2>2. v < 16
    BY <1>1, <2>1
  <2> QED BY <1>4, <2>2
<1>5. CASE p = "history"
  <2>1. Introduced(d, p) = 19
    BY <1>5 DEF Introduced
  <2>2. v < 19
    BY <1>1, <2>1
  <2> QED BY <1>5, <2>2
<1> QED BY <1>2, <1>3, <1>4, <1>5

(* What the upgrade from an older version adds.                             *)
LEMMA OldVersions ==
  ASSUME NEW d \in Dialects, NEW v \in 0..(CurrentSchemaVersion - 1)
  PROVE  /\ incrementalSchemaSQL(d, v) \in Seq(Work)
         /\ Covers(incrementalSchemaSQL(d, v),
                   {p \in {"environment_id", "run planner", "case planner", "history"} :
                      v \in 1..(Introduced(d, p) - 1)})
<1>0. v \in Nat
  BY DEF CurrentSchemaVersion
<1> DEFINE Since(n, s) == IF v < n THEN s ELSE <<>>
           legacy1 == <<Statement("column", "environment_id", {"runs"}), Statement("drop", "legacy", {})>>
           legacy == IF v < 6 /\ d # "sqlite" THEN legacy1 ELSE <<>>
           wide == IF d = "mysql" /\ v < 9 THEN mysqlMediumTextMigrationSQL ELSE <<>>
           a == legacyCompatibilitySchemaSQL(d, v)
           b == a \o Since(13, coreEnvironmentFileSchemaSQL)
           c == b \o Since(14, coreEnvironmentRuntimeMetadataSchemaSQL)
           e == c \o Since(15, corePlanGraphSchemaSQL)
           f == e \o Since(16, plannerAssociationMigrationSQL)
           g == f \o Since(17, coreMapPlannerSchemaSQL)
           h == g \o Since(18, corePlanGraphVersionSchemaSQL)
           i == h \o Since(19, profileCatalogVersionBackfillSQL)
           j == i \o Since(20, testMapPlanLeaseSchemaSQL)
<1>1. {"runs", "api_case_runs", "catalog_versions", "profile_config", "agent_tasks"} \subseteq Tables
      /\ Tables \subseteq Parts /\ {"test_maps", "plan_instances", "environments"} \subseteq Tables
      /\ {"map_contents", "map_versions", "plan_tasks", "plan_leases", "environment_files",
          "environment_runtime"} \subseteq Tables
  BY DEF Tables, Parts
<1>2. {"environment_id", "run planner", "case planner", "wide", "history"} \subseteq Needed \ Tables
  BY NeededParts
<1>3. legacy1 \in Seq(Work) /\ Covers(legacy1, {"environment_id"})
  <2> DEFINE s == Statement("column", "environment_id", {"runs"})
             t == Statement("drop", "legacy", {})
  <2>1. s \in Work /\ s.part = "environment_id"
    BY <1>1, <1>2, Additions DEF Statement
  <2>2. t \in Work
    BY DEF Work
  <2> HIDE DEF s, t
  <2>3. <<s, t>> \in Seq(Work) /\ 1 \in DOMAIN <<s, t>> /\ <<s, t>>[1] = s
    BY <2>1, <2>2
  <2>4. "environment_id" \notin Tables
    BY <1>2
  <2>5. <<s, t>> \in Seq(Work) /\ Covers(<<s, t>>, {"environment_id"})
    BY <2>1, <2>3, <2>4 DEF Covers, Brings
  <2> QED BY <2>5 DEF s, t
<1>4. mysqlMediumTextMigrationSQL \in Seq(Work)
  BY <1>1, <1>2, Additions DEF mysqlMediumTextMigrationSQL
<1>5. plannerAssociationMigrationSQL \in Seq(Work)
      /\ Covers(plannerAssociationMigrationSQL, {"run planner", "case planner"})
  <2> DEFINE s == Statement("column", "run planner", {"runs"})
             t == Statement("column", "case planner", {"api_case_runs"})
  <2>1. s \in Work /\ s.part = "run planner" /\ t \in Work /\ t.part = "case planner"
    BY <1>1, <1>2, Additions DEF Statement
  <2> HIDE DEF s, t
  <2>2. <<s, t>> \in Seq(Work) /\ Covers(<<s, t>>, {"run planner", "case planner"})
    BY <1>2, <2>1, TwoStatements
  <2> QED BY <2>2 DEF s, t, plannerAssociationMigrationSQL
<1>6. profileCatalogVersionBackfillSQL \in Seq(Work)
      /\ Covers(profileCatalogVersionBackfillSQL, {"history"})
  BY <1>1, <1>2, Additions DEF profileCatalogVersionBackfillSQL
<1>7. ASSUME NEW t \in Tables, NEW r \in SUBSET Tables
      PROVE  Create(t, r) \in Seq(Work)
  BY Creates
<1>8. /\ {} \in SUBSET Tables /\ {"test_maps"} \in SUBSET Tables /\ {"plan_instances"} \in SUBSET Tables
      /\ {"environments"} \in SUBSET Tables
  BY <1>1
<1>9. /\ coreEnvironmentFileSchemaSQL \in Seq(Work)
      /\ coreEnvironmentRuntimeMetadataSchemaSQL \in Seq(Work)
      /\ corePlanGraphVersionSchemaSQL \in Seq(Work)
      /\ testMapPlanLeaseSchemaSQL \in Seq(Work)
  BY <1>1, <1>7, <1>8 DEF coreEnvironmentFileSchemaSQL, coreEnvironmentRuntimeMetadataSchemaSQL,
       corePlanGraphVersionSchemaSQL, testMapPlanLeaseSchemaSQL
<1>10. corePlanGraphSchemaSQL \in Seq(Work)
  <2>1. Create("test_maps", {}) \in Seq(Work) /\ Create("map_contents", {"test_maps"}) \in Seq(Work)
    BY <1>1, <1>7, <1>8
  <2> QED BY <1>9, <2>1, RestsTogether DEF corePlanGraphSchemaSQL
<1>11. coreMapPlannerSchemaSQL \in Seq(Work)
  <2>1. Create("plan_instances", {}) \in Seq(Work) /\ Create("plan_tasks", {"plan_instances"}) \in Seq(Work)
    BY <1>1, <1>7, <1>8
  <2> QED BY <1>9, <2>1, RestsTogether DEF coreMapPlannerSchemaSQL
<1>12. ASSUME NEW l \in Seq(Work), NEW n \in Nat
       PROVE  Since(n, l) \in Seq(Work)
  BY NoStatement
<1> DEFINE Has(l, P) == l \in Seq(Work) /\ Covers(l, P)
<1>13. ASSUME NEW l, NEW m \in Seq(Work), NEW P, Has(l, P)
       PROVE  Has(l \o m, P)
  <2>1. Covers(m, {})
    BY DEF Covers
  <2>2. P \cup {} = P
    OBVIOUS
  <2> QED BY <1>13, <2>1, <2>2, RestsTogether
<1>14. ASSUME NEW l, NEW m, NEW P, NEW Q, Has(l, P), Has(m, Q)
       PROVE  Has(l \o m, P \cup Q)
  BY <1>14, RestsTogether
<1> DEFINE P1 == {p \in {"environment_id"} : v < 6 /\ d # "sqlite"}
           P2 == {p \in {"run planner", "case planner"} : v < 16}
           P3 == {p \in {"history"} : v < 19}
<1>15. Has(a, P1)
  <2>1. legacy \in Seq(Work) /\ Covers(legacy, P1)
    BY <1>3, ForSome
  <2>2. wide \in Seq(Work)
    BY <1>4, NoStatement
  <2>3. a = legacy \o wide
    BY DEF legacyCompatibilitySchemaSQL
  <2> HIDE DEF a, legacy, wide, P1
  <2> QED BY <1>13, <2>1, <2>2, <2>3
<1>16. Has(e, P1)
  <2>1. /\ Since(13, coreEnvironmentFileSchemaSQL) \in Seq(Work)
        /\ Since(14, coreEnvironmentRuntimeMetadataSchemaSQL) \in Seq(Work)
        /\ Since(15, corePlanGraphSchemaSQL) \in Seq(Work)
    BY <1>9, <1>10, <1>12
  <2> HIDE DEF Has, a, P1, Since
  <2>2. Has(b, P1)
    BY <1>13, <1>15, <2>1
  <2>3. Has(c, P1)
    <3> HIDE DEF b
    <3> QED BY <1>13, <2>1, <2>2
  <2> HIDE DEF c
  <2> QED BY <1>13, <2>1, <2>3
<1>17. Has(f, P1 \cup P2)
  <2>1. Has(Since(16, plannerAssociationMigrationSQL), P2)
    BY <1>5, ForSome
  <2> HIDE DEF Has, e, P1, P2, Since
  <2> QED BY <1>14, <1>16, <2>1
<1>18. Has(h, P1 \cup P2)
  <2>1. /\ Since(17, coreMapPlannerSchemaSQL) \in Seq(Work)
        /\ Since(18, corePlanGraphVersionSchemaSQL) \in Seq(Work)
    BY <1>9, <1>11, <1>12
  <2> HIDE DEF Has, f, P1, P2, Since
  <2>2. Has(g, P1 \cup P2)
    BY <1>13, <1>17, <2>1
  <2> HIDE DEF g
  <2> QED BY <1>13, <2>1, <2>2
<1>19. Has(j, (P1 \cup P2) \cup P3)
  <2>1. Has(Since(19, profileCatalogVersionBackfillSQL), P3)
    BY <1>6, ForSome
  <2>2. Since(20, testMapPlanLeaseSchemaSQL) \in Seq(Work)
    BY <1>9, <1>12
  <2> HIDE DEF Has, h, P1, P2, P3, Since
  <2>3. Has(i, (P1 \cup P2) \cup P3)
    BY <1>14, <1>18, <2>1
  <2> HIDE DEF i
  <2> QED BY <1>13, <2>2, <2>3
<1>20. CASE v = 0
  <2>1. incrementalSchemaSQL(d, v) = <<>>
    BY <1>20 DEF incrementalSchemaSQL
  <2>2. {p \in {"environment_id", "run planner", "case planner", "history"} : v \in 1..(Introduced(d, p) - 1)} = {}
    BY <1>20
  <2> QED BY <2>1, <2>2, NoStatement
<1>21. CASE v # 0
  <2>1. incrementalSchemaSQL(d, v) = j
    BY <1>21 DEF incrementalSchemaSQL
  <2>2. {p \in {"environment_id", "run planner", "case planner", "history"} : v \in 1..(Introduced(d, p) - 1)}
        \subseteq (P1 \cup P2) \cup P3
    <3> SUFFICES ASSUME NEW p \in {"environment_id", "run planner", "case planner", "history"},
                        v \in 1..(Introduced(d, p) - 1)
                 PROVE  p \in (P1 \cup P2) \cup P3
      OBVIOUS
    <3>1. CASE p = "environment_id"
      <4>1. d # "sqlite" /\ v < 6
        BY <3>1, <1>0, Older
      <4> QED BY <3>1, <4>1
    <3>2. CASE p = "run planner"
      <4>1. v < 16
        BY <3>2, <1>0, Older
      <4> QED BY <3>2, <4>1
    <3>4. CASE p = "case planner"
      <4>1. v < 16
        BY <3>4, <1>0, Older
      <4> QED BY <3>4, <4>1
    <3>3. CASE p = "history"
      <4>1. v < 19
        BY <3>3, <1>0, Older
      <4> QED BY <3>3, <4>1
    <3> QED BY <3>1, <3>2, <3>3, <3>4
  <2> HIDE DEF j, P1, P2, P3
  <2> QED BY <1>19, <2>1, <2>2 DEF Covers
<1> QED BY <1>20, <1>21

(* The comments restate the types of the columns.                           *)
LEMMA Comments ==
  ASSUME NEW d \in Dialects, NEW v \in 0..(CurrentSchemaVersion - 1)
  PROVE  /\ schemaCommentSQL(d, v) \in Seq(Work)
         /\ Covers(schemaCommentSQL(d, v), {p \in {"wide"} : v \in 1..(Introduced(d, p) - 1)})
<1> DEFINE C(l) == l \in Seq(Work) /\ Covers(l, {"wide"})
<1>1. ASSUME NEW needs \in SUBSET Parts
      PROVE  C(Comment(needs))
  BY Additions, NeededParts DEF Comment
<1>2. ASSUME NEW a, NEW b, C(a), C(b)
      PROVE  C(a \o b)
  <2>1. {"wide"} \cup {"wide"} = {"wide"}
    OBVIOUS
  <2> QED BY <1>2, <2>1, RestsTogether
<1>3. Tables \subseteq Parts /\ "environment_id" \in Parts /\ "evidence step" \in Parts
  BY NeededParts DEF Parts, Needed
<1>4. {"runs", "environment_id"} \subseteq Parts /\ {"api_case_runs"} \subseteq Parts
      /\ {"evidence_records", "evidence step"} \subseteq Parts /\ {"observability"} \subseteq Parts
      /\ {"catalog_versions"} \subseteq Parts /\ {"profile_config"} \subseteq Parts
      /\ {"environments"} \subseteq Parts /\ {"components", "component_links"} \subseteq Parts
  BY <1>3 DEF Tables
<1>5. C(Comment({"runs", "environment_id"})) /\ C(Comment({"api_case_runs"}))
      /\ C(Comment({"evidence_records", "evidence step"})) /\ C(Comment({"environments"}))
      /\ C(Comment({"components", "component_links"})) /\ C(Comment({"profile_config"}))
      /\ C(observabilityCommentSpecs) /\ C(profileCatalogVersionCommentSpecs)
  BY <1>1, <1>4 DEF observabilityCommentSpecs, profileCatalogVersionCommentSpecs
<1> HIDE DEF C
<1>6. C(coreRunCommentSpecs) /\ C(profileConfigCommentSpecs) /\ C(environmentCatalogCommentSpecs)
  BY <1>2, <1>5 DEF coreRunCommentSpecs, profileConfigCommentSpecs, environmentCatalogCommentSpecs
<1>7. C(schemaCommentSpecs)
  <2>1. C(coreRunCommentSpecs \o observabilityCommentSpecs)
    BY <1>2, <1>5, <1>6
  <2>2. C(coreRunCommentSpecs \o observabilityCommentSpecs \o profileConfigCommentSpecs)
    BY <1>2, <1>6, <2>1
  <2> QED BY <1>2, <1>6, <2>2 DEF schemaCommentSpecs
<1>8. CASE d # "sqlite" /\ v < 19
  <2>1. schemaCommentSQL(d, v) \in {schemaCommentSpecs, profileCatalogVersionCommentSpecs}
    <3>1. CASE v < 11
      BY <1>8, <3>1 DEF schemaCommentSQL
    <3>2. CASE ~(v < 11)
      <4>1. v \in 11..18
        BY <1>8, <3>2 DEF CurrentSchemaVersion
      <4> QED BY <1>8, <3>2, <4>1 DEF schemaCommentSQL
    <3> QED BY <3>1, <3>2
  <2>3. C(schemaCommentSQL(d, v))
    BY <1>5, <1>7, <2>1
  <2> QED BY <2>3 DEF C, Covers
<1>9. CASE d = "sqlite" \/ v >= 19
  <2>1. schemaCommentSQL(d, v) = <<>>
    BY <1>9 DEF schemaCommentSQL
  <2>2. {p \in {"wide"} : v \in 1..(Introduced(d, p) - 1)} = {}
    <3>1. Introduced(d, "wide") = 0 \/ (Introduced(d, "wide") = 19 /\ v >= 19)
      BY <1>9 DEF Introduced
    <3> QED BY <3>1
  <2> QED BY <2>1, <2>2, NoStatement
<1> QED BY <1>8, <1>9 DEF CurrentSchemaVersion

(* The upgrade of a database that an older program left makes it whole.     *)
LEMMA UpgradesSuffice ==
  ASSUME DbInv, Normalised(db), db.version < CurrentSchemaVersion
  PROVE  /\ Upgrade(UpgradeSQL(db.dialect, db.version))
         /\ Suffices(db.has, UpgradeSQL(db.dialect, db.version), NeverAdded(begun))
<1> DEFINE d == db.dialect
           v == db.version
           Old(P) == {p \in P : v \in 1..(Introduced(d, p) - 1)}
           Ps == {"environment_id", "run planner", "case planner", "history"}
           All == ((((Tables \cup {"indexes"}) \cup {"claim_token"}) \cup Old(Ps)) \cup Old({"wide"}))
           x == CoreSchemaSQL \o agentTaskClaimTokenMigrationSQL \o incrementalSchemaSQL(d, v)
                \o schemaCommentSQL(d, v)
<1>1. d \in Dialects /\ v \in 0..(CurrentSchemaVersion - 1) /\ v # CurrentSchemaVersion
  BY DEF DbInv, CurrentSchemaVersion
<1>2. agentTaskClaimTokenMigrationSQL \in Seq(Work)
      /\ Covers(agentTaskClaimTokenMigrationSQL, {"claim_token"})
  <2>1. {"agent_tasks"} \in SUBSET Parts
    BY DEF Tables, Parts
  <2>2. "claim_token" \in Needed \ Tables
    BY NeededParts
  <2> QED BY <2>1, <2>2, Additions DEF agentTaskClaimTokenMigrationSQL
<1>3. x \in Seq(Work) /\ Covers(x, All)
  <2> DEFINE a == CoreSchemaSQL \o agentTaskClaimTokenMigrationSQL
             b == a \o incrementalSchemaSQL(d, v)
             A == (Tables \cup {"indexes"}) \cup {"claim_token"}
  <2>1. a \in Seq(Work) /\ Covers(a, A)
    BY <1>2, CoreCreates, RestsTogether
  <2>2. b \in Seq(Work) /\ Covers(b, A \cup Old(Ps))
    <3>1. incrementalSchemaSQL(d, v) \in Seq(Work) /\ Covers(incrementalSchemaSQL(d, v), Old(Ps))
      BY <1>1, OldVersions
    <3> HIDE DEF a, A, Old, Ps, d, v
    <3> QED BY <2>1, <3>1, RestsTogether
  <2>3. schemaCommentSQL(d, v) \in Seq(Work) /\ Covers(schemaCommentSQL(d, v), Old({"wide"}))
    BY <1>1, Comments
  <2> HIDE DEF b, A, Old, Ps, d, v
  <2>4. b \o schemaCommentSQL(d, v) \in Seq(Work)
        /\ Covers(b \o schemaCommentSQL(d, v), (A \cup Old(Ps)) \cup Old({"wide"}))
    BY <2>2, <2>3, RestsTogether
  <2> QED BY <2>4 DEF b, A
<1>4. UpgradeSQL(d, v) = x \o <<VersionRow>>
  BY DEF UpgradeSQL, Record, VersionRow
<1>5. \A p \in All : p \in Needed => \E i \in DOMAIN x : Brings(x[i], p)
  <2> HIDE DEF x, All
  <2> QED BY <1>3 DEF Covers
<1>6. ASSUME NEW p \in Needed \ NeverAdded(begun)
      PROVE  \/ p \in db.has \/ p \in All
             \/ \E t \in Tables \ db.has : p \in Accompanies(t)
  <2>1. CASE p \in Tables \cup {"indexes", "claim_token"}
    BY <2>1
  <2>2. CASE p \notin Tables \cup {"indexes", "claim_token"}
    <3>1. p \in {"environment_id", "run planner", "case planner", "evidence step", "wide", "history"}
      BY <1>6, <2>2, NeededParts
    <3>2. PICK t \in Tables : p \in Accompanies(t)
      <4>1. {"runs", "api_case_runs", "evidence_records"} \subseteq Tables
        BY DEF Tables
      <4>2. p \in Accompanies("runs") \cup Accompanies("api_case_runs") \cup Accompanies("evidence_records")
        BY <3>1, <4>1 DEF Accompanies, Columns
      <4> QED BY <4>1, <4>2
    <3>3. CASE t \in db.has /\ p \notin db.has
      <4>1. v \in 1..(Introduced(d, p) - 1) \/ p = "claim_token"
        BY <1>1, <3>2, <3>3 DEF DbInv, LeftByOlder
      <4>2. p \in Ps \cup {"wide"}
        <5>1. Introduced(d, "evidence step") = 0
          BY DEF Introduced
        <5>2. ASSUME p = "evidence step"
              PROVE  FALSE
          <6>1. Introduced(d, p) = 0 /\ p # "claim_token"
            BY <5>1, <5>2
          <6> HIDE DEF d, v
          <6> QED BY <4>1, <6>1
        <5> QED BY <3>1, <5>2
      <4> QED BY <2>2, <4>1, <4>2
    <3> QED BY <3>2, <3>3
  <2> QED BY <2>1, <2>2
<1> DEFINE l == x \o <<VersionRow>>
<1>7. Upgrade(l) /\ \A i \in DOMAIN x : i \in DOMAIN l /\ l[i] = x[i]
  <2> HIDE DEF x
  <2>1. x \in Seq(Work)
    BY <1>3
  <2>2. /\ l \in Seq(Work \cup {VersionRow}) /\ Len(l) = Len(x) + 1 /\ l[Len(x) + 1] = VersionRow
        /\ \A i \in 1..Len(x) : l[i] = x[i] /\ x[i] \in Work
    BY <2>1
  <2> HIDE DEF l
  <2>3. Len(x) \in Nat /\ DOMAIN x = 1..Len(x)
    BY <2>1
  <2>4. DOMAIN l = 1..Len(l)
    BY <2>2
  <2> QED BY <2>2, <2>3, <2>4 DEF Upgrade
<1>8. Suffices(db.has, l, NeverAdded(begun))
  <2> HIDE DEF x, l, All
  <2>1. ASSUME NEW p \in Needed, p \in All
        PROVE  \E i \in DOMAIN l : Brings(l[i], p)
    <3>1. PICK i \in DOMAIN x : Brings(x[i], p)
      BY <1>5, <2>1
    <3> QED BY <1>7, <3>1
  <2> QED BY <1>6, <2>1 DEF Suffices
<1> QED BY <1>4, <1>7, <1>8

-----------------------------------------------------------------------------
(* Upgrades: the steps                                                      *)

(* What an opener does to the parts: it takes none away but the legacy and  *)
(* those in g, and a new table comes with its companions.                   *)
Grown(h, k, g) ==
  /\ h \ ({"legacy"} \cup g) \subseteq k
  /\ "legacy" \in k => "legacy" \in h
  /\ \A t \in Tables : t \in k => t \in h \/ Accompanies(t) \subseteq k \cup g

LEMMA GrownSuffices ==
  ASSUME NEW h, NEW k, NEW g, Grown(h, k, g), NEW l, Suffices(h, l, g)
  PROVE  Suffices(k, l, g)
<1> SUFFICES ASSUME NEW p \in Needed \ g
             PROVE  \/ p \in k \/ \E i \in DOMAIN l : Brings(l[i], p)
                    \/ \E t \in Tables \ k : p \in Accompanies(t)
  BY DEF Suffices
<1>1. p # "legacy"
  BY DEF Needed
<1> QED BY <1>1 DEF Suffices, Grown

LEMMA GrownDb ==
  ASSUME DbInv, Grown(db.has, db'.has, NeverAdded(begun)), db'.dialect = db.dialect,
         db' = [dialect |-> db'.dialect, version |-> db'.version, has |-> db'.has],
         begun' = begun,
         \/ db' = db
         \/ db'.version = CurrentSchemaVersion /\ Whole(db'.has, NeverAdded(begun)) /\ Normalised(db')
         \/ db'.version = db.version /\ Normalised(db)
  PROVE  DbInv'
<1>1. Normalised(db) => Normalised(db')
  BY DEF Normalised, Grown
<1>2. CASE db'.version = CurrentSchemaVersion /\ Whole(db'.has, NeverAdded(begun)) /\ Normalised(db')
  <2>1. db'.version \in 0..CurrentSchemaVersion
    BY <1>2 DEF CurrentSchemaVersion
  <2>2. LeftByOlder(db, NeverAdded(begun))'
    BY <1>2 DEF LeftByOlder, Whole, Needed
  <2>3. Normalised(db)'
    BY <1>2 DEF Normalised
  <2> QED BY <1>2, <2>1, <2>2, <2>3 DEF DbInv
<1>3. CASE db' = db
  BY <1>3 DEF DbInv
<1>4. CASE db'.version = db.version /\ Normalised(db)
  <2>1. CASE db.version = CurrentSchemaVersion
    <3>1. Whole(db'.has, NeverAdded(begun))
      BY <1>4, <2>1 DEF DbInv, LeftByOlder, Grown, Whole, Needed
    <3> QED BY <1>1, <1>2, <1>4, <2>1, <3>1
  <2>2. CASE db.version # CurrentSchemaVersion
    <3>1. ASSUME NEW t \in Tables \cap db'.has,
                 NEW p \in Accompanies(t) \ (db'.has \cup NeverAdded(begun))
          PROVE  db.version \in 1..(Introduced(db.dialect, p) - 1) \/ p = "claim_token"
      <4>1. t \in db.has
        BY <3>1 DEF Grown
      <4>2. p \notin db.has
        BY <3>1, CompanionsAreNotTables DEF Grown
      <4> QED BY <1>4, <2>2, <4>1, <4>2 DEF DbInv, LeftByOlder
    <3>2. LeftByOlder(db, NeverAdded(begun))'
      BY <1>4, <2>2, <3>1 DEF LeftByOlder
    <3>3. Normalised(db)'
      BY <1>1, <1>4 DEF Normalised
    <3> QED BY <1>4, <3>2, <3>3 DEF DbInv
  <2> QED BY <2>1, <2>2
<1> QED BY <1>2, <1>3, <1>4

(* A statement of the work, executed.                                       *)
LEMMA WorkGrows ==
  ASSUME DbInv, NEW s \in Work
  PROVE  /\ Grown(db.has, Effect(s).has, NeverAdded(begun)) /\ Effect(s).dialect = db.dialect
         /\ Effect(s).version = db.version
         /\ Effect(s) = [dialect |-> Effect(s).dialect, version |-> Effect(s).version, has |-> Effect(s).has]
         /\ \A p \in Needed : Brings(s, p) => p \in Effect(s).has
<1> DEFINE h == db.has
           With(k) == [dialect |-> db.dialect, version |-> db.version, has |-> k]
<1>1. \A k : [db EXCEPT !.has = k] = With(k)
  BY DEF DbInv
<1>2. ASSUME NEW k, Effect(s) = With(k), Grown(h, k, NeverAdded(begun)), \A p \in Needed : Brings(s, p) => p \in k
      PROVE  /\ Grown(db.has, Effect(s).has, NeverAdded(begun)) /\ Effect(s).dialect = db.dialect
             /\ Effect(s).version = db.version
             /\ Effect(s) = [dialect |-> Effect(s).dialect, version |-> Effect(s).version, has |-> Effect(s).has]
             /\ \A p \in Needed : Brings(s, p) => p \in Effect(s).has
  BY <1>2
<1> HIDE DEF With
<1>3. CASE s \in [op : {"table"}, part : Tables, needs : SUBSET Tables]
  <2>1. s.op = "table" /\ s.part \in Tables
    BY <1>3
  <2>2. "legacy" \notin Accompanies(s.part) /\ s.part # "legacy" /\ Accompanies(s.part) \cap Tables = {}
    <3>1. "legacy" \notin Tables
      BY DEF Tables
    <3> QED BY <2>1, <3>1, CompanionsAreNotTables
  <2>3. CASE s.part \in h
    <3>1. Effect(s) = With(h)
      BY <1>1, <2>1, <2>3 DEF Effect
    <3>2. Grown(h, h, NeverAdded(begun))
      BY DEF Grown
    <3> QED BY <1>2, <2>3, <3>1, <3>2 DEF Brings
  <2>4. CASE s.part \notin h
    <3>1. Effect(s) = With(h \cup {s.part} \cup Accompanies(s.part))
      BY <1>1, <2>1, <2>4 DEF Effect
    <3>2. Grown(h, h \cup {s.part} \cup Accompanies(s.part), NeverAdded(begun))
      BY <2>1, <2>2 DEF Grown
    <3> QED BY <1>2, <3>1, <3>2 DEF Brings
  <2> QED BY <2>3, <2>4
<1>4. CASE s \in [op : {"index", "column", "probed column", "modify", "rows", "comment"},
                  part : Needed \ Tables, needs : SUBSET Parts]
  <2>1. s.op \notin {"table", "drop", "version"} /\ s.part \in Needed \ Tables /\ s.part # "legacy"
    BY <1>4 DEF Needed
  <2>2. Effect(s) = With(h \cup {s.part})
    BY <1>1, <2>1 DEF Effect
  <2>3. Grown(h, h \cup {s.part}, NeverAdded(begun))
    BY <2>1 DEF Grown
  <2> QED BY <1>2, <2>2, <2>3 DEF Brings
<1>5. CASE s = Statement("drop", "legacy", {})
  <2>1. s.op = "drop" /\ s.part = "legacy"
    BY <1>5 DEF Statement
  <2>2. Effect(s) = With(h \ {"legacy"})
    BY <1>1, <2>1 DEF Effect
  <2>3. Grown(h, h \ {"legacy"}, NeverAdded(begun))
    <3>1. "legacy" \notin Tables
      BY DEF Tables
    <3> QED BY <3>1 DEF Grown
  <2>4. \A p \in Needed : ~Brings(s, p)
    BY <2>1 DEF Brings, Needed
  <2> QED BY <1>2, <2>2, <2>3, <2>4
<1> QED BY <1>3, <1>4, <1>5 DEF Work

(* The parts only grow under the openers, so what they know of them stays.  *)
LEMMA OpenersGoOn ==
  ASSUME SchemaInv, Grown(db.has, db'.has, NeverAdded(begun)), db'.dialect = db.dialect, DbInv', begun' = begun,
         NEW o \in Openers, NEW r, opener' = [opener EXCEPT ![o] = r],
         r = [pc |-> r.pc, todo |-> r.todo, tries |-> r.tries],
         r.pc = "normalize" => db.dialect = "sqlite",
         r.pc \in {"check", "apply", "open"} => Normalised(db'),
         r.pc = "apply" => Upgrade(r.todo) /\ Suffices(db'.has, r.todo, NeverAdded(begun)),
         r.pc = "open" => Whole(db'.has, NeverAdded(begun))
  PROVE  SchemaInv'
<1>1. /\ opener' = [x \in Openers |-> opener'[x]] /\ opener'[o] = r
      /\ \A x \in Openers : x # o => opener'[x] = opener[x]
  BY DEF SchemaInv, OpenersInv
<1>2. ASSUME NEW x \in Openers, x # o
      PROVE  /\ opener[x].pc \in {"check", "apply", "open"} => Normalised(db')
             /\ opener[x].pc = "apply" => Suffices(db'.has, opener[x].todo, NeverAdded(begun))
             /\ opener[x].pc = "open" => Whole(db'.has, NeverAdded(begun))
  <2>1. Normalised(db) => Normalised(db')
    BY DEF Normalised, Grown
  <2>2. opener[x].pc = "apply" => Suffices(db'.has, opener[x].todo, NeverAdded(begun))
    BY GrownSuffices DEF SchemaInv, OpenersInv
  <2>3. Whole(db.has, NeverAdded(begun)) => Whole(db'.has, NeverAdded(begun))
    BY DEF Whole, Needed, Grown
  <2> QED BY <2>1, <2>2, <2>3 DEF SchemaInv, OpenersInv
<1> QED BY <1>1, <1>2 DEF SchemaInv, OpenersInv

(* What an opener goes on to do.                                            *)
LEMMA GoesOn ==
  ASSUME SchemaInv, NEW o \in Openers, NEW pc, NEW todo, Goes(o, pc, todo)
  PROVE  opener' = [opener EXCEPT ![o] = [pc |-> pc, todo |-> todo, tries |-> opener[o].tries]]
<1>1. PICK a, b, c : opener[o] = [pc |-> a, todo |-> b, tries |-> c]
  BY DEF SchemaInv, OpenersInv
<1>2. opener' = [opener EXCEPT ![o] = [[opener[o] EXCEPT !.pc = pc] EXCEPT !.todo = todo]]
  BY DEF Goes
<1>3. [[opener[o] EXCEPT !.pc = pc] EXCEPT !.todo = todo] = [pc |-> pc, todo |-> todo, tries |-> c]
  <2>1. [opener[o] EXCEPT !.pc = pc] = [pc |-> pc, todo |-> b, tries |-> c]
    BY <1>1
  <2>2. [[pc |-> pc, todo |-> b, tries |-> c] EXCEPT !.todo = todo]
        = [pc |-> pc, todo |-> todo, tries |-> c]
    OBVIOUS
  <2> QED BY <2>1, <2>2
<1>4. opener[o].tries = c
  BY <1>1
<1> QED BY <1>2, <1>3, <1>4

(* A process opens the Store again, or stops.                               *)
LEMMA StepOpen ==
  ASSUME SchemaInv, NEW o \in Openers, Open(o) \/ Stop(o)
  PROVE  SchemaInv'
<1>1. Grown(db.has, db'.has, NeverAdded(begun)) /\ db' = db /\ DbInv' /\ begun' = begun
  <2>1. db' = db /\ begun' = begun
    BY DEF Open, Stop, Goes
  <2> QED BY <2>1 DEF Grown, SchemaInv, DbInv
<1>2. PICK r : /\ opener' = [opener EXCEPT ![o] = r]
               /\ r = [pc |-> r.pc, todo |-> r.todo, tries |-> r.tries]
               /\ \/ r.pc = "failed"
                  \/ r.pc = "normalize" /\ db.dialect = "sqlite"
                  \/ r.pc = "check" /\ db.dialect # "sqlite"
  <2>1. CASE Open(o)
    <3> DEFINE r == [pc |-> IF db.dialect = "sqlite" THEN "normalize" ELSE "check",
                     todo |-> <<>>, tries |-> opener[o].tries + 1]
    <3>1. opener' = [opener EXCEPT ![o] = r]
      BY <2>1 DEF Open
    <3>2. r = [pc |-> r.pc, todo |-> r.todo, tries |-> r.tries]
      OBVIOUS
    <3>3. \/ r.pc = "normalize" /\ db.dialect = "sqlite"
          \/ r.pc = "check" /\ db.dialect # "sqlite"
      OBVIOUS
    <3> HIDE DEF r
    <3> QED BY <3>1, <3>2, <3>3
  <2>2. CASE Stop(o)
    <3> DEFINE r == [pc |-> "failed", todo |-> <<>>, tries |-> opener[o].tries]
    <3>1. opener' = [opener EXCEPT ![o] = r]
      BY <2>2, GoesOn DEF Stop
    <3>2. r = [pc |-> r.pc, todo |-> r.todo, tries |-> r.tries] /\ r.pc = "failed"
      OBVIOUS
    <3> HIDE DEF r
    <3> QED BY <3>1, <3>2
  <2> QED BY <2>1, <2>2
<1>3. r.pc \in {"check", "apply", "open"} => Normalised(db')
  BY <1>1, <1>2 DEF Normalised
<1> QED BY <1>1, <1>2, <1>3, OpenersGoOn

LEMMA StepNormalize ==
  ASSUME SchemaInv, NEW o \in Openers, normalizeLegacySchema(o)
  PROVE  SchemaInv'
<1>1. opener' = [opener EXCEPT ![o] = [pc |-> "check", todo |-> <<>>, tries |-> opener[o].tries]]
  BY GoesOn DEF normalizeLegacySchema
<1>2. db.dialect = "sqlite" /\ begun' = begun
  BY DEF normalizeLegacySchema, SchemaInv, OpenersInv
<1>3. CASE "legacy" \notin db.has
  <2>1. db' = db
    BY <1>3 DEF normalizeLegacySchema
  <2>2. Grown(db.has, db'.has, NeverAdded(begun)) /\ DbInv' /\ Normalised(db')
    BY <1>2, <1>3, <2>1 DEF Grown, SchemaInv, DbInv, Normalised
  <2> DEFINE r == [pc |-> "check", todo |-> <<>>, tries |-> opener[o].tries]
  <2> QED BY <1>1, <1>2, <2>1, <2>2, OpenersGoOn
<1>4. CASE "legacy" \in db.has
  <2>0. PICK history \in SUBSET {"history"} :
          db' = [db EXCEPT !.version = CurrentSchemaVersion,
                   !.has = (@ \ {"legacy", "history"}) \cup Tables \cup history
                           \cup ensureLegacySharedColumns \cup {"indexes", "wide"}
                           \cup UNION {Columns[t] : t \in Tables \ @}]
    BY <1>4 DEF normalizeLegacySchema
  <2> DEFINE k == (db.has \ {"legacy", "history"}) \cup Tables \cup history
                  \cup ensureLegacySharedColumns \cup {"indexes", "wide"}
                  \cup UNION {Columns[t] : t \in Tables \ db.has}
  <2>1. db' = [dialect |-> db.dialect, version |-> CurrentSchemaVersion, has |-> k]
    <3>1. db' = [db EXCEPT !.version = CurrentSchemaVersion, !.has = k]
      BY <2>0
    <3> HIDE DEF k
    <3> QED BY <3>1 DEF SchemaInv, DbInv
  <2>8. begun = db /\ "history" \in NeverAdded(begun)
    <3>1. ~Normalised(db)
      BY <1>2, <1>4 DEF Normalised
    <3>2. begun = db
      BY <3>1 DEF SchemaInv, DbInv
    <3> QED BY <1>2, <3>1, <3>2 DEF NeverAdded
  <2>2. ASSUME NEW p \in Needed \ NeverAdded(begun)
        PROVE  p \in k
    <3>1. CASE p \in Tables \cup {"indexes", "wide", "environment_id", "run planner",
                                  "case planner", "claim_token"}
      BY <3>1 DEF ensureLegacySharedColumns
    <3>2. CASE p = "evidence step"
      <4>1. "evidence_records" \in Tables /\ "evidence step" \in Columns["evidence_records"]
        BY DEF Tables, Columns
      <4>2. CASE "evidence_records" \in db.has
        <5>1. "evidence step" \in db.has
          BY <2>2, <2>8, <3>2, <4>2 DEF NeverAdded
        <5> QED BY <3>2, <5>1
      <4>3. CASE "evidence_records" \notin db.has
        <5>1. "evidence_records" \in Tables \ db.has
          BY <4>1, <4>3
        <5>2. Columns["evidence_records"] \subseteq UNION {Columns[t] : t \in Tables \ db.has}
          BY <5>1
        <5> QED BY <3>2, <4>1, <5>2
      <4> QED BY <4>2, <4>3
    <3>3. p # "history"
      BY <2>2, <2>8
    <3> QED BY <3>1, <3>2, <3>3, <2>2, NeededParts
  <2>3. "legacy" \notin k
    <3>1. "legacy" \notin Tables \cup ensureLegacySharedColumns \cup {"indexes", "wide", "history"}
      BY DEF Tables, ensureLegacySharedColumns
    <3>2. ASSUME NEW t \in Tables
          PROVE  "legacy" \notin Columns[t]
      BY CompanionsAreNotTables DEF Accompanies
    <3> QED BY <3>1, <3>2
  <2>7. db.has \ ({"legacy"} \cup NeverAdded(begun)) \subseteq k
    BY <2>8
  <2> HIDE DEF k
  <2>4. Whole(db'.has, NeverAdded(begun)) /\ Normalised(db') /\ db'.dialect = db.dialect /\ db'.version = CurrentSchemaVersion
        /\ db' = [dialect |-> db'.dialect, version |-> db'.version, has |-> db'.has]
    BY <2>1, <2>2, <2>3 DEF Whole, Normalised
  <2>5. Grown(db.has, db'.has, NeverAdded(begun))
    <3>2. \A t \in Tables : Accompanies(t) \subseteq Needed
      BY CompanionsAreNotTables
    <3> QED BY <2>1, <2>2, <2>3, <2>7, <3>2 DEF Grown
  <2>6. DbInv'
    BY <1>2, <2>4, <2>5, GrownDb DEF SchemaInv
  <2> DEFINE r == [pc |-> "check", todo |-> <<>>, tries |-> opener[o].tries]
  <2> QED BY <1>1, <1>2, <2>4, <2>5, <2>6, OpenersGoOn
<1> QED BY <1>3, <1>4

LEMMA StepCheck ==
  ASSUME SchemaInv, NEW o \in Openers, currentSchemaVersion(o)
  PROVE  SchemaInv'
<1>1. db' = db /\ Grown(db.has, db'.has, NeverAdded(begun)) /\ DbInv' /\ Normalised(db) /\ Normalised(db')
      /\ begun' = begun
  <2>1. db' = db /\ begun' = begun
    BY DEF currentSchemaVersion
  <2> QED BY <2>1 DEF currentSchemaVersion, Grown, SchemaInv, DbInv, OpenersInv
<1>2. CASE db.version >= CurrentSchemaVersion
  <2> DEFINE r == [pc |-> "open", todo |-> <<>>, tries |-> opener[o].tries]
  <2>1. opener' = [opener EXCEPT ![o] = r]
    BY <1>2, GoesOn DEF currentSchemaVersion
  <2>2. Whole(db'.has, NeverAdded(begun))
    <3>1. db.version = CurrentSchemaVersion
      BY <1>2 DEF SchemaInv, DbInv, CurrentSchemaVersion
    <3> QED BY <1>1, <3>1 DEF SchemaInv, DbInv, LeftByOlder, Whole, Needed
  <2> QED BY <1>1, <2>1, <2>2, OpenersGoOn
<1>3. CASE ~(db.version >= CurrentSchemaVersion)
  <2> DEFINE l == UpgradeSQL(db.dialect, db.version)
             r == [pc |-> "apply", todo |-> l, tries |-> opener[o].tries]
  <2>1. opener' = [opener EXCEPT ![o] = r]
    BY <1>3, GoesOn DEF currentSchemaVersion
  <2>2. db.version < CurrentSchemaVersion
    BY <1>3 DEF SchemaInv, DbInv, CurrentSchemaVersion
  <2>3. Upgrade(l) /\ Suffices(db'.has, l, NeverAdded(begun))
    BY <1>1, <2>2, UpgradesSuffice DEF SchemaInv
  <2> HIDE DEF l
  <2> QED BY <1>1, <2>1, <2>3, OpenersGoOn
<1> QED BY <1>2, <1>3

(* The upgrade goes on with the next statement, records the version after   *)
(* the last, or is refused.                                                 *)
LEMMA StepUpgrade ==
  ASSUME SchemaInv, NEW o \in Openers, UpgradeSchema(o)
  PROVE  SchemaInv'
<1> DEFINE l == opener[o].todo
           s == Head(l)
           rest == Tail(l)
<1>1. Upgrade(l) /\ Suffices(db.has, l, NeverAdded(begun)) /\ Normalised(db) /\ begun' = begun
  BY DEF UpgradeSchema, SchemaInv, OpenersInv
<1>2. /\ rest \in Seq(Work \cup {VersionRow}) /\ Len(rest) = Len(l) - 1 /\ Len(l) \in Nat
      /\ s = l[1] /\ \A i \in 1..Len(rest) : rest[i] = l[i + 1]
      /\ DOMAIN l = 1..Len(l) /\ DOMAIN rest = 1..Len(rest)
  <2>1. l \in Seq(Work \cup {VersionRow}) /\ Len(l) > 0
    BY <1>1 DEF Upgrade
  <2> HIDE DEF l
  <2> QED BY <2>1
<1>3. CASE Rejected(s)
  <2> DEFINE r == [pc |-> "refused", todo |-> <<>>, tries |-> opener[o].tries]
  <2>1. opener' = [opener EXCEPT ![o] = r] /\ db' = db
    BY <1>3, GoesOn DEF UpgradeSchema
  <2>2. Grown(db.has, db'.has, NeverAdded(begun)) /\ DbInv'
    BY <1>1, <2>1 DEF Grown, SchemaInv, DbInv
  <2> QED BY <1>1, <2>1, <2>2, OpenersGoOn
<1>4. CASE ~Rejected(s) /\ Len(l) > 1
  <2> DEFINE r == [pc |-> "apply", todo |-> rest, tries |-> opener[o].tries]
  <2>1. s \in Work /\ rest # <<>>
    <3> HIDE DEF s, rest, l
    <3> QED BY <1>1, <1>2, <1>4 DEF Upgrade
  <2>2. opener' = [opener EXCEPT ![o] = r] /\ db' = Effect(s)
    BY <1>4, <2>1, GoesOn DEF UpgradeSchema
  <2>3. Upgrade(rest)
    <3> HIDE DEF s, rest, l
    <3> QED BY <1>1, <1>2, <1>4 DEF Upgrade
  <2>4. /\ Grown(db.has, db'.has, NeverAdded(begun)) /\ db'.dialect = db.dialect /\ db'.version = db.version
        /\ db' = [dialect |-> db'.dialect, version |-> db'.version, has |-> db'.has]
        /\ \A p \in Needed : Brings(s, p) => p \in db'.has
    <3> HIDE DEF s
    <3> QED BY <2>1, <2>2, WorkGrows DEF SchemaInv
  <2>5. DbInv' /\ Normalised(db')
    BY <1>1, <2>4, GrownDb DEF SchemaInv, Normalised, Grown
  <2>6. Suffices(db'.has, rest, NeverAdded(begun))
    <3>1. Suffices(db'.has, l, NeverAdded(begun))
      BY <1>1, <2>4, GrownSuffices
    <3> HIDE DEF s, rest, l
    <3> SUFFICES ASSUME NEW p \in Needed \ NeverAdded(begun), p \notin db'.has,
                        NEW i \in DOMAIN l, Brings(l[i], p)
                 PROVE  \E j \in DOMAIN rest : Brings(rest[j], p)
      BY <3>1 DEF Suffices
    <3>2. i # 1
      BY <1>2, <2>4
    <3>3. i - 1 \in DOMAIN rest /\ rest[i - 1] = l[i]
      BY <1>2, <3>2
    <3> QED BY <3>3
  <2> HIDE DEF rest, l, s
  <2> QED BY <1>1, <2>2, <2>3, <2>4, <2>5, <2>6, OpenersGoOn
<1>5. CASE ~Rejected(s) /\ Len(l) = 1
  <2> DEFINE r == [pc |-> "open", todo |-> rest, tries |-> opener[o].tries]
  <2>1. s = VersionRow /\ rest = <<>>
    <3>1. l[Len(l)] = VersionRow
      BY <1>1 DEF Upgrade
    <3> HIDE DEF s, rest, l
    <3>2. s = VersionRow
      BY <1>2, <1>5, <3>1
    <3>3. rest = <<>>
      BY <1>2, <1>5
    <3> QED BY <3>2, <3>3
  <2>2. opener' = [opener EXCEPT ![o] = r] /\ db' = Effect(s)
    BY <1>5, <2>1, GoesOn DEF UpgradeSchema
  <2>3. db' = [dialect |-> db.dialect, version |-> CurrentSchemaVersion, has |-> db.has]
    <3>1. s.op = "version"
      BY <2>1 DEF VersionRow, Statement
    <3> HIDE DEF s
    <3> QED BY <2>2, <3>1 DEF Effect, SchemaInv, DbInv
  <2>4. Whole(db.has, NeverAdded(begun))
    <3>1. \A p \in Needed : ~Brings(VersionRow, p)
      BY DEF Brings, VersionRow, Statement, Needed, Parts, Extras, Tables, Columns
    <3>2. \A i \in DOMAIN l : l[i] = VersionRow
      BY <1>2, <1>5, <2>1
    <3>3. ASSUME NEW t \in Tables
          PROVE  t \in db.has
      <4>1. t \in Needed
        BY DEF Needed, Parts, Tables
      <4>2. \A u \in Tables : t \notin Accompanies(u)
        BY CompanionsAreNotTables
      <4>3. t \notin NeverAdded(begun)
        <5>1. "evidence step" \notin Tables /\ "environment_id" \notin Tables /\ "history" \notin Tables
          BY DEF Tables
        <5> QED BY <5>1 DEF NeverAdded
      <4> QED BY <1>1, <3>1, <3>2, <4>1, <4>2, <4>3 DEF Suffices
    <3> HIDE DEF l
    <3> QED BY <1>1, <3>1, <3>2, <3>3 DEF Suffices, Whole
  <2>5. Grown(db.has, db'.has, NeverAdded(begun))
    BY <2>3 DEF Grown
  <2>6. DbInv' /\ Normalised(db') /\ Whole(db'.has, NeverAdded(begun)) /\ db'.dialect = db.dialect
    <3>1. Whole(db'.has, NeverAdded(begun)) /\ db'.version = CurrentSchemaVersion /\ db'.dialect = db.dialect
          /\ db' = [dialect |-> db'.dialect, version |-> db'.version, has |-> db'.has]
          /\ Normalised(db')
      BY <1>1, <2>3, <2>4 DEF Normalised
    <3> QED BY <1>1, <2>5, <3>1, GrownDb DEF SchemaInv
  <2> HIDE DEF rest, l, s
  <2> QED BY <1>1, <2>2, <2>5, <2>6, OpenersGoOn
<1>6. Len(l) > 1 \/ Len(l) = 1
  <2> HIDE DEF s, rest, l
  <2> QED BY <1>1, <1>2 DEF Upgrade
<1> QED BY <1>3, <1>4, <1>5, <1>6

-----------------------------------------------------------------------------
(* Upgrades: the theorems                                                   *)

LEMMA SchemaStart == SchemaInit => SchemaInv
<1> SUFFICES ASSUME SchemaInit
             PROVE  SchemaInv
  OBVIOUS
<1>1. DbInv
  BY SchemaAssumption DEF SchemaInit, DbInv
<1>2. OpenersInv
  BY DEF SchemaInit, OpenersInv, Closed
<1> QED BY <1>1, <1>2 DEF SchemaInv

LEMMA SchemaStep == SchemaInv /\ [SchemaNext]_schemaVars => SchemaInv'
<1> SUFFICES ASSUME SchemaInv, [SchemaNext]_schemaVars
             PROVE  SchemaInv'
  OBVIOUS
<1>1. CASE SchemaNext
  BY <1>1, StepOpen, StepNormalize, StepCheck, StepUpgrade DEF SchemaNext
<1>2. CASE UNCHANGED schemaVars
  BY <1>2 DEF schemaVars, SchemaInv, DbInv, OpenersInv, Normalised, LeftByOlder
<1> QED BY <1>1, <1>2

(* UpgradeSchema: whatever is left to do of an upgrade, by any of the       *)
(* processes, with what is there makes the database whole, in all its steps.*)
THEOREM SchemaInvariant == SchemaSpec => []SchemaInv
<1> QED BY SchemaStart, SchemaStep, PTL DEF SchemaSpec

(* A process that opened the Store finds every table, column, index and     *)
(* backfill, for any number of processes and attempts, any database that an *)
(* older program left, and upgrades stopped at any statement.               *)
THEOREM OpenedStoresAreComplete == SchemaSpec => []OpenedStoreIsComplete
<1>1. SchemaInv => OpenedStoreIsComplete
  BY DEF SchemaInv, OpenersInv, OpenedStoreIsComplete, Whole, Needed
<1> QED BY <1>1, SchemaInvariant, PTL

-----------------------------------------------------------------------------
(* Publications (ProfilePublication)                                        *)

JobSteps ==
  {"idle", "pack", "export", "fetch", "activate", "remove", "copyFile", "copyManifest", "guard",
   "load", "digest", "index", "previous", "replace", "reset", "insert", "models", "published",
   "checks", "done", "failed"}
JobRequest ==
  [kind : JobKinds \cup {"none"}, source : Sources, force : BOOLEAN, audit : BOOLEAN,
   http : BOOLEAN, profile : Profiles]
(* ConfigRow versions are numbered by the publications before them.            *)
Moments == {0} \cup {Cardinality(S) + 1 : S \in SUBSET Jobs}
JobState ==
  [pc : JobSteps, req : JobRequest, bundle : Nat, digest : SUBSET Packages, at : Moments, rev : Nat,
   todo : SUBSET (ModelKeys \cup Checks), want : Nat, ok : BOOLEAN]
ConfigRow ==
  [job : Jobs, profile : Profiles, digest : SUBSET Packages, active : BOOLEAN, at : Moments]
CatalogState ==
  [profile : SUBSET Profiles, rev : [Profiles -> Nat], of : [Profiles -> SUBSET Nat]]

(* A directory holds one package, or is not there.                          *)
Directory(d) == d \subseteq Packages /\ \A p, q \in d : p = q

PublicationTyped ==
  /\ disk \in [Sources -> SUBSET Packages] /\ \A s \in Sources : Directory(disk[s])
  /\ index \in [Profiles -> SUBSET Packages] /\ catalog \in CatalogState
  /\ configs \in SUBSET ConfigRow /\ models \in [Profiles -> [ModelKeys -> SUBSET Jobs]]
  /\ job \in [Jobs -> JobState] /\ alone \in SUBSET Jobs /\ edits \in Nat /\ faults \in Nat

AtWork(f) == {j \in Jobs : f[j].pc \notin {"idle", "done", "failed"}}

(* The profile and the directory a job publishes, and its config version.   *)
Profile(s) == IF s.req.kind = "restore" THEN s.req.profile ELSE ProfileOf[s.req.source]
Reads(s, d) == d[materializeProfileReference(s.req)]
ItsVersion(j, s) ==
  [job |-> j, profile |-> Profile(s), digest |-> s.digest, active |-> TRUE, at |-> s.at]

Digested == {"index", "previous", "replace", "reset", "insert", "models", "published", "checks", "done"}
Swapped == {"reset", "insert", "models", "published", "checks", "done"}
Modelled == {"published", "checks", "done"}

(* The package an undisturbed import or verify was given: in the archive,   *)
(* half copied into the package home, there, and in the job's hands.        *)
PackageKept(s, d) ==
  /\ s.pc \in {"remove", "copyFile", "copyManifest"} => s.req.source = "archive"
  /\ s.pc = "remove" => (Loadable(d["archive"]) => s.want = Load(d["archive"]))
  /\ s.pc \in {"copyFile", "copyManifest"} => Loadable(d["archive"]) /\ s.want = Load(d["archive"])
  /\ s.pc = "copyFile" => d["home"] = {}
  /\ s.pc = "copyManifest" =>
       \E p \in d["archive"] : d["home"] = {[manifest |-> {}, file |-> p.file]}
  /\ s.pc \in {"guard", "load"} => (Loadable(Reads(s, d)) => s.want = Load(Reads(s, d)))
  /\ s.pc \in {"digest"} \cup Digested => s.bundle = s.want
  /\ s.pc \in Digested => s.digest = Reads(s, d)

(* What it has made of the Store so far.                                    *)
StoreFollows(j, s, x, c, v, m) ==
  /\ s.pc \in Digested \ {"index"} => x[Profile(s)] = s.digest
  /\ s.pc \in Swapped => c.profile = {Profile(s)} /\ c.of[Profile(s)] = {s.want}
  /\ s.pc = "insert" => \A e \in v : ~e.active
  /\ s.pc \in {"models"} \cup Modelled => {e \in v : e.active} = {ItsVersion(j, s)}
  /\ s.pc = "models" => \A k \in ModelKeys \ s.todo : m[Profile(s)][k] = {j}
  /\ s.pc \in Modelled => \A k \in ModelKeys : m[Profile(s)][k] = {j}

InOrder(j, s, d, x, c, v, m) ==
  s.req.kind \in {"import", "verify"} =>
    /\ s.pc \notin {"pack", "export", "fetch", "activate"}
    /\ PackageKept(s, d) /\ StoreFollows(j, s, x, c, v, m)

PublicationInOrder ==
  /\ PublicationTyped
  /\ \A j \in alone : /\ AtWork(job) \subseteq {j}
                      /\ InOrder(j, job[j], disk, index, catalog, configs, models)

JobStays(s, t) == t \in JobState /\ t.req = s.req /\ t.want = s.want
SameButPc(s, t) ==
  /\ JobStays(s, t) /\ t.bundle = s.bundle /\ t.digest = s.digest /\ t.at = s.at /\ t.todo = s.todo
OthersStay(j) == \A i \in Jobs \ {j} : job'[i] = job[i]

(* A job's record is replaced.                                              *)
LEMMA JobReplaced ==
  ASSUME NEW j \in Jobs, NEW t \in JobState, job \in [Jobs -> JobState],
         job' = [job EXCEPT ![j] = t]
  PROVE  job' \in [Jobs -> JobState] /\ job'[j] = t /\ OthersStay(j)
BY DEF OthersStay

(* A job goes to its next step.                                             *)
LEMMA JobGoes ==
  ASSUME NEW j \in Jobs, NEW pc \in JobSteps, job \in [Jobs -> JobState], GoesTo(j, pc)
  PROVE  /\ job' \in [Jobs -> JobState] /\ OthersStay(j)
         /\ job'[j].pc = pc /\ SameButPc(job[j], job'[j])
<1> DEFINE t == [job[j] EXCEPT !.pc = pc]
<1>1. job[j] \in JobState
  OBVIOUS
<1>2. /\ t \in JobState /\ t.pc = pc /\ SameButPc(job[j], t)
  BY <1>1 DEF JobState, SameButPc, JobStays
<1>3. job' = [job EXCEPT ![j] = t]
  BY DEF GoesTo
<1> HIDE DEF t
<1>4. job' \in [Jobs -> JobState] /\ job'[j] = t /\ OthersStay(j)
  BY <1>2, <1>3, JobReplaced
<1> QED BY <1>2, <1>4

LEMMA JobTakesBundle ==
  ASSUME NEW j \in Jobs, NEW pc \in JobSteps, NEW b \in Nat, job \in [Jobs -> JobState],
         job' = [job EXCEPT ![j].pc = pc, ![j].bundle = b]
  PROVE  /\ job' \in [Jobs -> JobState] /\ OthersStay(j)
         /\ job'[j].pc = pc /\ job'[j].bundle = b /\ JobStays(job[j], job'[j])
<1> DEFINE t == [job[j] EXCEPT !.pc = pc, !.bundle = b]
<1>1. job[j] \in JobState
  OBVIOUS
<1>2. t \in JobState /\ t.pc = pc /\ t.bundle = b /\ JobStays(job[j], t)
  BY <1>1 DEF JobState, JobStays
<1>3. job' = [job EXCEPT ![j] = t]
  OBVIOUS
<1> HIDE DEF t
<1>4. job' \in [Jobs -> JobState] /\ job'[j] = t /\ OthersStay(j)
  BY <1>2, <1>3, JobReplaced
<1> QED BY <1>2, <1>4

LEMMA JobTakesDigest ==
  ASSUME NEW j \in Jobs, NEW pc \in JobSteps, NEW g \in SUBSET Packages, NEW a \in Moments,
         job \in [Jobs -> JobState],
         job' = [job EXCEPT ![j].pc = pc, ![j].digest = g, ![j].at = a]
  PROVE  /\ job' \in [Jobs -> JobState] /\ OthersStay(j)
         /\ job'[j].pc = pc /\ job'[j].digest = g /\ JobStays(job[j], job'[j])
         /\ job'[j].bundle = job[j].bundle
<1> DEFINE t == [job[j] EXCEPT !.pc = pc, !.digest = g, !.at = a]
<1>1. job[j] \in JobState
  OBVIOUS
<1>2. /\ t \in JobState /\ t.pc = pc /\ t.digest = g /\ JobStays(job[j], t)
      /\ t.bundle = job[j].bundle
  BY <1>1 DEF JobState, JobStays
<1>3. job' = [job EXCEPT ![j] = t]
  OBVIOUS
<1> HIDE DEF t
<1>4. job' \in [Jobs -> JobState] /\ job'[j] = t /\ OthersStay(j)
  BY <1>2, <1>3, JobReplaced
<1> QED BY <1>2, <1>4

LEMMA JobReadsRevision ==
  ASSUME NEW j \in Jobs, NEW pc \in JobSteps, NEW r \in Nat, job \in [Jobs -> JobState],
         job' = [job EXCEPT ![j].pc = pc, ![j].rev = r]
  PROVE  /\ job' \in [Jobs -> JobState] /\ OthersStay(j)
         /\ job'[j].pc = pc /\ SameButPc(job[j], job'[j])
<1> DEFINE t == [job[j] EXCEPT !.pc = pc, !.rev = r]
<1>1. job[j] \in JobState
  OBVIOUS
<1>2. t \in JobState /\ t.pc = pc /\ SameButPc(job[j], t)
  BY <1>1 DEF JobState, JobStays, SameButPc
<1>3. job' = [job EXCEPT ![j] = t]
  OBVIOUS
<1> HIDE DEF t
<1>4. job' \in [Jobs -> JobState] /\ job'[j] = t /\ OthersStay(j)
  BY <1>2, <1>3, JobReplaced
<1> QED BY <1>2, <1>4

(* What is left to do, and what the checks have found, are all else that    *)
(* changes in a job.                                                        *)
SameButTodo(s, t) ==
  JobStays(s, t) /\ t.bundle = s.bundle /\ t.digest = s.digest /\ t.at = s.at

LEMMA JobTakesTodo ==
  ASSUME NEW j \in Jobs, NEW pc \in JobSteps, NEW d \in SUBSET (ModelKeys \cup Checks),
         job \in [Jobs -> JobState],
         \/ job' = [job EXCEPT ![j].pc = pc, ![j].todo = d]
         \/ job' = [job EXCEPT ![j].todo = d, ![j].pc = pc]
  PROVE  /\ job' \in [Jobs -> JobState] /\ OthersStay(j)
         /\ job'[j].pc = pc /\ job'[j].todo = d /\ SameButTodo(job[j], job'[j])
<1> DEFINE t == [job[j] EXCEPT !.pc = pc, !.todo = d]
           u == [job[j] EXCEPT !.todo = d, !.pc = pc]
<1>1. job[j] \in JobState
  OBVIOUS
<1>2. /\ t \in JobState /\ t.pc = pc /\ t.todo = d /\ SameButTodo(job[j], t)
  BY <1>1 DEF JobState, JobStays, SameButTodo
<1>3. /\ u \in JobState /\ u.pc = pc /\ u.todo = d /\ SameButTodo(job[j], u)
  BY <1>1 DEF JobState, JobStays, SameButTodo
<1>4. job' = [job EXCEPT ![j] = t] \/ job' = [job EXCEPT ![j] = u]
  OBVIOUS
<1> HIDE DEF t, u
<1> QED BY <1>2, <1>3, <1>4, JobReplaced

LEMMA JobChecks ==
  ASSUME NEW j \in Jobs, NEW pc \in JobSteps, NEW d \in SUBSET (ModelKeys \cup Checks),
         NEW o \in BOOLEAN, job \in [Jobs -> JobState],
         \/ job' = [job EXCEPT ![j].pc = pc, ![j].todo = d, ![j].ok = o]
         \/ pc = job[j].pc /\ job' = [job EXCEPT ![j].todo = d, ![j].ok = o]
  PROVE  /\ job' \in [Jobs -> JobState] /\ OthersStay(j)
         /\ job'[j].pc = pc /\ job'[j].todo = d /\ SameButTodo(job[j], job'[j])
<1> DEFINE t == [job[j] EXCEPT !.pc = pc, !.todo = d, !.ok = o]
           u == [job[j] EXCEPT !.todo = d, !.ok = o]
<1>1. job[j] \in JobState
  OBVIOUS
<1>2. /\ t \in JobState /\ t.pc = pc /\ t.todo = d /\ SameButTodo(job[j], t)
  BY <1>1 DEF JobState, JobStays, SameButTodo
<1>3. /\ u \in JobState /\ u.pc = job[j].pc /\ u.todo = d /\ SameButTodo(job[j], u)
  BY <1>1 DEF JobState, JobStays, SameButTodo
<1>4. job' = [job EXCEPT ![j] = t] \/ (pc = job[j].pc /\ job' = [job EXCEPT ![j] = u])
  OBVIOUS
<1> HIDE DEF t, u
<1> QED BY <1>2, <1>3, <1>4, JobReplaced
(* A package that can be loaded holds one version of its case.              *)
LEMMA LoadsAVersion ==
  ASSUME NEW d, Directory(d), Loadable(d)
  PROVE  /\ Load(d) \in Nat
         /\ \E p \in d : d = {p} /\ p \in Packages
<1>1. PICK p \in d : d = {p} /\ p \in Packages /\ p.manifest # {}
  BY DEF Directory, Loadable
<1>2. (CHOOSE x \in d : TRUE) = p
  BY <1>1
<1>3. (CHOOSE i \in p.manifest : TRUE) \in Nat /\ p.file \in Nat
  BY <1>1 DEF Packages
<1>4. Load(d) = mergeAPICase(CHOOSE i \in p.manifest : TRUE, p.file)
  BY <1>2 DEF Load
<1> QED BY <1>1, <1>3, <1>4 DEF mergeAPICase

LEMMA JobsAreTyped ==
  ASSUME PublicationTyped, NEW j \in Jobs
  PROVE  /\ job[j] \in JobState /\ job[j].req \in JobRequest /\ job[j].req.source \in Sources
         /\ IdOf(j) \in Profiles /\ IdOf(j) = Profile(job[j])
         /\ DirOf(j) = Reads(job[j], disk) /\ Directory(DirOf(j))
         /\ ConfigVersion(j) = ItsVersion(j, job[j]) /\ ConfigVersion(j) \in ConfigRow
<1>1. job[j] \in JobState
  BY DEF PublicationTyped
<1>2. job[j].req \in JobRequest /\ job[j].digest \in SUBSET Packages /\ job[j].at \in Moments
  BY <1>1 DEF JobState
<1>3. job[j].req.source \in Sources /\ job[j].req.profile \in Profiles
  BY <1>2 DEF JobRequest
<1>4. IdOf(j) \in Profiles /\ IdOf(j) = Profile(job[j])
  BY <1>3, PublicationAssumption DEF IdOf, Profile
<1>5. materializeProfileReference(job[j].req) \in Sources
  BY <1>3 DEF materializeProfileReference, Sources
<1>6. DirOf(j) = Reads(job[j], disk) /\ Directory(DirOf(j))
  BY <1>5 DEF DirOf, Reads, PublicationTyped
<1>7. ConfigVersion(j) = ItsVersion(j, job[j])
  BY <1>4 DEF ConfigVersion, ItsVersion
<1>8. ConfigVersion(j) \in ConfigRow
  BY <1>2, <1>4 DEF ConfigVersion, ConfigRow
<1> QED BY <1>1, <1>2, <1>3, <1>4, <1>6, <1>7, <1>8

(* One directory is replaced.                                               *)
LEMMA DiskReplaced ==
  ASSUME PublicationTyped, NEW s \in Sources, NEW d, Directory(d),
         disk' = [disk EXCEPT ![s] = d]
  PROVE  /\ disk' \in [Sources -> SUBSET Packages] /\ \A r \in Sources : Directory(disk'[r])
         /\ disk'[s] = d /\ \A r \in Sources \ {s} : disk'[r] = disk[r]
BY DEF PublicationTyped, Directory

(* A job that failed has nothing to keep.                                   *)
LEMMA FailedInOrder ==
  ASSUME NEW j, NEW t, t.pc = "failed"
  PROVE  \A d, x, c, v, m : InOrder(j, t, d, x, c, v, m)
BY DEF InOrder, PackageKept, StoreFollows, Digested, Swapped, Modelled

(* Nothing else is under way while an undisturbed job takes a step.         *)
LEMMA OneJobSteps ==
  ASSUME PublicationInOrder, PublicationTyped', NEW j \in Jobs,
         job[j].pc \notin {"idle", "done", "failed"}, OthersStay(j), alone' = alone,
         InOrder(j, job[j], disk, index, catalog, configs, models)
           => InOrder(j, job'[j], disk', index', catalog', configs', models')
  PROVE  PublicationInOrder'
<1>1. j \in AtWork(job)
  BY DEF AtWork
<1>2. ASSUME NEW i \in alone'
      PROVE  /\ AtWork(job') \subseteq {i}
             /\ InOrder(i, job'[i], disk', index', catalog', configs', models')
  <2>1. i = j /\ AtWork(job) \subseteq {j}
    BY <1>1, <1>2 DEF PublicationInOrder
  <2>2. AtWork(job') \subseteq {j}
    BY <2>1 DEF AtWork, OthersStay
  <2> QED BY <1>2, <2>1, <2>2 DEF PublicationInOrder
<1> QED BY <1>2 DEF PublicationInOrder

LEMMA FaultStep ==
  ASSUME PublicationInOrder, NEW j \in Jobs, job[j].pc \notin {"idle", "done", "failed"},
         GoesTo(j, "failed"), UNCHANGED <<disk, storeVars, alone, edits>>, faults' \in Nat
  PROVE  PublicationInOrder'
<1>1. PublicationTyped /\ job \in [Jobs -> JobState] /\ "failed" \in JobSteps
  BY DEF PublicationInOrder, PublicationTyped, JobSteps
<1>2. job' \in [Jobs -> JobState] /\ OthersStay(j) /\ job'[j].pc = "failed"
  BY <1>1, JobGoes
<1>3. PublicationTyped'
  BY <1>1, <1>2 DEF PublicationTyped, storeVars
<1> QED BY <1>2, <1>3, FailedInOrder, OneJobSteps

LEMMA IdleJobIsTyped ==
  IdleJob \in JobState
<1>1. (CHOOSE p \in Profiles : TRUE) \in Profiles
  BY PublicationAssumption DEF Sources
<1>2. NoRequest \in JobRequest
  BY <1>1 DEF NoRequest, JobRequest, Sources
<1>3. "idle" \in JobSteps /\ 0 \in Moments
  BY DEF JobSteps, Moments
<1> QED BY <1>2, <1>3 DEF IdleJob, JobState

LEMMA InOrderAtFirst ==
  PublicationInit => PublicationInOrder
<1> SUFFICES ASSUME PublicationInit PROVE PublicationInOrder
  OBVIOUS
<1>1. IdleJob \in JobState
  BY IdleJobIsTyped
<1>2. catalog \in CatalogState
  BY DEF PublicationInit, CatalogState
<1>3. disk \in [Sources -> SUBSET Packages] /\ \A s \in Sources : Directory(disk[s])
  BY PublicationAssumption DEF PublicationInit, Directory
<1>4. index \in [Profiles -> SUBSET Packages] /\ models \in [Profiles -> [ModelKeys -> SUBSET Jobs]]
  BY DEF PublicationInit
<1> QED BY <1>1, <1>2, <1>3, <1>4 DEF PublicationInit, PublicationInOrder, PublicationTyped

(* A developer's change: no job is undisturbed any more.                    *)
LEMMA EditStep ==
  ASSUME PublicationInOrder, NEW v \in Versions, Edit(v)
  PROVE  PublicationInOrder'
<1>1. PublicationTyped /\ v \in Nat /\ "work" \in Sources
  BY PublicationAssumption DEF PublicationInOrder, Sources
<1>2. PICK p \in disk["work"] :
        \/ disk' = [disk EXCEPT !["work"] = {[p EXCEPT !.file = v]}]
        \/ disk' = [disk EXCEPT !["work"] = {[p EXCEPT !.manifest = {v}]}]
  BY DEF Edit
<1>3. p \in Packages
  BY <1>1 DEF PublicationTyped, Directory
<1>4. [p EXCEPT !.file = v] \in Packages /\ [p EXCEPT !.manifest = {v}] \in Packages
  BY <1>1, <1>3 DEF Packages
<1>5. disk' \in [Sources -> SUBSET Packages] /\ \A s \in Sources : Directory(disk'[s])
  <2>1. Directory({[p EXCEPT !.file = v]}) /\ Directory({[p EXCEPT !.manifest = {v}]})
    BY <1>4 DEF Directory
  <2> QED BY <1>1, <1>2, <2>1, DiskReplaced
<1> QED BY <1>1, <1>5 DEF Edit, storeVars, PublicationInOrder, PublicationTyped

(* A job begins: alone when no other is under way, and then with the        *)
(* package it was given.                                                    *)
LEMMA BeginStep ==
  ASSUME PublicationInOrder, NEW j \in Jobs, NEW r \in Requests[j], Begin(j, r)
  PROVE  PublicationInOrder'
<1> DEFINE w == IF Loadable(disk[r.source]) THEN Load(disk[r.source]) ELSE 0
           t == [IdleJob EXCEPT !.pc = Start(r), !.req = r, !.want = w]
<1>1. PublicationTyped
  BY DEF PublicationInOrder
<1>2. r \in JobRequest /\ r.source \in Sources /\ r.kind \in JobKinds
  BY PublicationAssumption DEF JobRequest
<1>3. w \in Nat
  <2>1. Directory(disk[r.source])
    BY <1>1, <1>2 DEF PublicationTyped
  <2> QED BY <2>1, LoadsAVersion
<1>4. Start(r) \in JobSteps
  BY <1>2 DEF Start, JobSteps, JobKinds
<1>5. job' = [job EXCEPT ![j] = t]
  BY DEF Begin
<1> HIDE DEF w
<1>6. IdleJob \in JobState
  BY IdleJobIsTyped
<1>7. t \in JobState /\ t.pc = Start(r) /\ t.req = r /\ t.want = w
  BY <1>2, <1>3, <1>4, <1>6 DEF JobState
<1> HIDE DEF t
<1>8. job' \in [Jobs -> JobState] /\ job'[j] = t /\ OthersStay(j)
  BY <1>1, <1>5, <1>7, JobReplaced DEF PublicationTyped
<1>9. PublicationTyped'
  BY <1>1, <1>8 DEF Begin, PublicationTyped, storeVars
<1>10. ASSUME NEW i \in alone' PROVE i = j /\ AtWork(job') \subseteq {j}
  <2>1. InFlight = {} /\ i = j
    BY <1>10 DEF Begin
  <2> QED BY <1>8, <2>1 DEF InFlight, AtWork, OthersStay
<1>11. InOrder(j, t, disk, index, catalog, configs, models)
  <2> SUFFICES ASSUME r.kind \in {"import", "verify"}
               PROVE  /\ t.pc \notin {"pack", "export", "fetch", "activate"}
                      /\ PackageKept(t, disk) /\ StoreFollows(j, t, index, catalog, configs, models)
    BY <1>7 DEF InOrder
  <2>1. CASE r.source = "archive"
    <3>1. t.pc = "remove"
      BY <1>7, <2>1 DEF Start
    <3>2. Loadable(disk["archive"]) => t.want = Load(disk["archive"])
      BY <1>7, <2>1 DEF w
    <3> QED BY <1>7, <2>1, <3>1, <3>2 DEF PackageKept, StoreFollows, Digested, Swapped, Modelled
  <2>2. CASE r.source # "archive"
    <3>1. t.pc = "guard"
      BY <1>7, <2>2 DEF Start
    <3>2. Reads(t, disk) = disk[r.source]
      BY <1>7, <2>2 DEF Reads, materializeProfileReference
    <3>3. Loadable(Reads(t, disk)) => t.want = Load(Reads(t, disk))
      BY <1>7, <3>2 DEF w
    <3> QED BY <3>1, <3>3 DEF PackageKept, StoreFollows, Digested, Swapped, Modelled
  <2> QED BY <2>1, <2>2
<1> QED BY <1>8, <1>9, <1>10, <1>11 DEF Begin, PublicationInOrder, storeVars

(* Jobs of other kinds are in order whatever they do.                       *)
LEMMA OtherKindsInOrder ==
  ASSUME NEW j, NEW s, NEW t, t.req = s.req,
         NEW d, NEW x, NEW c, NEW v, NEW m, InOrder(j, s, d, x, c, v, m),
         s.pc \in {"pack", "export", "fetch", "activate"}
  PROVE  \A e, y, b, w, n : InOrder(j, t, e, y, b, w, n)
BY DEF InOrder

LEMMA PackStep ==
  ASSUME PublicationInOrder, NEW j \in Jobs, Pack(j)
  PROVE  PublicationInOrder'
<1>1. PublicationTyped /\ job[j].pc = "pack"
  BY DEF PublicationInOrder, Pack
<1>2. CASE disk' = [disk EXCEPT !["archive"] = disk["work"]] /\ GoesTo(j, "done")
  <2>1. disk' \in [Sources -> SUBSET Packages] /\ \A s \in Sources : Directory(disk'[s])
    BY <1>1, <1>2, DiskReplaced DEF Sources, PublicationTyped
  <2>2. job' \in [Jobs -> JobState] /\ OthersStay(j) /\ SameButPc(job[j], job'[j])
    BY <1>1, <1>2, JobGoes DEF JobSteps, PublicationTyped
  <2>3. PublicationTyped'
    BY <1>1, <2>1, <2>2 DEF Pack, PublicationTyped, storeVars
  <2> QED BY <1>1, <2>2, <2>3, OtherKindsInOrder, OneJobSteps DEF Pack, SameButPc, JobStays
<1>3. CASE Fails(j) /\ UNCHANGED disk
  BY <1>1, <1>3, FaultStep DEF Pack, Fails, PublicationTyped
<1> QED BY <1>2, <1>3 DEF Pack

LEMMA ExportStep ==
  ASSUME PublicationInOrder, NEW j \in Jobs, exportProfileCatalogFromStore(j)
  PROVE  PublicationInOrder'
<1>1. PublicationTyped /\ job[j].pc = "export" /\ "work" \in Sources
  BY DEF PublicationInOrder, exportProfileCatalogFromStore, Sources
<1> DEFINE p == [manifest |-> UNION {catalog.of[q] : q \in catalog.profile},
                 file |-> IF disk["work"] = {} THEN 0 ELSE (CHOOSE x \in disk["work"] : TRUE).file]
<1>2. CASE disk' = [disk EXCEPT !["work"] = {p}] /\ GoesTo(j, "done")
  <2>1. p \in Packages
    <3>1. \A q \in catalog.profile : catalog.of[q] \in SUBSET Nat
      BY <1>1 DEF PublicationTyped, CatalogState
    <3>2. UNION {catalog.of[q] : q \in catalog.profile} \in SUBSET Nat
      BY <3>1
    <3>3. \A x \in disk["work"] : x.file \in Nat
      BY <1>1 DEF PublicationTyped, Directory, Packages
    <3>4. (IF disk["work"] = {} THEN 0 ELSE (CHOOSE x \in disk["work"] : TRUE).file) \in Nat
      BY <3>3
    <3> QED BY <3>2, <3>4 DEF Packages
  <2> HIDE DEF p
  <2>2. disk' \in [Sources -> SUBSET Packages] /\ \A s \in Sources : Directory(disk'[s])
    BY <1>1, <1>2, <2>1, DiskReplaced DEF Directory
  <2>3. job' \in [Jobs -> JobState] /\ OthersStay(j) /\ SameButPc(job[j], job'[j])
    BY <1>1, <1>2, JobGoes DEF JobSteps, PublicationTyped
  <2>4. PublicationTyped'
    BY <1>1, <2>2, <2>3 DEF exportProfileCatalogFromStore, PublicationTyped, storeVars
  <2> QED BY <1>1, <2>3, <2>4, OtherKindsInOrder, OneJobSteps
      DEF exportProfileCatalogFromStore, SameButPc, JobStays
<1>3. CASE Fails(j) /\ UNCHANGED disk
  BY <1>1, <1>3, FaultStep DEF exportProfileCatalogFromStore, Fails, PublicationTyped
<1> QED BY <1>2, <1>3 DEF exportProfileCatalogFromStore

LEMMA InstallStep ==
  ASSUME PublicationInOrder, NEW j \in Jobs, Install(j)
  PROVE  PublicationInOrder'
<1>1. PublicationTyped /\ job[j].pc = "remove" /\ "home" \in Sources /\ "archive" \in Sources
  BY DEF PublicationInOrder, Install, Sources
<1>2. CASE /\ Loadable(disk[job[j].req.source])
           /\ disk' = [disk EXCEPT !["home"] = {}] /\ GoesTo(j, "copyFile")
  <2>1. /\ disk' \in [Sources -> SUBSET Packages] /\ \A s \in Sources : Directory(disk'[s])
        /\ disk'["home"] = {} /\ disk'["archive"] = disk["archive"]
    BY <1>1, <1>2, DiskReplaced DEF Directory
  <2>2. /\ job' \in [Jobs -> JobState] /\ OthersStay(j) /\ SameButPc(job[j], job'[j])
        /\ job'[j].pc = "copyFile"
    BY <1>1, <1>2, JobGoes DEF JobSteps, PublicationTyped
  <2>3. PublicationTyped'
    BY <1>1, <2>1, <2>2 DEF Install, PublicationTyped, storeVars
  <2>4. ASSUME InOrder(j, job[j], disk, index, catalog, configs, models)
        PROVE  InOrder(j, job'[j], disk', index', catalog', configs', models')
    BY <1>1, <1>2, <2>1, <2>2, <2>4 DEF InOrder, PackageKept, StoreFollows, SameButPc, JobStays,
       Digested, Swapped, Modelled
  <2> QED BY <1>1, <2>2, <2>3, <2>4, OneJobSteps DEF Install
<1>3. CASE Fails(j) /\ UNCHANGED disk
  BY <1>1, <1>3, FaultStep DEF Install, Fails, PublicationTyped
<1> QED BY <1>2, <1>3 DEF Install

(* Copying an archive into the empty package home, cases before the         *)
(* manifest, leaves the home with the package of the archive.               *)
LEMMA CopyStep ==
  ASSUME PublicationInOrder, NEW j \in Jobs, copyDir(j)
  PROVE  PublicationInOrder'
<1> DEFINE from == disk[job[j].req.source]
           old == IF disk["home"] = {} THEN [manifest |-> {}, file |-> 0]
                  ELSE CHOOSE p \in disk["home"] : TRUE
           p == CHOOSE x \in from : TRUE
           one == [old EXCEPT !.file = IF p.file = 0 THEN @ ELSE p.file]
           two == [old EXCEPT !.manifest = IF p.manifest = {} THEN @ ELSE p.manifest]
<1>1. /\ PublicationTyped /\ job[j].pc \in {"copyFile", "copyManifest"}
      /\ "home" \in Sources /\ "archive" \in Sources /\ job[j].req.source \in Sources
  BY JobsAreTyped DEF PublicationInOrder, copyDir, Sources
<1>2. \/ from = {} /\ Fails(j) /\ UNCHANGED disk
      \/ /\ from # {} /\ job[j].pc = "copyFile"
         /\ disk' = [disk EXCEPT !["home"] = {one}] /\ GoesTo(j, "copyManifest")
      \/ /\ from # {} /\ job[j].pc = "copyManifest"
         /\ disk' = [disk EXCEPT !["home"] = {two}]
         /\ GoesTo(j, IF job[j].req.kind = "install" THEN "done" ELSE "guard")
  BY <1>1 DEF copyDir
<1>3. old \in Packages
  <2>1. [manifest |-> {}, file |-> 0] \in Packages
    BY DEF Packages
  <2>2. disk["home"] # {} => (CHOOSE x \in disk["home"] : TRUE) \in Packages
    BY <1>1 DEF PublicationTyped, Directory
  <2> QED BY <2>1, <2>2
<1>4. from # {} => p \in Packages /\ from = {p}
  BY <1>1 DEF PublicationTyped, Directory
<1>5. disk["home"] = {} => old.manifest = {} /\ old.file = 0
  OBVIOUS
<1>6. \A x \in disk["home"] : old = x
  BY <1>1 DEF PublicationTyped, Directory
<1> HIDE DEF from, old, p
<1>7. from # {} => /\ one \in Packages /\ one.manifest = old.manifest
                   /\ one.file = IF p.file = 0 THEN old.file ELSE p.file
  BY <1>3, <1>4 DEF Packages
<1>8. from # {} => /\ two \in Packages /\ two.file = old.file
                   /\ two.manifest = IF p.manifest = {} THEN old.manifest ELSE p.manifest
  BY <1>3, <1>4 DEF Packages
<1> HIDE DEF one, two
<1>9. CASE from = {} /\ Fails(j) /\ UNCHANGED disk
  BY <1>1, <1>9, FaultStep DEF copyDir, Fails, PublicationTyped
<1>10. CASE /\ from # {} /\ job[j].pc = "copyFile"
            /\ disk' = [disk EXCEPT !["home"] = {one}] /\ GoesTo(j, "copyManifest")
  <2>1. /\ disk' \in [Sources -> SUBSET Packages] /\ \A s \in Sources : Directory(disk'[s])
        /\ disk'["home"] = {one} /\ disk'["archive"] = disk["archive"]
    <3>1. Directory({one}) /\ disk' = [disk EXCEPT !["home"] = {one}]
      BY <1>7, <1>10 DEF Directory
    <3> QED BY <1>1, <3>1, DiskReplaced
  <2>2. /\ job' \in [Jobs -> JobState] /\ OthersStay(j) /\ SameButPc(job[j], job'[j])
        /\ job'[j].pc = "copyManifest"
    BY <1>1, <1>10, JobGoes DEF JobSteps, PublicationTyped
  <2>3. PublicationTyped'
    BY <1>1, <2>1, <2>2 DEF copyDir, PublicationTyped, storeVars
  <2>4. ASSUME InOrder(j, job[j], disk, index, catalog, configs, models),
               job[j].req.kind \in {"import", "verify"}
        PROVE  PackageKept(job'[j], disk')
    <3>1. /\ job[j].req.source = "archive" /\ disk["home"] = {} /\ Loadable(disk["archive"])
          /\ job[j].want = Load(disk["archive"])
      BY <1>10, <2>4 DEF InOrder, PackageKept
    <3>2. from = disk["archive"]
      BY <3>1 DEF from
    <3>3. one = [manifest |-> {}, file |-> p.file]
      <4>1. one.manifest = {} /\ one.file = p.file
        BY <1>5, <1>7, <1>10, <3>1
      <4> QED BY <1>7, <1>10, <4>1 DEF Packages
    <3>4. p \in disk["archive"]
      BY <1>4, <1>10, <3>2
    <3> QED BY <2>1, <2>2, <3>1, <3>3, <3>4 DEF PackageKept, SameButPc, JobStays, Digested
  <2>5. ASSUME InOrder(j, job[j], disk, index, catalog, configs, models)
        PROVE  InOrder(j, job'[j], disk', index', catalog', configs', models')
    BY <2>2, <2>4, <2>5 DEF InOrder, StoreFollows, SameButPc, JobStays, Digested, Swapped, Modelled
  <2> QED BY <1>1, <2>2, <2>3, <2>5, OneJobSteps DEF copyDir
<1>11. CASE /\ from # {} /\ job[j].pc = "copyManifest"
            /\ disk' = [disk EXCEPT !["home"] = {two}]
            /\ GoesTo(j, IF job[j].req.kind = "install" THEN "done" ELSE "guard")
  <2>1. /\ disk' \in [Sources -> SUBSET Packages] /\ \A s \in Sources : Directory(disk'[s])
        /\ disk'["home"] = {two} /\ disk'["archive"] = disk["archive"]
    <3>1. Directory({two}) /\ disk' = [disk EXCEPT !["home"] = {two}]
      BY <1>8, <1>11 DEF Directory
    <3> QED BY <1>1, <3>1, DiskReplaced
  <2>2. /\ job' \in [Jobs -> JobState] /\ OthersStay(j) /\ SameButPc(job[j], job'[j])
        /\ job'[j].pc = IF job[j].req.kind = "install" THEN "done" ELSE "guard"
    BY <1>1, <1>11, JobGoes DEF JobSteps, PublicationTyped
  <2>3. PublicationTyped'
    BY <1>1, <2>1, <2>2 DEF copyDir, PublicationTyped, storeVars
  <2>4. ASSUME InOrder(j, job[j], disk, index, catalog, configs, models),
               job[j].req.kind \in {"import", "verify"}
        PROVE  PackageKept(job'[j], disk')
    <3>1. /\ job[j].req.source = "archive" /\ Loadable(disk["archive"])
          /\ job[j].want = Load(disk["archive"])
      BY <1>11, <2>4 DEF InOrder, PackageKept
    <3>2. PICK a \in disk["archive"] : disk["home"] = {[manifest |-> {}, file |-> a.file]}
      BY <1>11, <2>4 DEF InOrder, PackageKept
    <3>3. from = disk["archive"] /\ a = p /\ p \in Packages /\ from = {p}
      BY <1>4, <1>11, <3>1, <3>2 DEF from
    <3>4. old.manifest = {} /\ old.file = p.file
      BY <1>6, <3>2, <3>3
    <3>5. two = p
      <4>1. two.manifest = p.manifest /\ two.file = p.file
        BY <1>8, <1>11, <3>4
      <4> QED BY <1>8, <1>11, <3>3, <4>1 DEF Packages
    <3>6. Reads(job'[j], disk') = disk["archive"]
      BY <2>1, <2>2, <3>1, <3>3, <3>5 DEF Reads, materializeProfileReference, SameButPc, JobStays
    <3>7. job'[j].pc = "guard"
      BY <2>2, <2>4
    <3> QED BY <2>2, <3>1, <3>6, <3>7 DEF PackageKept, SameButPc, JobStays, Digested
  <2>5. ASSUME InOrder(j, job[j], disk, index, catalog, configs, models),
               job[j].req.kind \in {"import", "verify"}
        PROVE  StoreFollows(j, job'[j], index', catalog', configs', models')
    <3>1. job'[j].pc = "guard"
      BY <2>2, <2>5
    <3> QED BY <3>1 DEF StoreFollows, Digested, Swapped, Modelled
  <2>6. ASSUME InOrder(j, job[j], disk, index, catalog, configs, models)
        PROVE  InOrder(j, job'[j], disk', index', catalog', configs', models')
    BY <2>2, <2>4, <2>5, <2>6 DEF InOrder, SameButPc, JobStays
  <2> QED BY <1>1, <2>2, <2>3, <2>6, OneJobSteps DEF copyDir
<1> QED BY <1>2, <1>9, <1>10, <1>11

LEMMA GuardStep ==
  ASSUME PublicationInOrder, NEW j \in Jobs, guardProfilePublishTarget(j)
  PROVE  PublicationInOrder'
<1>1. PublicationTyped /\ job[j].pc = "guard"
  BY DEF PublicationInOrder, guardProfilePublishTarget
<1>2. CASE Fails(j)
  BY <1>1, <1>2, FaultStep DEF guardProfilePublishTarget, Fails, PublicationTyped
<1>3. CASE GoesTo(j, "load")
  <2>1. /\ job' \in [Jobs -> JobState] /\ OthersStay(j) /\ SameButPc(job[j], job'[j])
        /\ job'[j].pc = "load"
    BY <1>1, <1>3, JobGoes DEF JobSteps, PublicationTyped
  <2>2. PublicationTyped'
    BY <1>1, <2>1 DEF guardProfilePublishTarget, PublicationTyped, storeVars
  <2>3. ASSUME InOrder(j, job[j], disk, index, catalog, configs, models)
        PROVE  InOrder(j, job'[j], disk', index', catalog', configs', models')
    BY <1>1, <2>1, <2>3 DEF guardProfilePublishTarget, InOrder, PackageKept, StoreFollows, Reads,
       SameButPc, JobStays, Digested, Swapped, Modelled
  <2> QED BY <1>1, <2>1, <2>2, <2>3, OneJobSteps DEF guardProfilePublishTarget
<1> QED BY <1>2, <1>3 DEF guardProfilePublishTarget

LEMMA LoadStep ==
  ASSUME PublicationInOrder, NEW j \in Jobs, PublishLoad(j)
  PROVE  PublicationInOrder'
<1>1. /\ PublicationTyped /\ job[j].pc = "load"
      /\ DirOf(j) = Reads(job[j], disk) /\ Directory(DirOf(j))
  BY JobsAreTyped DEF PublicationInOrder, PublishLoad
<1>2. CASE Fails(j)
  BY <1>1, <1>2, FaultStep DEF PublishLoad, Fails, PublicationTyped
<1>3. CASE Loadable(DirOf(j)) /\ job' = [job EXCEPT ![j].pc = "digest", ![j].bundle = Load(DirOf(j))]
  <2>1. Load(DirOf(j)) \in Nat
    BY <1>1, <1>3, LoadsAVersion
  <2>2. /\ job' \in [Jobs -> JobState] /\ OthersStay(j) /\ JobStays(job[j], job'[j])
        /\ job'[j].pc = "digest" /\ job'[j].bundle = Load(DirOf(j))
    BY <1>1, <1>3, <2>1, JobTakesBundle DEF JobSteps, PublicationTyped
  <2>3. PublicationTyped'
    BY <1>1, <2>2 DEF PublishLoad, PublicationTyped, storeVars
  <2>4. ASSUME InOrder(j, job[j], disk, index, catalog, configs, models)
        PROVE  InOrder(j, job'[j], disk', index', catalog', configs', models')
    BY <1>1, <1>3, <2>2, <2>4 DEF InOrder, PackageKept, StoreFollows, JobStays, Digested, Swapped,
       Modelled
  <2> QED BY <1>1, <2>2, <2>3, <2>4, OneJobSteps DEF PublishLoad
<1> QED BY <1>2, <1>3 DEF PublishLoad

LEMMA DigestStep ==
  ASSUME PublicationInOrder, NEW j \in Jobs, PublishDigest(j)
  PROVE  PublicationInOrder'
<1>1. /\ PublicationTyped /\ job[j].pc = "digest"
      /\ DirOf(j) = Reads(job[j], disk) /\ DirOf(j) \in SUBSET Packages
  BY JobsAreTyped DEF PublicationInOrder, PublishDigest, Directory
<1>2. CASE Fails(j)
  BY <1>1, <1>2, FaultStep DEF PublishDigest, Fails, PublicationTyped
<1> DEFINE a == Cardinality({i \in Jobs : job[i].at > 0}) + 1
<1>3. CASE job' = [job EXCEPT ![j].pc = "index", ![j].digest = DirOf(j), ![j].at = a]
  <2>1. a \in Moments
    BY DEF Moments
  <2> HIDE DEF a
  <2>2. /\ job' \in [Jobs -> JobState] /\ OthersStay(j) /\ JobStays(job[j], job'[j])
        /\ job'[j].pc = "index" /\ job'[j].digest = DirOf(j) /\ job'[j].bundle = job[j].bundle
    BY <1>1, <1>3, <2>1, JobTakesDigest DEF JobSteps, PublicationTyped
  <2>3. PublicationTyped'
    BY <1>1, <2>2 DEF PublishDigest, PublicationTyped, storeVars
  <2>4. Reads(job'[j], disk) = DirOf(j) /\ disk' = disk
    BY <1>1, <2>2 DEF Reads, JobStays, PublishDigest
  <2>5. ASSUME InOrder(j, job[j], disk, index, catalog, configs, models)
        PROVE  InOrder(j, job'[j], disk', index', catalog', configs', models')
    BY <1>1, <2>2, <2>4, <2>5 DEF InOrder, PackageKept, StoreFollows, JobStays, Digested, Swapped,
       Modelled
  <2> QED BY <1>1, <2>2, <2>3, <2>5, OneJobSteps DEF PublishDigest
<1> QED BY <1>2, <1>3 DEF PublishDigest, BundleDigest

LEMMA IndexStep ==
  ASSUME PublicationInOrder, NEW j \in Jobs, UpsertProfileIndex(j)
  PROVE  PublicationInOrder'
<1>1. /\ PublicationTyped /\ job[j].pc = "index" /\ job[j] \in JobState
      /\ IdOf(j) = Profile(job[j]) /\ IdOf(j) \in Profiles
  BY JobsAreTyped DEF PublicationInOrder, UpsertProfileIndex
<1>2. index' \in [Profiles -> SUBSET Packages] /\ index'[IdOf(j)] = job[j].digest
  BY <1>1 DEF UpsertProfileIndex, PublicationTyped, JobState
<1>3. /\ job' \in [Jobs -> JobState] /\ OthersStay(j) /\ SameButPc(job[j], job'[j])
      /\ job'[j].pc = "previous"
  BY <1>1, JobGoes DEF UpsertProfileIndex, JobSteps, PublicationTyped
<1>4. PublicationTyped'
  BY <1>1, <1>2, <1>3 DEF UpsertProfileIndex, PublicationTyped
<1>5. ASSUME InOrder(j, job[j], disk, index, catalog, configs, models)
      PROVE  InOrder(j, job'[j], disk', index', catalog', configs', models')
  <2>1. Profile(job'[j]) = IdOf(j) /\ Reads(job'[j], disk) = Reads(job[j], disk) /\ disk' = disk
    BY <1>1, <1>3 DEF Profile, Reads, SameButPc, JobStays, UpsertProfileIndex
  <2> QED BY <1>1, <1>2, <1>3, <1>5, <2>1 DEF InOrder, PackageKept, StoreFollows, SameButPc, JobStays,
         Digested, Swapped, Modelled
<1> QED BY <1>1, <1>3, <1>4, <1>5, OneJobSteps DEF UpsertProfileIndex

LEMMA FetchStep ==
  ASSUME PublicationInOrder, NEW j \in Jobs, GetProfileCatalogByID(j)
  PROVE  PublicationInOrder'
<1>1. PublicationTyped /\ job[j].pc = "fetch" /\ IdOf(j) \in Profiles
  BY JobsAreTyped DEF PublicationInOrder, GetProfileCatalogByID
<1>2. CASE Fails(j)
  BY <1>1, <1>2, FaultStep DEF GetProfileCatalogByID, Fails, PublicationTyped
<1> DEFINE b == CHOOSE v \in catalog.of[IdOf(j)] : TRUE
<1>3. CASE /\ catalog.of[IdOf(j)] # {}
           /\ job' = [job EXCEPT ![j].pc = "previous", ![j].bundle = b]
  <2>1. b \in Nat
    BY <1>1, <1>3 DEF PublicationTyped, CatalogState
  <2> HIDE DEF b
  <2>2. job' \in [Jobs -> JobState] /\ OthersStay(j) /\ JobStays(job[j], job'[j])
    BY <1>1, <1>3, <2>1, JobTakesBundle DEF JobSteps, PublicationTyped
  <2>3. PublicationTyped'
    BY <1>1, <2>2 DEF GetProfileCatalogByID, PublicationTyped, storeVars
  <2> QED BY <1>1, <2>2, <2>3, OtherKindsInOrder, OneJobSteps DEF GetProfileCatalogByID, JobStays
<1> QED BY <1>2, <1>3 DEF GetProfileCatalogByID

LEMMA RevisionStep ==
  ASSUME PublicationInOrder, NEW j \in Jobs, ReadRevision(j)
  PROVE  PublicationInOrder'
<1>1. PublicationTyped /\ job[j].pc = "previous" /\ catalog.rev[IdOf(j)] \in Nat
  <2>1. PublicationTyped /\ job[j].pc = "previous" /\ IdOf(j) \in Profiles
    BY JobsAreTyped DEF PublicationInOrder, ReadRevision
  <2> QED BY <2>1 DEF PublicationTyped, CatalogState
<1>2. /\ job' \in [Jobs -> JobState] /\ OthersStay(j) /\ SameButPc(job[j], job'[j])
      /\ job'[j].pc = "replace"
  BY <1>1, JobReadsRevision DEF ReadRevision, JobSteps, PublicationTyped
<1>3. PublicationTyped'
  BY <1>1, <1>2 DEF ReadRevision, PublicationTyped, storeVars
<1>4. ASSUME InOrder(j, job[j], disk, index, catalog, configs, models)
      PROVE  InOrder(j, job'[j], disk', index', catalog', configs', models')
  <2>1. Profile(job'[j]) = Profile(job[j]) /\ Reads(job'[j], disk) = Reads(job[j], disk)
    BY <1>2 DEF Profile, Reads, SameButPc, JobStays
  <2> QED BY <1>1, <1>2, <1>4, <2>1 DEF ReadRevision, storeVars, InOrder, PackageKept, StoreFollows,
         SameButPc, JobStays, Digested, Swapped, Modelled
<1> QED BY <1>1, <1>2, <1>3, <1>4, OneJobSteps DEF ReadRevision

LEMMA SwapStep ==
  ASSUME PublicationInOrder, NEW j \in Jobs, SwapCatalog(j)
  PROVE  PublicationInOrder'
<1>1. /\ PublicationTyped /\ job[j].pc = "replace" /\ job[j] \in JobState
      /\ IdOf(j) = Profile(job[j]) /\ IdOf(j) \in Profiles
  BY JobsAreTyped DEF PublicationInOrder, SwapCatalog
<1>2. CASE Fails(j) /\ UNCHANGED catalog
  BY <1>1, <1>2, FaultStep DEF SwapCatalog, Fails, PublicationTyped, storeVars
<1> DEFINE of == [catalog.of EXCEPT ![IdOf(j)] = {job[j].bundle}]
           rev == IF catalog.of[IdOf(j)] = {job[j].bundle} THEN catalog.rev
                  ELSE [catalog.rev EXCEPT ![IdOf(j)] = @ + 1]
           next == IF job[j].req.kind = "restore" THEN "activate" ELSE "reset"
<1>3. CASE /\ catalog' = [profile |-> {IdOf(j)}, rev |-> rev, of |-> of]
           /\ GoesTo(j, next)
  <2>1. of \in [Profiles -> SUBSET Nat] /\ of[IdOf(j)] = {job[j].bundle} /\ rev \in [Profiles -> Nat]
    BY <1>1 DEF PublicationTyped, CatalogState, JobState
  <2> HIDE DEF of, rev
  <2>2. /\ catalog' \in CatalogState /\ catalog'.profile = {IdOf(j)}
        /\ catalog'.of[IdOf(j)] = {job[j].bundle}
    BY <1>1, <1>3, <2>1 DEF CatalogState
  <2>3. /\ job' \in [Jobs -> JobState] /\ OthersStay(j) /\ SameButPc(job[j], job'[j])
        /\ job'[j].pc = next
    BY <1>1, <1>3, JobGoes DEF JobSteps, PublicationTyped
  <2>4. PublicationTyped'
    BY <1>1, <2>2, <2>3 DEF SwapCatalog, PublicationTyped
  <2>5. ASSUME InOrder(j, job[j], disk, index, catalog, configs, models),
               job[j].req.kind \in {"import", "verify"}
        PROVE  InOrder(j, job'[j], disk', index', catalog', configs', models')
    <3>1. job'[j].pc = "reset"
      BY <2>3, <2>5
    <3>2. Profile(job'[j]) = IdOf(j) /\ Reads(job'[j], disk) = Reads(job[j], disk)
      BY <1>1, <2>3 DEF Profile, Reads, SameButPc, JobStays
    <3>3. UNCHANGED <<disk, index, configs, models>>
      BY DEF SwapCatalog
    <3>4. PackageKept(job'[j], disk') /\ job[j].bundle = job[j].want
      BY <1>1, <2>3, <2>5, <3>1, <3>2, <3>3 DEF InOrder, PackageKept, SameButPc, JobStays, Digested
    <3>5. StoreFollows(j, job'[j], index', catalog', configs', models')
      BY <1>1, <2>2, <2>3, <2>5, <3>1, <3>2, <3>3, <3>4 DEF InOrder, StoreFollows, SameButPc,
         JobStays, Digested, Swapped, Modelled
    <3> QED BY <3>1, <3>4, <3>5 DEF InOrder
  <2>6. ASSUME InOrder(j, job[j], disk, index, catalog, configs, models)
        PROVE  InOrder(j, job'[j], disk', index', catalog', configs', models')
    BY <2>3, <2>5, <2>6 DEF InOrder, SameButPc, JobStays
  <2> QED BY <1>1, <2>3, <2>4, <2>6, OneJobSteps DEF SwapCatalog
<1> QED BY <1>2, <1>3 DEF SwapCatalog

LEMMA ResetStep ==
  ASSUME PublicationInOrder, NEW j \in Jobs, ResetActive(j)
  PROVE  PublicationInOrder'
<1>1. PublicationTyped /\ job[j].pc = "reset"
  BY DEF PublicationInOrder, ResetActive
<1>2. configs' \in SUBSET ConfigRow /\ \A e \in configs' : ~e.active
  <2>1. ASSUME NEW e \in configs' PROVE e \in ConfigRow /\ ~e.active
    <3>1. PICK c \in configs : e = [c EXCEPT !.active = FALSE]
      BY <2>1 DEF ResetActive
    <3>2. c \in ConfigRow
      BY <1>1 DEF PublicationTyped
    <3>3. e \in ConfigRow /\ e.active = FALSE
      BY <3>1, <3>2 DEF ConfigRow
    <3> QED BY <3>3
  <2> QED BY <2>1
<1>3. /\ job' \in [Jobs -> JobState] /\ OthersStay(j) /\ SameButPc(job[j], job'[j])
      /\ job'[j].pc = "insert"
  BY <1>1, JobGoes DEF ResetActive, JobSteps, PublicationTyped
<1>4. PublicationTyped'
  BY <1>1, <1>2, <1>3 DEF ResetActive, PublicationTyped
<1>5. ASSUME InOrder(j, job[j], disk, index, catalog, configs, models)
      PROVE  InOrder(j, job'[j], disk', index', catalog', configs', models')
  <2>1. Profile(job'[j]) = Profile(job[j]) /\ Reads(job'[j], disk) = Reads(job[j], disk)
    BY <1>3 DEF Profile, Reads, SameButPc, JobStays
  <2>2. UNCHANGED <<disk, index, catalog, models>>
    BY DEF ResetActive
  <2> QED BY <1>1, <1>2, <1>3, <1>5, <2>1, <2>2 DEF InOrder, PackageKept, StoreFollows, SameButPc,
         JobStays, Digested, Swapped, Modelled
<1> QED BY <1>1, <1>3, <1>4, <1>5, OneJobSteps DEF ResetActive

LEMMA InsertStep ==
  ASSUME PublicationInOrder, NEW j \in Jobs, InsertConfigVersion(j)
  PROVE  PublicationInOrder'
<1>1. /\ PublicationTyped /\ job[j].pc = "insert"
      /\ ConfigVersion(j) = ItsVersion(j, job[j]) /\ ConfigVersion(j) \in ConfigRow
  BY JobsAreTyped DEF PublicationInOrder, InsertConfigVersion
<1>2. configs' = configs \cup {ConfigVersion(j)} /\ configs' \in SUBSET ConfigRow
  BY <1>1 DEF InsertConfigVersion, PublicationTyped
<1>3. /\ job' \in [Jobs -> JobState] /\ OthersStay(j) /\ SameButTodo(job[j], job'[j])
      /\ job'[j].pc = "models" /\ job'[j].todo = ModelKeys
  BY <1>1, JobTakesTodo DEF InsertConfigVersion, JobSteps, PublicationTyped
<1>4. PublicationTyped'
  BY <1>1, <1>2, <1>3 DEF InsertConfigVersion, PublicationTyped
<1>5. ASSUME InOrder(j, job[j], disk, index, catalog, configs, models)
      PROVE  InOrder(j, job'[j], disk', index', catalog', configs', models')
  <2>1. Profile(job'[j]) = Profile(job[j]) /\ Reads(job'[j], disk) = Reads(job[j], disk)
    BY <1>3 DEF Profile, Reads, SameButTodo, JobStays
  <2>2. ItsVersion(j, job'[j]) = ConfigVersion(j) /\ ConfigVersion(j).active
    BY <1>1, <1>3, <2>1 DEF ItsVersion, SameButTodo
  <2>3. UNCHANGED <<disk, index, catalog, models>>
    BY DEF InsertConfigVersion
  <2>4. job[j].req.kind \in {"import", "verify"} => {e \in configs' : e.active} = {ConfigVersion(j)}
    BY <1>1, <1>2, <1>5, <2>2 DEF InOrder, StoreFollows
  <2>5. PackageKept(job[j], disk) => PackageKept(job'[j], disk')
    BY <1>1, <1>3, <2>1, <2>3 DEF PackageKept, SameButTodo, JobStays, Digested
  <2> QED BY <1>1, <1>3, <1>5, <2>1, <2>2, <2>3, <2>4, <2>5 DEF InOrder, StoreFollows,
         SameButTodo, JobStays, Digested, Swapped, Modelled
<1> QED BY <1>1, <1>3, <1>4, <1>5, OneJobSteps DEF InsertConfigVersion

LEMMA ActivateStep ==
  ASSUME PublicationInOrder, NEW j \in Jobs, ActivateLatestConfigVersion(j)
  PROVE  PublicationInOrder'
<1> DEFINE latest == Newest({c \in configs : c.profile = IdOf(j)})
<1>1. PublicationTyped /\ job[j].pc = "activate"
  BY DEF PublicationInOrder, ActivateLatestConfigVersion
<1>2. configs' = configs \/ configs' = {[c EXCEPT !.active = c \in latest] : c \in configs}
  BY DEF ActivateLatestConfigVersion
<1> HIDE DEF latest
<1>3. ASSUME NEW c \in configs PROVE [c EXCEPT !.active = c \in latest] \in ConfigRow
  <2>1. c \in ConfigRow /\ (c \in latest) \in BOOLEAN
    BY <1>1 DEF PublicationTyped
  <2> QED BY <2>1 DEF ConfigRow
<1>4. configs' \in SUBSET ConfigRow
  BY <1>1, <1>2, <1>3 DEF PublicationTyped
<1>5. job' \in [Jobs -> JobState] /\ OthersStay(j) /\ SameButPc(job[j], job'[j])
  BY <1>1, JobGoes DEF ActivateLatestConfigVersion, JobSteps, PublicationTyped
<1>6. PublicationTyped'
  BY <1>1, <1>4, <1>5 DEF ActivateLatestConfigVersion, PublicationTyped
<1> QED BY <1>1, <1>5, <1>6, OtherKindsInOrder, OneJobSteps
    DEF ActivateLatestConfigVersion, SameButPc, JobStays

LEMMA ReadModelStep ==
  ASSUME PublicationInOrder, NEW j \in Jobs, NEW k \in ModelKeys, UpsertReadModel(j, k)
  PROVE  PublicationInOrder'
<1> DEFINE pc == IF job[j].todo = {k} THEN "published" ELSE job[j].pc
           d == job[j].todo \ {k}
<1>1. /\ PublicationTyped /\ job[j].pc = "models" /\ job[j] \in JobState
      /\ IdOf(j) = Profile(job[j]) /\ IdOf(j) \in Profiles /\ k \in job[j].todo
  BY JobsAreTyped DEF PublicationInOrder, UpsertReadModel
<1>2. /\ models' \in [Profiles -> [ModelKeys -> SUBSET Jobs]]
      /\ \A q \in ModelKeys : models'[IdOf(j)][q] = IF q = k THEN {j} ELSE models[IdOf(j)][q]
  BY <1>1 DEF UpsertReadModel, PublicationTyped
<1>3. d \in SUBSET (ModelKeys \cup Checks) /\ pc \in JobSteps
  BY <1>1 DEF JobState, JobSteps
<1>4. job' = [job EXCEPT ![j].todo = d, ![j].pc = pc]
  BY DEF UpsertReadModel
<1> HIDE DEF pc, d
<1>5. /\ job' \in [Jobs -> JobState] /\ OthersStay(j) /\ SameButTodo(job[j], job'[j])
      /\ job'[j].pc = pc /\ job'[j].todo = d
  BY <1>1, <1>3, <1>4, JobTakesTodo DEF PublicationTyped
<1>6. PublicationTyped'
  BY <1>1, <1>2, <1>5 DEF UpsertReadModel, PublicationTyped
<1>7. ASSUME InOrder(j, job[j], disk, index, catalog, configs, models)
      PROVE  InOrder(j, job'[j], disk', index', catalog', configs', models')
  <2>1. Profile(job'[j]) = IdOf(j) /\ Reads(job'[j], disk) = Reads(job[j], disk)
    BY <1>1, <1>5 DEF Profile, Reads, SameButTodo, JobStays
  <2>2. ItsVersion(j, job'[j]) = ItsVersion(j, job[j])
    BY <1>1, <1>5, <2>1 DEF ItsVersion, SameButTodo
  <2>3. UNCHANGED <<disk, index, catalog, configs>>
    BY DEF UpsertReadModel
  <2>4. PackageKept(job[j], disk) => PackageKept(job'[j], disk')
    BY <1>1, <1>5, <2>1, <2>3 DEF PackageKept, SameButTodo, JobStays, Digested, pc
  <2>5. CASE job[j].todo = {k}
    <3>1. pc = "published"
      BY <2>5 DEF pc
    <3> QED BY <1>1, <1>2, <1>5, <1>7, <2>1, <2>2, <2>3, <2>4, <2>5, <3>1 DEF InOrder, StoreFollows,
         SameButTodo, JobStays, Digested, Swapped, Modelled
  <2>6. CASE job[j].todo # {k}
    <3>1. pc = "models" /\ d = job[j].todo \ {k}
      BY <1>1, <2>6 DEF pc, d
    <3> QED BY <1>1, <1>2, <1>5, <1>7, <2>1, <2>2, <2>3, <2>4, <3>1 DEF InOrder, StoreFollows,
         SameButTodo, JobStays, Digested, Swapped, Modelled
  <2> QED BY <2>5, <2>6
<1> QED BY <1>1, <1>5, <1>6, <1>7, OneJobSteps DEF UpsertReadModel

(* Reading back and checking change nothing in the Store.                   *)
LEMMA ReadsBack ==
  ASSUME PublicationInOrder, NEW j \in Jobs, job[j].pc \in {"published", "checks"},
         job' \in [Jobs -> JobState], OthersStay(j), SameButTodo(job[j], job'[j]),
         job'[j].pc \in {"checks", "done", "failed"},
         UNCHANGED <<disk, storeVars, alone, edits, faults>>
  PROVE  PublicationInOrder'
<1>1. PublicationTyped'
  BY DEF PublicationInOrder, PublicationTyped, storeVars
<1>2. ASSUME InOrder(j, job[j], disk, index, catalog, configs, models)
      PROVE  InOrder(j, job'[j], disk', index', catalog', configs', models')
  <2>1. Profile(job'[j]) = Profile(job[j]) /\ Reads(job'[j], disk) = Reads(job[j], disk)
    BY DEF Profile, Reads, SameButTodo, JobStays
  <2>2. ItsVersion(j, job'[j]) = ItsVersion(j, job[j])
    BY <2>1 DEF ItsVersion, SameButTodo
  <2>3. UNCHANGED <<disk, index, catalog, configs, models>>
    BY DEF storeVars
  <2>4. PackageKept(job[j], disk) => PackageKept(job'[j], disk')
    BY <2>1, <2>3 DEF PackageKept, SameButTodo, JobStays, Digested
  <2>5. StoreFollows(j, job[j], index, catalog, configs, models)
        => StoreFollows(j, job'[j], index', catalog', configs', models')
    BY <2>1, <2>2, <2>3 DEF StoreFollows, SameButTodo, JobStays, Digested, Swapped, Modelled
  <2> QED BY <1>2, <2>4, <2>5 DEF InOrder, SameButTodo, JobStays
<1> QED BY <1>1, <1>2, OneJobSteps

LEMMA PublishedStep ==
  ASSUME PublicationInOrder, NEW j \in Jobs, Published(j)
  PROVE  PublicationInOrder'
<1>1. job \in [Jobs -> JobState] /\ job[j].pc = "published"
  BY DEF PublicationInOrder, PublicationTyped, Published
<1>2. CASE job' = [job EXCEPT ![j].pc = "checks", ![j].todo = Checks, ![j].ok = TRUE]
  <2>1. "checks" \in JobSteps /\ Checks \in SUBSET (ModelKeys \cup Checks) /\ TRUE \in BOOLEAN
    BY DEF JobSteps
  <2>2. /\ job' \in [Jobs -> JobState] /\ OthersStay(j) /\ SameButTodo(job[j], job'[j])
        /\ job'[j].pc = "checks"
    BY <1>1, <1>2, <2>1, JobChecks
  <2> QED BY <1>1, <2>2, ReadsBack DEF Published
<1>3. CASE GoesTo(j, "done")
  <2>1. /\ job' \in [Jobs -> JobState] /\ OthersStay(j) /\ SameButTodo(job[j], job'[j])
        /\ job'[j].pc = "done"
    BY <1>1, <1>3, JobGoes DEF JobSteps, SameButTodo, SameButPc
  <2> QED BY <1>1, <2>1, ReadsBack DEF Published
<1> QED BY <1>2, <1>3 DEF Published

LEMMA ChecksStep ==
  ASSUME PublicationInOrder, NEW j \in Jobs, PublishedChecks(j)
  PROVE  PublicationInOrder'
<1>1. job \in [Jobs -> JobState] /\ job[j].pc = "checks" /\ job[j].todo \in SUBSET (ModelKeys \cup Checks)
  BY DEF PublicationInOrder, PublicationTyped, PublishedChecks, JobState
<1>2. CASE job[j].todo = {}
  <2> DEFINE pc == IF job[j].ok THEN "done" ELSE "failed"
  <2>1. GoesTo(j, pc) /\ pc \in {"done", "failed"}
    BY <1>2 DEF PublishedChecks
  <2> HIDE DEF pc
  <2>2. /\ job' \in [Jobs -> JobState] /\ OthersStay(j) /\ SameButTodo(job[j], job'[j])
        /\ job'[j].pc = pc
    BY <1>1, <2>1, JobGoes DEF JobSteps, SameButTodo, SameButPc
  <2> QED BY <1>1, <2>1, <2>2, ReadsBack DEF PublishedChecks
<1>3. CASE job[j].todo # {}
  <2> DEFINE c == CHOOSE x \in job[j].todo : \A y \in job[j].todo : Order(x) <= Order(y)
             d == job[j].todo \ {c}
             o == job[j].ok /\ CheckHolds(j, c)
  <2>1. job' = [job EXCEPT ![j].todo = d, ![j].ok = o]
    BY <1>3 DEF PublishedChecks
  <2> HIDE DEF c
  <2>2. d \in SUBSET (ModelKeys \cup Checks)
    BY <1>1
  <2>3. o \in BOOLEAN
    OBVIOUS
  <2> HIDE DEF d, o
  <2>4. /\ job' \in [Jobs -> JobState] /\ OthersStay(j) /\ SameButTodo(job[j], job'[j])
        /\ job'[j].pc = "checks"
    BY <1>1, <2>1, <2>2, <2>3, JobChecks DEF JobSteps
  <2> QED BY <1>1, <2>4, ReadsBack DEF PublishedChecks
<1> QED BY <1>2, <1>3

LEMMA InOrderStays ==
  ASSUME PublicationInOrder, [PublicationNext]_publicationVars
  PROVE  PublicationInOrder'
<1>1. CASE UNCHANGED publicationVars
  BY <1>1 DEF publicationVars, PublicationInOrder, PublicationTyped
<1>2. ASSUME NEW j \in Jobs, Fault(j) PROVE PublicationInOrder'
  <2>1. job[j].pc \notin {"idle", "done", "failed"} /\ faults + 1 \in Nat
    BY <1>2 DEF Fault, InFlight, PublicationInOrder, PublicationTyped
  <2> QED BY <1>2, <2>1, FaultStep DEF Fault, Fails
<1>3. CASE PublicationNext
  BY <1>2, <1>3, EditStep, BeginStep, PackStep, InstallStep, CopyStep, ExportStep, GuardStep, LoadStep,
     DigestStep, IndexStep, FetchStep, RevisionStep, SwapStep, ResetStep, InsertStep, ActivateStep,
     ReadModelStep, PublishedStep, ChecksStep DEF PublicationNext
<1> QED BY <1>1, <1>3

(* The state of the packages, the Store and the jobs keeps its types, and   *)
(* an import or a verify that nothing interferes with has the package it    *)
(* was given in its hands and, step by step, in the Store.                  *)
THEOREM PublicationsInOrder ==
  PublicationSpec => []PublicationInOrder
<1>1. PublicationInit => PublicationInOrder
  BY InOrderAtFirst
<1>2. PublicationInOrder /\ [PublicationNext]_publicationVars => PublicationInOrder'
  BY InOrderStays
<1> QED BY <1>1, <1>2, PTL DEF PublicationSpec

(* An import or a verify that reported success, with nothing interfering,   *)
(* left index, catalog, read models and the one active config version its   *)
(* own, and the case of the package it was given in the catalog.            *)
THEOREM PublicationsAreWhole ==
  PublicationSpec => []CompletedPublicationIsWhole
<1>1. PublicationInOrder => CompletedPublicationIsWhole
  <2> SUFFICES ASSUME PublicationInOrder, NEW j \in alone, job[j].pc = "done",
                      job[j].req.kind \in {"import", "verify"}
               PROVE  /\ catalog.profile = {IdOf(j)} /\ catalog.of[IdOf(j)] = {job[j].want}
                      /\ index[IdOf(j)] = job[j].digest /\ job[j].digest = DirOf(j)
                      /\ {c \in configs : c.active} = {ConfigVersion(j)}
                      /\ \A k \in ModelKeys : models[IdOf(j)][k] = {j}
    BY DEF CompletedPublicationIsWhole
  <2>1. j \in Jobs /\ PublicationTyped
    BY DEF PublicationInOrder, PublicationTyped
  <2>2. /\ IdOf(j) = Profile(job[j]) /\ DirOf(j) = Reads(job[j], disk)
        /\ ConfigVersion(j) = ItsVersion(j, job[j])
    BY <2>1, JobsAreTyped
  <2>3. PackageKept(job[j], disk) /\ StoreFollows(j, job[j], index, catalog, configs, models)
    BY DEF PublicationInOrder, InOrder
  <2> QED BY <2>2, <2>3 DEF PackageKept, StoreFollows, Digested, Swapped, Modelled
<1> QED BY <1>1, PublicationsInOrder, PTL

-----------------------------------------------------------------------------
(* The drafts of a desktop (DesktopWorkspace)                               *)

RecordContent == Contents \cup {0}
CatalogRecord ==
  [shown : RecordContent, secret : RecordContent, login : BOOLEAN, own : BOOLEAN]
InterfaceNode == [service : RecordContent, shape : RecordContent]
Snapshot == [store : Nat, rev : Nat, of : [Items -> CatalogRecord], node : [Nodes -> InterfaceNode]]
Views == [shown : RecordContent, service : RecordContent, derived : SUBSET RecordContent]
ETag == Nat \X Nat

(* Two copies with the same records and interfaces.                         *)
Alike(n, h) == n.of = h.of /\ n.node = h.node

(* A copy of the catalog somebody holds while h is the catalog: not newer,  *)
(* and the same one when the ETag is the same.                              *)
Seen(n, h) ==
  /\ n \in Snapshot /\ n.store <= h.store /\ n.rev <= h.rev
  /\ caseCatalogETag(n) = caseCatalogETag(h) => Alike(n, h)

(* The ETag is of no later catalog.                                         *)
Past(etag, h) == etag \in ETag /\ etag[1] <= h.store /\ etag[2] <= h.rev

(* The view somebody holds of record i under an ETag: right while the ETag is.*)
Knows(etag, view, i, h) ==
  Past(etag, h) /\ (etag = caseCatalogETag(h) => View(h, i) = view)

(* The whole catalog somebody holds under an ETag.                          *)
KnowsAll(etag, n, h) ==
  Past(etag, h) /\ n \in Snapshot /\ (etag = caseCatalogETag(h) => Alike(n, h))

(* A step of the catalog: what was read before it is old for good.          *)
Advances(h, n) ==
  /\ n \in Snapshot /\ h.store <= n.store /\ h.rev <= n.rev
  /\ h.store < n.store \/ h.rev < n.rev

WorkSeen(w, h) == w \in [RecordKinds -> Snapshot] /\ \A k \in RecordKinds : Seen(w[k], h)
PartsSeen(l, h) ==
  l \in [RecordKinds -> SUBSET Snapshot] /\ \A k \in RecordKinds : \A n \in l[k] : Seen(n, h)
LoadSeen(l, h) == DOMAIN l = Slots /\ \A s \in Slots : \A p \in l[s] : PartsSeen(p, h)

Draft == [text : RecordContent, secret : RecordContent, service : RecordContent,
          dirty : BOOLEAN, etag : ETag, base : Views]
DraftKnown(d, i, h) == d \in Draft /\ (i \in Drafted => Knows(d.etag, d.base, i, h))
DraftsKnown(d, h) == DOMAIN d = Items /\ \A i \in Items : \A x \in d[i] : DraftKnown(x, i, h)

Save == [text : RecordContent, secret : RecordContent, service : RecordContent, base : Views,
         step : {"sent", "ok", "refused"}, answer : SUBSET Snapshot, etag : ETag]
SaveKnown(s, i, h) ==
  /\ s \in Save /\ (i \in Drafted => Knows(s.etag, s.base, i, h))
  /\ (\A n \in s.answer : Seen(n, h)) /\ (s.step = "ok" => s.answer # {})
SavesKnown(v, h) ==
  /\ DOMAIN v = Items
  /\ \A i \in Items : (\A s \in v[i] : SaveKnown(s, i, h)) /\ \A s, t \in v[i] : s = t

Import == [left : SUBSET Drafted, etag : ETag, shown : Snapshot]
ImportKnown(m, h) == m \in Import /\ KnowsAll(m.etag, m.shown, h)
ImportsKnown(v, h) == (\A m \in v : ImportKnown(m, h)) /\ \A m, n \in v : m = n

(* Whatever the desktop holds of the catalog is, under its ETag, true.      *)
WorkspaceIsPast ==
  /\ head \in Snapshot /\ WorkSeen(work, head) /\ Seen(library, head)
  /\ LoadSeen(load, head) /\ DraftsKnown(draft, head)
  /\ SavesKnown(saving, head) /\ ImportsKnown(importing, head)

(* What a copy shows.                                                       *)
LEMMA ViewOf ==
  ASSUME NEW h \in Snapshot, NEW i \in Items
  PROVE  /\ View(h, i) \in Views /\ Hidden \in Views
         /\ h.of[i] \in CatalogRecord /\ h.node[NodeOf[i]] \in InterfaceNode
         /\ \A n : Alike(n, h) => View(n, i) = View(h, i)
<1> DEFINE r == h.of[i]
           d == h.node[NodeOf[i]]
<1>1. r \in CatalogRecord
  BY DEF Snapshot
<1>2. d \in InterfaceNode
  BY WorkspaceAssumption DEF Snapshot
<1>3. Hidden \in Views
  BY DEF Hidden, Views, RecordContent
<1>4. View(h, i) = IF r.shown = 0 THEN Hidden
                   ELSE [shown |-> r.shown, service |-> d.service,
                         derived |-> IF r.own THEN {} ELSE {d.shape}]
  BY DEF View
<1>5. \A n : Alike(n, h) => View(n, i) = View(h, i)
  BY DEF Alike, View
<1> HIDE DEF r, d
<1>6. View(h, i) \in Views
  BY <1>1, <1>2, <1>3, <1>4 DEF CatalogRecord, InterfaceNode, Views
<1> QED BY <1>1, <1>2, <1>3, <1>5, <1>6 DEF r, d

LEMMA SeenStays ==
  ASSUME NEW h \in Snapshot, NEW n, Advances(h, n) \/ n = h
  PROVE  /\ n \in Snapshot
         /\ \A x : Seen(x, h) => Seen(x, n)
         /\ \A e, c, i : Knows(e, c, i, h) => Knows(e, c, i, n)
         /\ \A e, c : KnowsAll(e, c, h) => KnowsAll(e, c, n)
<1>1. CASE n = h
  BY <1>1
<1>2. CASE Advances(h, n)
  <2>1. ASSUME NEW x, Seen(x, h) PROVE Seen(x, n)
    BY <1>2, <2>1 DEF Advances, Seen, Snapshot, caseCatalogETag
  <2>2. ASSUME NEW e, Past(e, h) PROVE Past(e, n) /\ e # caseCatalogETag(n)
    <3>1. PICK a \in Nat, b \in Nat : e = <<a, b>>
      BY <2>2 DEF Past, ETag
    <3> QED BY <1>2, <2>2, <3>1 DEF Advances, Past, Snapshot, caseCatalogETag
  <2>3. \A e, c, i : Knows(e, c, i, h) => Knows(e, c, i, n)
    BY <2>2 DEF Knows
  <2>4. \A e, c : KnowsAll(e, c, h) => KnowsAll(e, c, n)
    BY <2>2 DEF KnowsAll
  <2> QED BY <1>2, <2>1, <2>3, <2>4 DEF Advances
<1> QED BY <1>1, <1>2

LEMMA SeenKnows ==
  ASSUME NEW h \in Snapshot
  PROVE  /\ Seen(h, h) /\ caseCatalogETag(h) \in ETag /\ KnowsAll(caseCatalogETag(h), h, h)
         /\ \A n : Seen(n, h) => /\ caseCatalogETag(n) \in ETag
                                 /\ KnowsAll(caseCatalogETag(n), n, h)
                                 /\ \A i \in Items : Knows(caseCatalogETag(n), View(n, i), i, h)
<1>1. Seen(h, h) /\ caseCatalogETag(h) \in ETag
  BY DEF Seen, Alike, Snapshot, caseCatalogETag, ETag
<1>2. ASSUME NEW n, Seen(n, h)
      PROVE  caseCatalogETag(n) \in ETag /\ KnowsAll(caseCatalogETag(n), n, h)
  BY <1>2 DEF Seen, KnowsAll, Past, Snapshot, caseCatalogETag, ETag
<1>3. ASSUME NEW n, Seen(n, h), NEW i \in Items
      PROVE  Knows(caseCatalogETag(n), View(n, i), i, h)
  <2>1. KnowsAll(caseCatalogETag(n), n, h)
    BY <1>2, <1>3
  <2>2. Alike(n, h) => View(h, i) = View(n, i)
    BY ViewOf
  <2> QED BY <2>1, <2>2 DEF KnowsAll, Knows
<1> QED BY <1>1, <1>2, <1>3

(* All that is held stays true when the catalog advances.                   *)
LEMMA PastStays ==
  ASSUME NEW h \in Snapshot, NEW n, Advances(h, n) \/ n = h
  PROVE  /\ \A w : WorkSeen(w, h) => WorkSeen(w, n)
         /\ \A l : LoadSeen(l, h) => LoadSeen(l, n)
         /\ \A d : DraftsKnown(d, h) => DraftsKnown(d, n)
         /\ \A v : SavesKnown(v, h) => SavesKnown(v, n)
         /\ \A v : ImportsKnown(v, h) => ImportsKnown(v, n)
<1>1. \A x : Seen(x, h) => Seen(x, n)
  BY SeenStays
<1>2. /\ \A e, c, i : Knows(e, c, i, h) => Knows(e, c, i, n)
      /\ \A e, c : KnowsAll(e, c, h) => KnowsAll(e, c, n)
  BY SeenStays
<1>3. \A w : WorkSeen(w, h) => WorkSeen(w, n)
  BY <1>1 DEF WorkSeen
<1>4. \A p : PartsSeen(p, h) => PartsSeen(p, n)
  BY <1>1 DEF PartsSeen
<1>5. \A l : LoadSeen(l, h) => LoadSeen(l, n)
  BY <1>4 DEF LoadSeen
<1>6. \A d, i : DraftKnown(d, i, h) => DraftKnown(d, i, n)
  BY <1>2 DEF DraftKnown
<1>7. \A d : DraftsKnown(d, h) => DraftsKnown(d, n)
  BY <1>6 DEF DraftsKnown
<1>8. \A s, i : SaveKnown(s, i, h) => SaveKnown(s, i, n)
  BY <1>1, <1>2 DEF SaveKnown
<1>9. \A v : SavesKnown(v, h) => SavesKnown(v, n)
  BY <1>8 DEF SavesKnown
<1>10. \A m : ImportKnown(m, h) => ImportKnown(m, n)
  BY <1>2 DEF ImportKnown
<1>11. \A v : ImportsKnown(v, h) => ImportsKnown(v, n)
  BY <1>10 DEF ImportsKnown
<1> QED BY <1>3, <1>5, <1>7, <1>9, <1>11
(* A draft that is not edited shows a copy, and names its ETag.             *)
LEMMA CleanKnown ==
  ASSUME NEW h \in Snapshot, NEW n, Seen(n, h), NEW i \in Items
  PROVE  \A x \in Clean(n, i) : DraftKnown(x, i, h)
<1> DEFINE e == caseCatalogETag(n)
           v == View(n, i)
           t == n.of[i].shown
           u == n.node[NodeOf[i]].service
<1>1. Knows(e, v, i, h) /\ e \in ETag
  BY SeenKnows
<1>2. v \in Views /\ t \in RecordContent /\ u \in RecordContent
  <2>1. n \in Snapshot
    BY DEF Seen
  <2>2. v \in Views /\ n.of[i] \in CatalogRecord /\ n.node[NodeOf[i]] \in InterfaceNode
    BY <2>1, ViewOf
  <2> QED BY <2>2 DEF CatalogRecord, InterfaceNode
<1>3. SUFFICES ASSUME NEW x \in Clean(n, i) PROVE DraftKnown(x, i, h)
  OBVIOUS
<1>4. x = [text |-> t, secret |-> 0, service |-> u, dirty |-> FALSE, etag |-> e, base |-> v]
  BY DEF Clean
<1> HIDE DEF e, v, t, u
<1>5. x \in Draft /\ x.etag = e /\ x.base = v
  BY <1>1, <1>2, <1>4 DEF Draft, RecordContent
<1> QED BY <1>1, <1>5 DEF DraftKnown

(* Reconciling the drafts with a copy leaves them true: an edited draft     *)
(* takes the ETag only with its own base under it.                          *)
LEMMA Reconciled ==
  ASSUME NEW h \in Snapshot, NEW n, Seen(n, h), NEW d, DraftsKnown(d, h), NEW kind
  PROVE  DraftsKnown(reconcileDrafts(d, kind, n), h)
<1>1. DOMAIN reconcileDrafts(d, kind, n) = Items
  BY DEF reconcileDrafts
<1>2. ASSUME NEW i \in Items, NEW x \in reconcileDrafts(d, kind, n)[i]
      PROVE  DraftKnown(x, i, h)
  <2>1. CASE i \notin Drafted \/ KindOf(i) # kind \/ n.of[i].shown = 0
    <3>1. x \in d[i]
      BY <1>2, <2>1 DEF reconcileDrafts
    <3> QED BY <3>1 DEF DraftsKnown
  <2>2. CASE ~(i \notin Drafted \/ KindOf(i) # kind \/ n.of[i].shown = 0) /\ \E y \in d[i] : y.dirty
    <3>1. PICK y \in d[i] :
            x = [y EXCEPT !.etag = IF y.base = View(n, i) THEN caseCatalogETag(n) ELSE @]
      BY <1>2, <2>2 DEF reconcileDrafts
    <3>2. DraftKnown(y, i, h) /\ y \in Draft /\ Knows(y.etag, y.base, i, h)
      BY <2>2 DEF DraftsKnown, DraftKnown
    <3>3. Knows(caseCatalogETag(n), View(n, i), i, h) /\ caseCatalogETag(n) \in ETag
      BY SeenKnows
    <3> DEFINE e == IF y.base = View(n, i) THEN caseCatalogETag(n) ELSE y.etag
    <3>4. e \in ETag /\ Knows(e, y.base, i, h)
      BY <3>2, <3>3 DEF Draft
    <3>5. x = [y EXCEPT !.etag = e]
      BY <3>1
    <3> HIDE DEF e
    <3>6. x \in Draft /\ x.base = y.base /\ x.etag = e
      BY <3>2, <3>4, <3>5 DEF Draft
    <3> QED BY <3>4, <3>6 DEF DraftKnown
  <2>3. CASE ~(i \notin Drafted \/ KindOf(i) # kind \/ n.of[i].shown = 0) /\ ~\E y \in d[i] : y.dirty
    <3>1. x \in Clean(n, i)
      BY <1>2, <2>3 DEF reconcileDrafts
    <3> QED BY <3>1, CleanKnown
  <2> QED BY <2>1, <2>2, <2>3
<1> QED BY <1>1, <1>2 DEF DraftsKnown

(* A write of one record advances the catalog.                              *)
LEMMA RecordEdited ==
  ASSUME NEW h \in Snapshot, NEW f \in [Items -> CatalogRecord],
         NEW g \in [Nodes -> InterfaceNode], NEW n,
         n = [store |-> h.store, rev |-> h.rev + 1, of |-> f, node |-> g]
  PROVE  Advances(h, n) /\ n \in Snapshot
<1>1. n \in Snapshot /\ n.store = h.store /\ n.rev = h.rev + 1
  BY DEF Snapshot
<1> QED BY <1>1 DEF Advances, Snapshot

NewRecord(h, i, d) ==
  [shown |-> d.text, secret |-> IF d.secret = 0 THEN h.of[i].secret ELSE d.secret,
   login |-> FALSE, own |-> i \notin Scenes]
NewNode(h, i, d) ==
  IF i \in Scenes \cup Blocks THEN h.node[NodeOf[i]] ELSE [service |-> d.service, shape |-> d.text]

LEMMA WrittenIs ==
  ASSUME NEW h \in Snapshot, NEW i \in Items, NEW d
  PROVE  Written(h, i, d) =
           [store |-> h.store, rev |-> h.rev + 1,
            of |-> [h.of EXCEPT ![i] = NewRecord(h, i, d)],
            node |-> [h.node EXCEPT ![NodeOf[i]] = NewNode(h, i, d)]]
<1>1. PICK a \in Nat, r \in Nat, f \in [Items -> CatalogRecord], g \in [Nodes -> InterfaceNode] :
        h = [store |-> a, rev |-> r, of |-> f, node |-> g]
  BY DEF Snapshot
<1>2. h.store = a /\ h.rev = r /\ h.of = f /\ h.node = g
  BY <1>1
<1> DEFINE p == [h EXCEPT !.rev = h.rev + 1]
           q == [p EXCEPT !.of = [f EXCEPT ![i] = NewRecord(h, i, d)]]
<1>3. p = [store |-> a, rev |-> r + 1, of |-> f, node |-> g]
  BY <1>1
<1>4. p.of = f
  BY <1>3
<1> HIDE DEF p
<1>5. q = [store |-> a, rev |-> r + 1, of |-> [f EXCEPT ![i] = NewRecord(h, i, d)], node |-> g]
  BY <1>3
<1>6. q.node = g
  BY <1>5
<1>7. Written(h, i, d) = [h EXCEPT !.rev = @ + 1, !.of[i] = NewRecord(h, i, d),
                                   !.node[NodeOf[i]] = NewNode(h, i, d)]
  <2>1. CASE i \in Scenes \cup Blocks
    BY <1>1, <1>2, <2>1 DEF Written, NewRecord, NewNode
  <2>2. CASE i \notin Scenes \cup Blocks
    BY <1>1, <1>2, <2>2 DEF Written, NewRecord, NewNode
  <2> QED BY <2>1, <2>2
<1>8. Written(h, i, d) = [q EXCEPT !.node = [g EXCEPT ![NodeOf[i]] = NewNode(h, i, d)]]
  BY <1>2, <1>4, <1>6, <1>7 DEF p
<1> QED BY <1>2, <1>5, <1>8

LEMMA WrittenAdvances ==
  ASSUME NEW h \in Snapshot, NEW i \in Items, NEW d,
         d.text \in RecordContent, d.secret \in RecordContent, d.service \in RecordContent
  PROVE  /\ Advances(h, Written(h, i, d)) /\ Written(h, i, d) \in Snapshot
         /\ Seen(Written(h, i, d), Written(h, i, d))
         /\ d.secret = 0 => Written(h, i, d).of[i].secret = h.of[i].secret
         /\ \A n \in Snapshot : Alike(n, h) => Alike(Written(n, i, d), Written(h, i, d))
<1>1. h.of[i] \in CatalogRecord /\ h.node[NodeOf[i]] \in InterfaceNode
  BY ViewOf
<1>2. NewRecord(h, i, d) \in CatalogRecord /\ NewNode(h, i, d) \in InterfaceNode
  BY <1>1 DEF NewRecord, NewNode, CatalogRecord, InterfaceNode
<1>3. Written(h, i, d) =
        [store |-> h.store, rev |-> h.rev + 1,
         of |-> [h.of EXCEPT ![i] = NewRecord(h, i, d)],
         node |-> [h.node EXCEPT ![NodeOf[i]] = NewNode(h, i, d)]]
  BY WrittenIs
<1>4. h.of \in [Items -> CatalogRecord] /\ h.node \in [Nodes -> InterfaceNode]
  BY DEF Snapshot
<1>5. Advances(h, Written(h, i, d)) /\ Written(h, i, d) \in Snapshot
  <2>1. [h.of EXCEPT ![i] = NewRecord(h, i, d)] \in [Items -> CatalogRecord]
    BY <1>2, <1>4
  <2>2. [h.node EXCEPT ![NodeOf[i]] = NewNode(h, i, d)] \in [Nodes -> InterfaceNode]
    BY <1>2, <1>4
  <2> QED BY <1>3, <2>1, <2>2, RecordEdited
<1>6. Written(h, i, d).of[i] = NewRecord(h, i, d)
  BY <1>3, <1>4
<1>7. ASSUME NEW n \in Snapshot, Alike(n, h) PROVE Alike(Written(n, i, d), Written(h, i, d))
  <2>1. n.of = h.of /\ n.node = h.node
    BY <1>7 DEF Alike
  <2>2. NewRecord(n, i, d) = NewRecord(h, i, d) /\ NewNode(n, i, d) = NewNode(h, i, d)
    BY <2>1 DEF NewRecord, NewNode
  <2>3. Written(n, i, d) =
          [store |-> n.store, rev |-> n.rev + 1,
           of |-> [n.of EXCEPT ![i] = NewRecord(n, i, d)],
           node |-> [n.node EXCEPT ![NodeOf[i]] = NewNode(n, i, d)]]
    BY WrittenIs
  <2> QED BY <1>3, <2>1, <2>2, <2>3 DEF Alike
<1> QED BY <1>5, <1>6, <1>7, SeenKnows DEF NewRecord

(* A refresh that begins has shown nothing yet.                             *)
LEMMA LoadBegins ==
  ASSUME NEW slot \in Slots, LoadSeen(load, head), loadWorkspace(slot)
  PROVE  LoadSeen(load', head)
<1>1. PartsSeen(NoParts, head)
  BY DEF PartsSeen, NoParts
<1>2. DOMAIN load' = Slots
      /\ \A s \in Slots : load'[s] = IF s = slot THEN {NoParts} ELSE load[s]
  BY DEF loadWorkspace, LoadSeen
<1> QED BY <1>1, <1>2 DEF LoadSeen

LEMMA LoadEnds ==
  ASSUME NEW slot \in Slots, LoadSeen(load, head), load' = [load EXCEPT ![slot] = {}]
  PROVE  LoadSeen(load', head)
<1>1. DOMAIN load' = Slots /\ \A s \in Slots : load'[s] = IF s = slot THEN {} ELSE load[s]
  BY DEF LoadSeen
<1> QED BY <1>1 DEF LoadSeen

(* One record's drafts, or saves, are replaced.                             *)
LEMMA DraftReplaced ==
  ASSUME NEW i \in Items, NEW S, NEW h, DraftsKnown(draft, h),
         \A x \in S : DraftKnown(x, i, h), draft' = [draft EXCEPT ![i] = S]
  PROVE  DraftsKnown(draft', h)
<1>1. DOMAIN draft' = Items /\ \A j \in Items : draft'[j] = IF j = i THEN S ELSE draft[j]
  BY DEF DraftsKnown
<1> QED BY <1>1 DEF DraftsKnown

LEMMA SaveReplaced ==
  ASSUME NEW i \in Items, NEW s, NEW h, SavesKnown(saving, h),
         SaveKnown(s, i, h), saving' = [saving EXCEPT ![i] = {s}]
  PROVE  SavesKnown(saving', h)
<1>1. DOMAIN saving' = Items /\ \A j \in Items : saving'[j] = IF j = i THEN {s} ELSE saving[j]
  BY DEF SavesKnown
<1> QED BY <1>1 DEF SavesKnown

LEMMA SaveEnds ==
  ASSUME NEW i \in Items, NEW h, SavesKnown(saving, h), saving' = [saving EXCEPT ![i] = {}]
  PROVE  SavesKnown(saving', h)
<1>1. DOMAIN saving' = Items /\ \A j \in Items : saving'[j] = IF j = i THEN {} ELSE saving[j]
  BY DEF SavesKnown
<1> QED BY <1>1 DEF SavesKnown

LEMMA FreshRecord ==
  ASSUME NEW c \in RecordContent, NEW i \in Items
  PROVE  Fresh(i, c) \in CatalogRecord /\ NoRecord \in CatalogRecord
BY DEF Fresh, NoRecord, CatalogRecord, RecordContent

LEMMA PastAtFirst ==
  WorkspaceInit => WorkspaceIsPast
<1> SUFFICES ASSUME WorkspaceInit PROVE WorkspaceIsPast
  OBVIOUS
<1> DEFINE c == CHOOSE x \in Contents : TRUE
<1>1. c \in RecordContent
  BY WorkspaceAssumption DEF RecordContent
<1>2. head = [store |-> 1, rev |-> 0, of |-> [i \in Items |-> Fresh(i, c)],
             node |-> [n \in Nodes |-> [service |-> c, shape |-> c]]]
  BY DEF WorkspaceInit
<1> HIDE DEF c
<1>3. head \in Snapshot
  <2>1. \A i \in Items : Fresh(i, c) \in CatalogRecord
    BY <1>1, FreshRecord
  <2>2. [service |-> c, shape |-> c] \in InterfaceNode
    BY <1>1 DEF InterfaceNode
  <2> QED BY <1>2, <2>1, <2>2 DEF Snapshot
<1>4. Seen(head, head)
  BY <1>3, SeenKnows
<1>5. WorkSeen(work, head)
  BY <1>3, <1>4 DEF WorkspaceInit, WorkSeen
<1>6. LoadSeen(load, head)
  BY DEF WorkspaceInit, LoadSeen
<1>7. DraftsKnown(draft, head)
  <2>1. \A i \in Items : \A x \in Clean(head, i) : DraftKnown(x, i, head)
    BY <1>3, <1>4, CleanKnown
  <2>2. DOMAIN draft = Items /\ \A i \in Items : draft[i] = {} \/ draft[i] = Clean(head, i)
    BY DEF WorkspaceInit
  <2> QED BY <2>1, <2>2 DEF DraftsKnown
<1>8. SavesKnown(saving, head) /\ ImportsKnown(importing, head) /\ library = head
  BY DEF WorkspaceInit, SavesKnown, ImportsKnown
<1> QED BY <1>3, <1>4, <1>5, <1>6, <1>7, <1>8 DEF WorkspaceIsPast

(* Every step of the desktop, of the Store and of the other clients leaves  *)
(* true what is held.                                                       *)
LEMMA PastStep ==
  ASSUME WorkspaceIsPast, [WorkspaceNext]_workspaceVars
  PROVE  WorkspaceIsPast'
<1>1. /\ head \in Snapshot /\ WorkSeen(work, head) /\ Seen(library, head)
      /\ LoadSeen(load, head) /\ DraftsKnown(draft, head)
      /\ SavesKnown(saving, head) /\ ImportsKnown(importing, head)
  BY DEF WorkspaceIsPast
<1>2. Seen(head, head)
  BY <1>1, SeenKnows
<1>3. \A i \in Items : i \in Drafted => i \in Slots /\ KindOf(i) \in RecordKinds
  BY DEF Slots, RecordKinds
<1>4. \A c \in Contents : c \in RecordContent
  BY DEF RecordContent
<1>5. CASE UNCHANGED workspaceVars
  BY <1>1, <1>5 DEF workspaceVars, WorkspaceIsPast
<1>6. CASE StartRefresh
  <2>1. LoadSeen(load', head)
    BY <1>1, <1>6, LoadBegins DEF StartRefresh, Slots
  <2> QED BY <1>1, <1>6, <2>1 DEF StartRefresh, WorkspaceIsPast
<1>7. ASSUME NEW s \in Slots, refresh(s) PROVE WorkspaceIsPast'
  <2>1. PICK l \in load[s] :
          /\ \A k \in RecordKinds : l[k] # {}
          /\ LET part(k) == CHOOSE h \in l[k] : TRUE
             IN /\ work' = [k \in RecordKinds |-> part(k)]
                /\ draft' = [i \in Items |->
                     IF i \in Blocks THEN draft[i]
                     ELSE reconcileDrafts(draft, KindOf(i), part(KindOf(i)))[i]]
    BY <1>7 DEF refresh
  <2> DEFINE part(k) == CHOOSE h \in l[k] : TRUE
  <2>2. \A k \in RecordKinds : Seen(part(k), head) /\ part(k) \in Snapshot
    BY <1>1, <2>1 DEF LoadSeen, PartsSeen
  <2>3. work' = [k \in RecordKinds |-> part(k)]
    BY <2>1
  <2>4. draft' = [i \in Items |-> IF i \in Blocks THEN draft[i]
                                  ELSE reconcileDrafts(draft, KindOf(i), part(KindOf(i)))[i]]
    BY <2>1
  <2> HIDE DEF part
  <2>5. WorkSeen(work', head)
    BY <2>2, <2>3 DEF WorkSeen
  <2>6. DraftsKnown(draft', head)
    <3>1. ASSUME NEW i \in Items, i \notin Blocks, NEW x \in draft'[i]
          PROVE  DraftKnown(x, i, head)
      <4>1. i \in Drafted
        BY <3>1 DEF Drafted
      <4>2. Seen(part(KindOf(i)), head)
        BY <1>3, <2>2, <4>1
      <4>3. DraftsKnown(reconcileDrafts(draft, KindOf(i), part(KindOf(i))), head)
        BY <1>1, <4>2, Reconciled
      <4>4. x \in reconcileDrafts(draft, KindOf(i), part(KindOf(i)))[i]
        BY <2>4, <3>1
      <4> QED BY <4>3, <4>4 DEF DraftsKnown
    <3>2. ASSUME NEW i \in Items, i \in Blocks, NEW x \in draft'[i]
          PROVE  DraftKnown(x, i, head)
      BY <1>1, <2>4, <3>2 DEF DraftsKnown
    <3> QED BY <2>4, <3>1, <3>2 DEF DraftsKnown
  <2>7. LoadSeen(load', head)
    BY <1>1, <1>7, LoadEnds DEF refresh
  <2> QED BY <1>1, <1>7, <2>5, <2>6, <2>7 DEF refresh, WorkspaceIsPast
<1>8. ASSUME NEW s \in Slots, RefreshFails(s) PROVE WorkspaceIsPast'
  <2>1. LoadSeen(load', head)
    BY <1>1, <1>8, LoadEnds DEF RefreshFails
  <2> QED BY <1>1, <1>8, <2>1 DEF RefreshFails, WorkspaceIsPast
<1>9. ASSUME NEW s \in Slots, NEW k \in RecordKinds, ReadPart(s, k) PROVE WorkspaceIsPast'
  <2>1. PICK l \in load[s] : load' = [load EXCEPT ![s] = {[l EXCEPT ![k] = {head}]}]
    BY <1>9 DEF ReadPart
  <2> DEFINE m == [l EXCEPT ![k] = {head}]
  <2>2. PartsSeen(l, head) /\ DOMAIN l = RecordKinds
    BY <1>1 DEF LoadSeen, PartsSeen
  <2>3. DOMAIN m = RecordKinds /\ \A j \in RecordKinds : m[j] = IF j = k THEN {head} ELSE l[j]
    BY <2>2
  <2>4. m \in [RecordKinds -> SUBSET Snapshot]
    BY <1>1, <2>2 DEF PartsSeen
  <2>5. load' = [load EXCEPT ![s] = {m}]
    BY <2>1
  <2> HIDE DEF m
  <2>6. PartsSeen(m, head)
    BY <1>2, <2>2, <2>3, <2>4 DEF PartsSeen
  <2>7. DOMAIN load' = Slots /\ \A t \in Slots : load'[t] = IF t = s THEN {m} ELSE load[t]
    BY <1>1, <2>5 DEF LoadSeen
  <2>8. LoadSeen(load', head)
    BY <1>1, <2>6, <2>7 DEF LoadSeen
  <2> QED BY <1>1, <1>9, <2>8 DEF ReadPart, WorkspaceIsPast
<1>10. ASSUME NEW i \in Items, NEW c \in Contents, create(i, c) PROVE WorkspaceIsPast'
  <2> DEFINE e == caseCatalogETag(work[KindOf(i)])
             x == [text |-> c, secret |-> 0, service |-> c, dirty |-> TRUE, base |-> Hidden, etag |-> e]
  <2>1. Seen(work[KindOf(i)], head)
    BY <1>1, <1>3, <1>10 DEF create, WorkSeen
  <2>2. Knows(e, Hidden, i, head) /\ e \in ETag /\ Hidden \in Views
    <3>1. View(work[KindOf(i)], i) = Hidden
      BY <1>10 DEF create, View
    <3>2. Hidden \in Views
      BY <1>1, ViewOf
    <3> QED BY <1>1, <2>1, <3>1, <3>2, SeenKnows
  <2>3. draft' = [draft EXCEPT ![i] = {x}]
    BY <1>10 DEF create
  <2> HIDE DEF e
  <2>4. x \in Draft /\ x.etag = e /\ x.base = Hidden
    BY <1>4, <2>2 DEF Draft, RecordContent
  <2> HIDE DEF x
  <2>5. DraftKnown(x, i, head)
    BY <2>2, <2>4 DEF DraftKnown
  <2>6. DraftsKnown(draft', head)
    BY <1>1, <2>3, <2>5, DraftReplaced
  <2> QED BY <1>1, <1>10, <2>6 DEF create, WorkspaceIsPast
<1>11. ASSUME NEW i \in Items, NEW c \in Contents, NEW field \in {"text", "secret", "service"},
              patch(i, field, c)
       PROVE  WorkspaceIsPast'
  <2> DEFINE S == {[d EXCEPT ![field] = c, !.dirty = TRUE] : d \in draft[i]}
  <2>1. draft' = [draft EXCEPT ![i] = S]
    BY <1>11 DEF patch
  <2>2. ASSUME NEW x \in S PROVE DraftKnown(x, i, head)
    <3>1. PICK d \in draft[i] : x = [d EXCEPT ![field] = c, !.dirty = TRUE]
      BY <2>2
    <3>2. DraftKnown(d, i, head) /\ d \in Draft
      BY <1>1 DEF DraftsKnown, DraftKnown
    <3> DEFINE y == [d EXCEPT ![field] = c]
    <3>3. y \in Draft /\ y.etag = d.etag /\ y.base = d.base
      <4>1. CASE field = "text"
        BY <1>4, <3>2, <4>1 DEF Draft
      <4>2. CASE field = "secret"
        BY <1>4, <3>2, <4>2 DEF Draft
      <4>3. CASE field = "service"
        BY <1>4, <3>2, <4>3 DEF Draft
      <4> QED BY <4>1, <4>2, <4>3
    <3>4. x = [y EXCEPT !.dirty = TRUE]
      BY <3>1
    <3> HIDE DEF y
    <3>5. x \in Draft /\ x.etag = d.etag /\ x.base = d.base
      BY <3>3, <3>4 DEF Draft
    <3> QED BY <3>2, <3>5 DEF DraftKnown
  <2> HIDE DEF S
  <2>3. DraftsKnown(draft', head)
    BY <1>1, <2>1, <2>2, DraftReplaced
  <2> QED BY <1>1, <1>11, <2>3 DEF patch, WorkspaceIsPast
<1>12. ASSUME NEW i \in Items, NEW c \in Contents, ImportPut(i, c) PROVE WorkspaceIsPast'
  <2> DEFINE d == [text |-> c, secret |-> 0, service |-> c]
  <2>1. PICK m \in importing :
          /\ i \in m.left
          /\ IF m.etag = caseCatalogETag(head)
             THEN /\ head' = Written(head, i, d)
                  /\ importing' = {[left |-> m.left \ {i}, etag |-> caseCatalogETag(Written(head, i, d)),
                                    shown |-> Written(m.shown, i, d)]}
             ELSE head' = head /\ importing' = {}
    BY <1>12 DEF ImportPut
  <2>2. ImportKnown(m, head) /\ m \in Import /\ KnowsAll(m.etag, m.shown, head) /\ m.shown \in Snapshot
    BY <1>1 DEF ImportsKnown, ImportKnown, Import
  <2>3. d.text \in RecordContent /\ d.secret \in RecordContent /\ d.service \in RecordContent
    BY <1>4 DEF RecordContent
  <2> HIDE DEF d
  <2>4. CASE m.etag = caseCatalogETag(head)
    <3> DEFINE n == Written(head, i, d)
               w == Written(m.shown, i, d)
               e == caseCatalogETag(n)
               q == [left |-> m.left \ {i}, etag |-> e, shown |-> w]
    <3>1. head' = n /\ importing' = {q}
      BY <2>1, <2>4
    <3>2. Advances(head, n) /\ n \in Snapshot /\ Seen(n, n)
      BY <1>1, <2>3, WrittenAdvances
    <3>3. w \in Snapshot
      BY <2>2, <2>3, WrittenAdvances
    <3>4. Alike(w, n)
      <4>1. Alike(m.shown, head)
        BY <2>2, <2>4 DEF KnowsAll
      <4> QED BY <1>1, <2>2, <2>3, <4>1, WrittenAdvances
    <3>5. e \in ETag /\ Past(e, n)
      BY <3>2, SeenKnows DEF KnowsAll
    <3>6. m.left \ {i} \in SUBSET Drafted
      BY <2>2 DEF Import
    <3> HIDE DEF n, w, e
    <3>7. q \in Import /\ q.etag = e /\ q.shown = w
      BY <3>3, <3>5, <3>6 DEF Import
    <3> HIDE DEF q
    <3>8. ImportsKnown(importing', head')
      BY <3>1, <3>3, <3>4, <3>5, <3>7 DEF ImportKnown, ImportsKnown, KnowsAll
    <3>9. \A x : Seen(x, head) => Seen(x, n)
      BY <1>1, <3>2, SeenStays
    <3>10. WorkSeen(work, n) /\ LoadSeen(load, n) /\ DraftsKnown(draft, n) /\ SavesKnown(saving, n)
      BY <1>1, <3>2, PastStays
    <3> QED BY <1>1, <1>12, <3>1, <3>2, <3>8, <3>9, <3>10 DEF ImportPut, WorkspaceIsPast
  <2>5. CASE m.etag # caseCatalogETag(head)
    <3>1. head' = head /\ ImportsKnown(importing', head)
      BY <2>1, <2>5 DEF ImportsKnown
    <3> QED BY <1>1, <1>12, <3>1 DEF ImportPut, WorkspaceIsPast
  <2> QED BY <2>4, <2>5
<1>13. ASSUME NEW i \in Items, openBlock(i) PROVE WorkspaceIsPast'
  <2>1. DraftsKnown(draft', head)
    BY <1>1, <1>13, CleanKnown, DraftReplaced DEF openBlock
  <2> QED BY <1>1, <1>13, <2>1 DEF openBlock, WorkspaceIsPast
<1>14. ASSUME NEW i \in Items, discard(i) PROVE WorkspaceIsPast'
  <2> DEFINE w == work[KindOf(i)]
             S == IF i \in Blocks \/ w.of[i].shown = 0 THEN {} ELSE Clean(w, i)
  <2>1. draft' = [draft EXCEPT ![i] = S]
    BY <1>14 DEF discard
  <2>2. ASSUME NEW x \in S PROVE DraftKnown(x, i, head)
    <3>1. i \in Drafted /\ x \in Clean(w, i)
      BY <2>2 DEF Drafted
    <3>2. Seen(w, head)
      BY <1>1, <1>3, <3>1 DEF WorkSeen
    <3> QED BY <1>1, <3>1, <3>2, CleanKnown
  <2> HIDE DEF S
  <2>3. DraftsKnown(draft', head)
    BY <1>1, <2>1, <2>2, DraftReplaced
  <2> QED BY <1>1, <1>14, <2>3 DEF discard, WorkspaceIsPast
<1>15. ASSUME NEW i \in Items, save(i) PROVE WorkspaceIsPast'
  <2>1. PICK d \in draft[i] :
          saving' = [saving EXCEPT ![i] =
            {[text |-> d.text, secret |-> d.secret, service |-> d.service, base |-> d.base,
              step |-> "sent", answer |-> {},
              etag |-> IF i \in Blocks THEN caseCatalogETag(library) ELSE d.etag]}]
    BY <1>15 DEF save
  <2> DEFINE e == IF i \in Blocks THEN caseCatalogETag(library) ELSE d.etag
             s == [text |-> d.text, secret |-> d.secret, service |-> d.service, base |-> d.base,
                   step |-> "sent", answer |-> {}, etag |-> e]
  <2>2. saving' = [saving EXCEPT ![i] = {s}]
    BY <2>1
  <2>3. DraftKnown(d, i, head) /\ d \in Draft
    BY <1>1 DEF DraftsKnown, DraftKnown
  <2>4. e \in ETag /\ (i \in Drafted => e = d.etag)
    BY <1>1, <2>3, SeenKnows DEF Draft, Drafted
  <2> HIDE DEF e
  <2>5. s \in Save /\ s.base = d.base /\ s.etag = e /\ s.answer = {} /\ s.step = "sent"
    BY <2>3, <2>4 DEF Save, Draft
  <2> HIDE DEF s
  <2>6. SaveKnown(s, i, head)
    BY <2>3, <2>4, <2>5 DEF SaveKnown, DraftKnown
  <2>7. SavesKnown(saving', head)
    BY <1>1, <2>2, <2>6, SaveReplaced
  <2> QED BY <1>1, <1>15, <2>7 DEF save, WorkspaceIsPast
<1>16. ASSUME NEW i \in Items, Put(i) PROVE WorkspaceIsPast'
  <2>1. PICK s \in saving[i] :
          IF s.etag = caseCatalogETag(head)
          THEN /\ head' = Written(head, i, s)
               /\ saving' = [saving EXCEPT ![i] = {[s EXCEPT !.step = "ok", !.answer = {Written(head, i, s)}]}]
          ELSE head' = head /\ saving' = [saving EXCEPT ![i] = {[s EXCEPT !.step = "refused"]}]
    BY <1>16 DEF Put
  <2>2. /\ SaveKnown(s, i, head) /\ s \in Save
        /\ s.text \in RecordContent /\ s.secret \in RecordContent /\ s.service \in RecordContent
    BY <1>1 DEF SavesKnown, SaveKnown, Save
  <2>3. CASE s.etag = caseCatalogETag(head)
    <3> DEFINE n == Written(head, i, s)
               q == [s EXCEPT !.step = "ok", !.answer = {n}]
    <3>1. head' = n /\ saving' = [saving EXCEPT ![i] = {q}]
      BY <2>1, <2>3
    <3>2. Advances(head, n) /\ n \in Snapshot /\ Seen(n, n)
      BY <1>1, <2>2, WrittenAdvances
    <3> HIDE DEF n
    <3>3. q \in Save /\ q.base = s.base /\ q.etag = s.etag /\ q.answer = {n}
      BY <2>2, <3>2 DEF Save
    <3> HIDE DEF q
    <3>4. WorkSeen(work, n) /\ LoadSeen(load, n) /\ DraftsKnown(draft, n) /\ SavesKnown(saving, n)
          /\ ImportsKnown(importing, n)
      BY <1>1, <3>2, PastStays
    <3>5. Seen(library, n)
      BY <1>1, <3>2, SeenStays
    <3>6. SaveKnown(s, i, n)
      BY <3>4 DEF SavesKnown
    <3>7. SaveKnown(q, i, n)
      BY <3>2, <3>3, <3>6 DEF SaveKnown
    <3>8. SavesKnown(saving', n)
      BY <3>1, <3>4, <3>7, SaveReplaced
    <3> QED BY <1>16, <3>1, <3>2, <3>4, <3>5, <3>8 DEF Put, WorkspaceIsPast
  <2>4. CASE s.etag # caseCatalogETag(head)
    <3> DEFINE q == [s EXCEPT !.step = "refused"]
    <3>1. head' = head /\ saving' = [saving EXCEPT ![i] = {q}]
      BY <2>1, <2>4
    <3>2. q \in Save /\ q.base = s.base /\ q.etag = s.etag /\ q.answer = s.answer /\ q.step = "refused"
      BY <2>2 DEF Save
    <3> HIDE DEF q
    <3>3. SaveKnown(q, i, head)
      BY <2>2, <3>2 DEF SaveKnown
    <3>4. SavesKnown(saving', head)
      BY <1>1, <3>1, <3>3, SaveReplaced
    <3> QED BY <1>1, <1>16, <3>1, <3>4 DEF Put, WorkspaceIsPast
  <2> QED BY <2>3, <2>4
<1>17. ASSUME NEW i \in Items, PutLost(i) PROVE WorkspaceIsPast'
  <2> DEFINE S == {[s EXCEPT !.step = "refused", !.answer = {}] : s \in saving[i]}
  <2>1. PICK s \in saving[i] : TRUE
    BY <1>17 DEF PutLost
  <2> DEFINE q == [s EXCEPT !.step = "refused", !.answer = {}]
  <2>2. saving' = [saving EXCEPT ![i] = S]
    BY <1>17 DEF PutLost
  <2>3. \A t \in saving[i] : t = s
    BY <1>1 DEF SavesKnown
  <2>4. S = {q}
    BY <2>1, <2>3
  <2>5. SaveKnown(s, i, head) /\ s \in Save
    BY <1>1 DEF SavesKnown, SaveKnown
  <2>6. q \in Save /\ q.base = s.base /\ q.etag = s.etag /\ q.answer = {} /\ q.step = "refused"
    BY <2>5 DEF Save
  <2> HIDE DEF q, S
  <2>7. SaveKnown(q, i, head)
    BY <2>5, <2>6 DEF SaveKnown
  <2>8. SavesKnown(saving', head)
    BY <1>1, <2>2, <2>4, <2>7, SaveReplaced
  <2> QED BY <1>1, <1>17, <2>8 DEF PutLost, WorkspaceIsPast
<1>18. ASSUME NEW i \in Items, Saved(i) PROVE WorkspaceIsPast'
  <2>1. SavesKnown(saving', head)
    BY <1>1, <1>18, SaveEnds DEF Saved
  <2>2. PICK s \in saving[i] :
          /\ s.step \in {"ok", "refused"}
          /\ IF s.step = "refused" THEN UNCHANGED <<draft, load, library>>
             ELSE LET cleared == [draft EXCEPT ![i] = {}]
                      seen == CHOOSE h \in s.answer : TRUE
                  IN IF i \in Blocks
                     THEN draft' = cleared /\ library' = seen /\ loadWorkspace("library")
                     ELSE draft' = reconcileDrafts(cleared, KindOf(i), seen)
                          /\ loadWorkspace(i) /\ UNCHANGED library
    BY <1>18 DEF Saved
  <2>3. CASE s.step = "refused"
    BY <1>1, <1>18, <2>1, <2>2, <2>3 DEF Saved, WorkspaceIsPast
  <2>4. CASE s.step # "refused"
    <3> DEFINE cleared == [draft EXCEPT ![i] = {}]
               seen == CHOOSE h \in s.answer : TRUE
    <3>1. Seen(seen, head)
      BY <1>1, <2>2, <2>4 DEF SavesKnown, SaveKnown
    <3>2. DraftsKnown(cleared, head)
      <4>1. DOMAIN cleared = Items /\ \A j \in Items : cleared[j] = IF j = i THEN {} ELSE draft[j]
        BY <1>1 DEF DraftsKnown
      <4> HIDE DEF cleared
      <4> QED BY <1>1, <4>1 DEF DraftsKnown
    <3>3. IF i \in Blocks
          THEN draft' = cleared /\ library' = seen /\ loadWorkspace("library")
          ELSE draft' = reconcileDrafts(cleared, KindOf(i), seen) /\ loadWorkspace(i) /\ UNCHANGED library
      BY <2>2, <2>4
    <3> HIDE DEF cleared, seen
    <3>4. DraftsKnown(draft', head)
      BY <1>1, <3>1, <3>2, <3>3, Reconciled
    <3>5. Seen(library', head)
      BY <1>1, <3>1, <3>3
    <3>6. LoadSeen(load', head)
      <4>1. "library" \in Slots /\ (i \notin Blocks => i \in Slots)
        BY DEF Slots, Drafted
      <4> QED BY <1>1, <3>3, <4>1, LoadBegins
    <3> QED BY <1>1, <1>18, <2>1, <3>4, <3>5, <3>6 DEF Saved, WorkspaceIsPast
  <2> QED BY <2>3, <2>4
<1>19. CASE loadLibrary
  BY <1>1, <1>2, <1>19 DEF loadLibrary, WorkspaceIsPast
<1>20. ASSUME NEW records \in SUBSET (Drafted \ Scenes), applyImport(records) PROVE WorkspaceIsPast'
  <2> DEFINE k == CHOOSE x \in RecordKinds : \A i \in records : KindOf(i) = x
             shown == work[k]
             m == [left |-> records, etag |-> caseCatalogETag(shown), shown |-> shown]
  <2>1. k \in RecordKinds
    <3>1. \A i \in records : KindOf(i) = "request" /\ i \in Items
      BY DEF KindOf, Drafted
    <3>2. "request" \in RecordKinds
      BY <1>3, <1>20, <3>1 DEF applyImport
    <3> QED BY <3>1, <3>2
  <2>2. importing' = {m}
    BY <1>20 DEF applyImport
  <2> HIDE DEF k
  <2>3. Seen(shown, head) /\ shown \in Snapshot
    BY <1>1, <2>1 DEF WorkSeen
  <2> HIDE DEF shown
  <2>4. caseCatalogETag(shown) \in ETag /\ KnowsAll(caseCatalogETag(shown), shown, head)
    BY <1>1, <2>3, SeenKnows
  <2>5. m \in Import /\ m.etag = caseCatalogETag(shown) /\ m.shown = shown
    BY <2>3, <2>4 DEF Import
  <2> HIDE DEF m
  <2>6. ImportKnown(m, head)
    BY <2>4, <2>5 DEF ImportKnown
  <2>7. ImportsKnown(importing', head)
    BY <2>2, <2>6 DEF ImportsKnown
  <2> QED BY <1>1, <1>20, <2>7 DEF applyImport, WorkspaceIsPast
<1>21. CASE ImportEnds
  <2>1. LoadSeen(load', head)
    BY <1>1, <1>21, LoadBegins DEF ImportEnds, Slots
  <2> QED BY <1>1, <1>21, <2>1 DEF ImportEnds, ImportsKnown, WorkspaceIsPast
<1>22. CASE connect
  BY <1>1, <1>22 DEF connect, WorkspaceIsPast
<1>23. CASE ConnectFails
  BY <1>1, <1>23 DEF ConnectFails, WorkspaceIsPast
<1>24. ASSUME NEW c \in RecordContent, Connected(c) PROVE WorkspaceIsPast'
  <2> DEFINE n == [store |-> head.store + 1, rev |-> head.rev, of |-> [i \in Items |-> Fresh(i, c)],
                   node |-> head.node]
  <2>1. head' = n
    BY <1>24 DEF Connected
  <2>2. Advances(head, n) /\ n \in Snapshot
    <3>1. \A i \in Items : Fresh(i, c) \in CatalogRecord
      BY FreshRecord
    <3>2. n \in Snapshot /\ n.store = head.store + 1 /\ n.rev = head.rev
      BY <1>1, <3>1 DEF Snapshot
    <3> QED BY <1>1, <3>2 DEF Advances, Snapshot
  <2> HIDE DEF n
  <2>3. Seen(library, n)
    BY <1>1, <2>2, SeenStays
  <2>4. WorkSeen(work, n) /\ LoadSeen(load, n) /\ DraftsKnown(draft, n) /\ SavesKnown(saving, n)
        /\ ImportsKnown(importing, n)
    BY <1>1, <2>2, PastStays
  <2>5. DraftsKnown(draft', n)
    BY <1>24, <2>4 DEF Connected, DraftsKnown
  <2>6. LoadSeen(load', head)
    BY <1>1, <1>24, LoadBegins DEF Connected, Slots
  <2>7. LoadSeen(load', n)
    BY <1>1, <2>2, <2>6, PastStays
  <2> QED BY <1>24, <2>1, <2>2, <2>3, <2>4, <2>5, <2>7 DEF Connected, WorkspaceIsPast
<1>25. ASSUME NEW i \in Items, NEW c \in RecordContent, OtherEdits(i, c) PROVE WorkspaceIsPast'
  <2> DEFINE d == [text |-> c, secret |-> 0, service |-> c]
             Edited(r) == [head EXCEPT !.rev = @ + 1, !.of[i] = r]
             Beside(g) == [head EXCEPT !.rev = @ + 1, !.node[NodeOf[i]] = g]
             s == head.of[i]
             g0 == head.node[NodeOf[i]]
  <2>1. UNCHANGED <<work, draft, load, saving, importing, library>>
    BY <1>25 DEF OtherEdits
  <2>2. \/ head' = Written(head, i, d)
        \/ \E r \in {NoRecord, [s EXCEPT !.login = TRUE], [s EXCEPT !.secret = c]} : head' = Edited(r)
        \/ \E g \in {[g0 EXCEPT !.service = c], [g0 EXCEPT !.shape = c]} : head' = Beside(g)
    BY <1>25 DEF OtherEdits
  <2>3. s \in CatalogRecord /\ g0 \in InterfaceNode /\ NoRecord \in CatalogRecord
    BY <1>1, ViewOf, FreshRecord
  <2>4. d.text \in RecordContent /\ d.secret \in RecordContent /\ d.service \in RecordContent
    BY DEF RecordContent
  <2> HIDE DEF d, s, g0
  <2>5. Advances(head, head') /\ head' \in Snapshot
    <3>1. CASE head' = Written(head, i, d)
      BY <1>1, <2>4, <3>1, WrittenAdvances
    <3>2. ASSUME NEW r \in {NoRecord, [s EXCEPT !.login = TRUE], [s EXCEPT !.secret = c]},
                 head' = Edited(r)
          PROVE  Advances(head, head') /\ head' \in Snapshot
      <4>1. r \in CatalogRecord
        BY <2>3, <3>2 DEF CatalogRecord
      <4> HIDE DEF Edited
      <4>2. head' = [store |-> head.store, rev |-> head.rev + 1, of |-> [head.of EXCEPT ![i] = r],
                     node |-> head.node]
        BY <1>1, <3>2 DEF Snapshot, Edited
      <4>3. [head.of EXCEPT ![i] = r] \in [Items -> CatalogRecord]
            /\ head.node \in [Nodes -> InterfaceNode]
        BY <1>1, <4>1 DEF Snapshot
      <4> QED BY <1>1, <4>2, <4>3, RecordEdited
    <3>3. ASSUME NEW g \in {[g0 EXCEPT !.service = c], [g0 EXCEPT !.shape = c]}, head' = Beside(g)
          PROVE  Advances(head, head') /\ head' \in Snapshot
      <4>1. g \in InterfaceNode
        BY <2>3, <3>3 DEF InterfaceNode
      <4> HIDE DEF Beside
      <4>2. head' = [store |-> head.store, rev |-> head.rev + 1, of |-> head.of,
                     node |-> [head.node EXCEPT ![NodeOf[i]] = g]]
        BY <1>1, <3>3 DEF Snapshot, Beside
      <4>3. head.of \in [Items -> CatalogRecord]
            /\ [head.node EXCEPT ![NodeOf[i]] = g] \in [Nodes -> InterfaceNode]
        BY <1>1, <4>1 DEF Snapshot
      <4> QED BY <1>1, <4>2, <4>3, RecordEdited
    <3> QED BY <2>2, <3>1, <3>2, <3>3
  <2> HIDE DEF Edited, Beside
  <2>6. Seen(library, head')
    BY <1>1, <2>5, SeenStays
  <2>7. /\ WorkSeen(work, head') /\ LoadSeen(load, head') /\ DraftsKnown(draft, head')
        /\ SavesKnown(saving, head') /\ ImportsKnown(importing, head')
    BY <1>1, <2>5, PastStays
  <2> QED BY <2>1, <2>5, <2>6, <2>7 DEF WorkspaceIsPast
<1>26. ASSUME WorkspaceNext PROVE WorkspaceIsPast'
  BY <1>6, <1>7, <1>8, <1>9, <1>10, <1>11, <1>12, <1>13, <1>14, <1>15, <1>16, <1>17, <1>18, <1>19,
     <1>20, <1>21, <1>22, <1>23, <1>24, <1>25, <1>26 DEF WorkspaceNext, RecordContent
<1> QED BY <1>5, <1>26

(* The drafts of the desktop: whatever a draft, a save under way, a refresh,*)
(* the step library or an import holds of a record is what the catalog      *)
(* shows of it, as long as the ETag that came with it is still the catalog's.     *)
THEOREM DraftsAreOfTheirETag ==
  WorkspaceSpec => []WorkspaceIsPast
<1>1. WorkspaceInit => WorkspaceIsPast
  BY PastAtFirst
<1>2. WorkspaceIsPast /\ [WorkspaceNext]_workspaceVars => WorkspaceIsPast'
  BY PastStep
<1> QED BY <1>1, <1>2, PTL DEF WorkspaceSpec

(* An import writes a record only over what it was shown.                   *)
LEMMA ImportStep ==
  ASSUME WorkspaceIsPast, NEW m \in importing, NEW i \in m.left, NEW j \in Items,
         NEW c \in Contents, ImportPut(j, c), importing' # {}
  PROVE  View(head, i) = View(m.shown, i)
<1>1. ImportsKnown(importing, head) /\ head \in Snapshot
  BY DEF WorkspaceIsPast
<1>2. PICK n \in importing : n.etag # caseCatalogETag(head) => importing' = {}
  BY DEF ImportPut
<1>3. n = m /\ m \in Import /\ KnowsAll(m.etag, m.shown, head)
  BY <1>1 DEF ImportsKnown, ImportKnown
<1>4. m.etag = caseCatalogETag(head)
  BY <1>2, <1>3
<1>5. Alike(m.shown, head) /\ i \in Items
  BY <1>3, <1>4 DEF KnowsAll, Import, Drafted
<1> QED BY <1>1, <1>5, ViewOf

LEMMA NoSilentStep ==
  ASSUME WorkspaceIsPast, [WorkspaceNext]_workspaceVars
  PROVE  /\ \A i \in Drafted : Replaces(i) => \A s \in saving[i] :
             View(head, i) = s.base /\ (s.secret = 0 => head'.of[i].secret = head.of[i].secret)
         /\ \A m \in importing : \A i \in m.left :
              head' # head /\ importing' # {} /\ (\A n \in importing' : i \notin n.left)
                => View(head, i) = View(m.shown, i)
<1>1. SavesKnown(saving, head) /\ ImportsKnown(importing, head) /\ head \in Snapshot
  BY DEF WorkspaceIsPast
<1>2. ASSUME NEW i \in Drafted, Replaces(i), NEW s \in saving[i]
      PROVE  View(head, i) = s.base /\ (s.secret = 0 => head'.of[i].secret = head.of[i].secret)
  <2>1. i \in Items
    BY DEF Drafted
  <2>2. DOMAIN saving = Items /\ (\A t \in saving[i] : t = s) /\ SaveKnown(s, i, head) /\ s \in Save
    BY <1>1, <2>1 DEF SavesKnown, SaveKnown
  <2>3. s.step = "sent" /\ \E t \in saving'[i] : t.step = "ok"
    BY <1>2, <2>2 DEF Replaces
  <2>4. saving'[i] # saving[i]
    BY <2>2, <2>3
  <2>5. ASSUME NEW j \in Items, save(j) PROVE FALSE
    <3>1. PICK d \in draft[j] : saving' = [saving EXCEPT ![j] =
            {[text |-> d.text, secret |-> d.secret, service |-> d.service, base |-> d.base,
              step |-> "sent", answer |-> {},
              etag |-> IF j \in Blocks THEN caseCatalogETag(library) ELSE d.etag]}]
      BY <2>5 DEF save
    <3>2. j = i
      BY <2>1, <2>2, <2>4, <3>1
    <3>3. \A t \in saving'[i] : t.step = "sent"
      BY <2>1, <2>2, <3>1, <3>2
    <3> QED BY <2>3, <3>2, <3>3
  <2>6. ASSUME NEW j \in Items, PutLost(j) PROVE FALSE
    <3>1. saving' = [saving EXCEPT ![j] = {[x EXCEPT !.step = "refused", !.answer = {}] : x \in @}]
      BY <2>6 DEF PutLost
    <3>2. j = i
      BY <2>1, <2>2, <2>4, <3>1
    <3>3. saving'[i] = {[x EXCEPT !.step = "refused", !.answer = {}] : x \in saving[i]}
      BY <2>1, <2>2, <3>1, <3>2
    <3>4. PICK x \in saving[i] : [x EXCEPT !.step = "refused", !.answer = {}].step = "ok"
      BY <2>3, <3>3
    <3>5. x \in Save
      BY <2>2
    <3> QED BY <3>4, <3>5 DEF Save
  <2>7. ASSUME NEW j \in Items, Saved(j) PROVE FALSE
    <3>1. saving' = [saving EXCEPT ![j] = {}]
      BY <2>7 DEF Saved
    <3> QED BY <2>1, <2>2, <2>3, <2>4, <3>1
  <2>8. ASSUME NEW j \in Items, Put(j) PROVE s.etag = caseCatalogETag(head) /\ head' = Written(head, i, s)
    <3>1. PICK r \in saving[j] :
            IF r.etag = caseCatalogETag(head)
            THEN /\ head' = Written(head, j, r)
                 /\ saving' = [saving EXCEPT ![j] = {[r EXCEPT !.step = "ok", !.answer = {Written(head, j, r)}]}]
            ELSE head' = head /\ saving' = [saving EXCEPT ![j] = {[r EXCEPT !.step = "refused"]}]
      BY <2>8 DEF Put
    <3>2. j = i
      BY <2>1, <2>2, <2>4, <3>1
    <3>3. r = s
      BY <2>2, <3>1, <3>2
    <3>4. CASE s.etag # caseCatalogETag(head)
      <4>1. saving' = [saving EXCEPT ![i] = {[s EXCEPT !.step = "refused"]}]
        BY <3>1, <3>2, <3>3, <3>4
      <4>2. saving'[i] = {[s EXCEPT !.step = "refused"]}
        BY <2>1, <2>2, <4>1
      <4>3. [s EXCEPT !.step = "refused"].step = "refused"
        BY <2>2 DEF Save
      <4> QED BY <2>3, <4>2, <4>3
    <3>5. CASE s.etag = caseCatalogETag(head)
      BY <3>1, <3>2, <3>3, <3>5
    <3> QED BY <3>4, <3>5
  <2>9. saving' # saving
    BY <2>4
  <2>10. \E j \in Items : save(j) \/ Put(j) \/ PutLost(j) \/ Saved(j)
    BY <2>9 DEF WorkspaceNext, workspaceVars, StartRefresh, refresh, RefreshFails, ReadPart, create,
       patch, ImportPut, openBlock, discard, loadLibrary, applyImport, ImportEnds, connect,
       ConnectFails, Connected, OtherEdits
  <2>11. s.etag = caseCatalogETag(head) /\ head' = Written(head, i, s)
    BY <2>5, <2>6, <2>7, <2>8, <2>10
  <2>12. View(head, i) = s.base
    BY <1>2, <2>2, <2>11 DEF SaveKnown, Knows
  <2>13. s.text \in RecordContent /\ s.secret \in RecordContent /\ s.service \in RecordContent
    BY <2>2 DEF Save
  <2>14. s.secret = 0 => Written(head, i, s).of[i].secret = head.of[i].secret
    BY <1>1, <2>1, <2>13, WrittenAdvances
  <2> QED BY <2>11, <2>12, <2>14
<1>3. ASSUME NEW m \in importing, NEW i \in m.left, head' # head, importing' # {},
             \A n \in importing' : i \notin n.left
      PROVE  View(head, i) = View(m.shown, i)
  <2>1. importing' # importing
    BY <1>3
  <2>2. \E j \in Items, c \in Contents : ImportPut(j, c)
    BY <1>3, <2>1 DEF WorkspaceNext, workspaceVars, StartRefresh, refresh, RefreshFails, ReadPart,
       create, patch, save, Put, PutLost, Saved, openBlock, discard, loadLibrary, applyImport,
       ImportEnds, connect, ConnectFails, Connected, OtherEdits
  <2> QED BY <1>3, <2>2, ImportStep
<1> QED BY <1>2, <1>3

(* No save of a draft and no import replaces a record that looks different  *)
(* from the one the user started from or was shown, nor a secret the user   *)
(* left masked, in whatever order refreshes, saves, other clients' edits    *)
(* and a change of Store come.                                              *)
THEOREM SavesReplaceWhatTheUserSaw ==
  WorkspaceSpec => NoSilentOverwrite
<1>1. WorkspaceIsPast /\ [WorkspaceNext]_workspaceVars
      => [/\ \A i \in Drafted : Replaces(i) => \A s \in saving[i] :
               /\ View(head, i) = s.base
               /\ s.secret = 0 => head'.of[i].secret = head.of[i].secret
          /\ \A m \in importing : \A i \in m.left :
               head' # head /\ importing' # {} /\ (\A n \in importing' : i \notin n.left)
                 => View(head, i) = View(m.shown, i)]_workspaceVars
  BY NoSilentStep
<1> QED BY <1>1, DraftsAreOfTheirETag, PTL DEF WorkspaceSpec, NoSilentOverwrite

-----------------------------------------------------------------------------
(* The pages: the inductive invariant                                       *)

(* The read models of a catalog, by their keys.                             *)
KeysOf(c) ==
  {<<"interface-nodes">>, <<"catalog">>, <<"dashboard">>}
  \cup {<<"interface-node", n>> : n \in Ids(c.nodes)}
  \cup {<<"interface-node-coverage", w>> : w \in interfaceNodeCoverageWorkflowIDs(c)}
  \cup {<<"interface-node-coverage-gaps", w>> : w \in interfaceNodeCoverageWorkflowIDs(c)}

PayloadOf(c, k) ==
  CASE k[1] = "interface-nodes" -> interfaceNodesBasePayloadFromCatalog(c)
    [] k[1] = "catalog" -> catalogPayloadFromStoreCatalog(c)
    [] k[1] = "dashboard" -> dashboardPayloadFromCatalog(c)
    [] k[1] = "interface-node" -> interfaceNodeDetailPayloadFromCatalog(c, k[2])
    [] k[1] = "interface-node-coverage" -> buildInterfaceNodeCoverageRows(c, k[2])
    [] k[1] = "interface-node-coverage-gaps" ->
         interfaceNodeCoverageGapsPayload(buildInterfaceNodeCoverageRows(c, k[2]))

ModelOf(c, k) == [key |-> k, payload |-> PayloadOf(c, k)]
ModelsOf(c) == {ModelOf(c, k) : k \in KeysOf(c)}

(* Read model k of catalog c is stored.                                     *)
IsStored(c, k) == k \in DOMAIN stored /\ stored[k] = PayloadOf(c, k)

(* What p has not stored of the catalog in force it is about to store, and  *)
(* nobody else is about to store anything.                                  *)
Publishes(p, c) ==
  /\ p \in Publishers /\ c \in Catalogs /\ current = {c}
  /\ publisher[p] \in Seq(ModelsOf(c))
  /\ \A q \in Publishers \ {p} : publisher[q] = <<>>
  /\ \A k \in KeysOf(c) : ModelOf(c, k) \in ToSet(publisher[p]) \/ IsStored(c, k)

PagesInv ==
  /\ current = {} \/ \E c \in Catalogs : current = {c}
  /\ publisher \in [Publishers -> Seq(UNION {ModelsOf(c) : c \in Catalogs})]
  /\ \A k \in DOMAIN stored : \E c \in Catalogs : k \in KeysOf(c) /\ IsStored(c, k)
  /\ runs \in Seq(Runs)
  /\ \A p \in undisturbed : \E c \in Catalogs : Publishes(p, c)

-----------------------------------------------------------------------------
(* The pages: lemmas                                                        *)

LEMMA ImageIsFinite ==
  ASSUME NEW S, IsFiniteSet(S), NEW f, DOMAIN f = S
  PROVE  IsFiniteSet({f[x] : x \in S})
<1> DEFINE T == {f[x] : x \in S}
           g == [x \in S |-> f[x]]
<1>1. g \in Surjection(S, T)
  BY DEF Surjection
<1> HIDE DEF g, T
<1>2. IsFiniteSet(T)
  BY <1>1, FS_Surjection
<1> QED BY <1>2 DEF T

(* SetToSeq lists a finite set.                                             *)
LEMMA SetToSeqLists ==
  ASSUME NEW S, IsFiniteSet(S)
  PROVE  /\ SetToSeq(S) \in Seq(S)
         /\ \A x \in S : \E i \in 1..Len(SetToSeq(S)) : SetToSeq(S)[i] = x
<1> DEFINE n == Cardinality(S)
           s == SetToSeq(S)
<1>1. n \in Nat /\ ExistsBijection(1..n, S)
  BY FS_CardinalityType
<1>2. \E f \in [1..n -> S] : IsInjective(f)
  BY <1>1 DEF ExistsBijection, Bijection, Injection
<1>3. s \in [1..n -> S] /\ IsInjective(s)
  BY <1>2 DEF SetToSeq
<1> HIDE DEF n, s
<1>4. s \in Injection(1..n, S)
  BY <1>3 DEF Injection
<1>5. IsFiniteSet(1..n) /\ Cardinality(1..n) = n
  BY <1>1, FS_Interval
<1>6. s \in Surjection(1..n, S)
  <2>1. Cardinality(1..n) = Cardinality(S)
    BY <1>5 DEF n
  <2> QED BY <1>4, <2>1, FS_Injection
<1>7. s \in Seq(S) /\ Len(s) = n
  BY <1>1, <1>3
<1>8. \A x \in S : \E i \in 1..n : s[i] = x
  BY <1>6 DEF Surjection
<1> QED BY <1>7, <1>8 DEF s

LEMMA ConcatenatedSets ==
  ASSUME NEW S, NEW a \in Seq(S), NEW b \in Seq(S)
  PROVE  a \o b \in Seq(S) /\ ToSet(a) \cup ToSet(b) \subseteq ToSet(a \o b)
<1>1. a \o b \in Seq(S) /\ Len(a \o b) = Len(a) + Len(b) /\ Len(a) \in Nat /\ Len(b) \in Nat
  OBVIOUS
<1>2. ASSUME NEW i \in DOMAIN a PROVE i \in DOMAIN (a \o b) /\ (a \o b)[i] = a[i]
  BY <1>1
<1>3. ASSUME NEW i \in DOMAIN b
      PROVE  Len(a) + i \in DOMAIN (a \o b) /\ (a \o b)[Len(a) + i] = b[i]
  BY <1>1
<1> DEFINE ab == a \o b
<1>4. ab \in Seq(S)
  BY <1>1
<1>5. \A i \in DOMAIN a : \E j \in DOMAIN ab : ab[j] = a[i]
  BY <1>2
<1>6. \A i \in DOMAIN b : \E j \in DOMAIN ab : ab[j] = b[i]
  BY <1>3
<1> HIDE DEF ab
<1>7. ToSet(a) \cup ToSet(b) \subseteq ToSet(ab)
  BY <1>5, <1>6 DEF ToSet
<1> QED BY <1>4, <1>7 DEF ab

LEMMA IdsAreFinite ==
  ASSUME NEW c \in Catalogs \cup {Bundle}
  PROVE  IsFiniteSet(Ids(c.nodes)) /\ IsFiniteSet(interfaceNodeCoverageWorkflowIDs(c))
<1> DEFINE f == [n \in c.nodes |-> n.id]
           g == [b \in c.bindings |-> b.workflow]
           bound == {b.workflow : b \in c.bindings}
<1>1. IsFiniteSet(c.nodes) /\ IsFiniteSet(c.workflows) /\ IsFiniteSet(c.bindings)
  BY ReadModelsAssumption
<1>2. IsFiniteSet({f[n] : n \in c.nodes}) /\ IsFiniteSet({g[b] : b \in c.bindings})
  <2> HIDE DEF f, g
  <2>1. DOMAIN f = c.nodes /\ DOMAIN g = c.bindings
    BY DEF f, g
  <2> QED BY <1>1, <2>1, ImageIsFinite
<1>3. Ids(c.nodes) = {f[n] : n \in c.nodes} /\ bound = {g[b] : b \in c.bindings}
  BY DEF Ids
<1>4. IsFiniteSet(Ids(c.nodes)) /\ IsFiniteSet(bound)
  <2> HIDE DEF f, g, bound
  <2> QED BY <1>2, <1>3
<1>5. IsFiniteSet(c.workflows \cup bound)
  <2> HIDE DEF bound
  <2> QED BY <1>1, <1>4, FS_Union
<1>6. IsFiniteSet((c.workflows \cup bound) \ {""})
  <2> HIDE DEF bound
  <2> QED BY <1>5, FS_Difference
<1> QED BY <1>4, <1>6 DEF interfaceNodeCoverageWorkflowIDs

(* The payload of each key.                                                 *)
LEMMA PayloadsByKey ==
  ASSUME NEW c, NEW x
  PROVE  /\ PayloadOf(c, <<"interface-nodes">>) = interfaceNodesBasePayloadFromCatalog(c)
         /\ PayloadOf(c, <<"catalog">>) = catalogPayloadFromStoreCatalog(c)
         /\ PayloadOf(c, <<"dashboard">>) = dashboardPayloadFromCatalog(c)
         /\ PayloadOf(c, <<"interface-node", x>>) = interfaceNodeDetailPayloadFromCatalog(c, x)
         /\ PayloadOf(c, <<"interface-node-coverage", x>>) = buildInterfaceNodeCoverageRows(c, x)
         /\ PayloadOf(c, <<"interface-node-coverage-gaps", x>>)
              = interfaceNodeCoverageGapsPayload(buildInterfaceNodeCoverageRows(c, x))
<1>1. /\ <<"interface-nodes">>[1] = "interface-nodes" /\ <<"catalog">>[1] = "catalog"
      /\ <<"dashboard">>[1] = "dashboard"
      /\ <<"interface-node", x>>[1] = "interface-node" /\ <<"interface-node", x>>[2] = x
      /\ <<"interface-node-coverage", x>>[1] = "interface-node-coverage"
      /\ <<"interface-node-coverage", x>>[2] = x
      /\ <<"interface-node-coverage-gaps", x>>[1] = "interface-node-coverage-gaps"
      /\ <<"interface-node-coverage-gaps", x>>[2] = x
  OBVIOUS
<1> QED BY <1>1 DEF PayloadOf

LEMMA DetailsAreModels ==
  ASSUME NEW c \in Catalogs
  PROVE  /\ InterfaceNodeDetailReadModels(c) \in Seq(ModelsOf(c))
         /\ \A n \in Ids(c.nodes) : \E i \in DOMAIN InterfaceNodeDetailReadModels(c) :
              InterfaceNodeDetailReadModels(c)[i] = ModelOf(c, <<"interface-node", n>>)
<1> DEFINE f == [n \in Ids(c.nodes) |-> ModelOf(c, <<"interface-node", n>>)]
           S == {f[n] : n \in Ids(c.nodes)}
           s == SetToSeq(S)
<1>1. InterfaceNodeDetailReadModels(c) = s
  <2>1. S = {[key |-> <<"interface-node", n>>,
              payload |-> interfaceNodeDetailPayloadFromCatalog(c, n)] : n \in Ids(c.nodes)}
    BY PayloadsByKey DEF ModelOf
  <2> HIDE DEF S
  <2> QED BY <2>1 DEF InterfaceNodeDetailReadModels
<1>2. IsFiniteSet(S)
  <2>1. IsFiniteSet(Ids(c.nodes)) /\ DOMAIN f = Ids(c.nodes)
    BY IdsAreFinite
  <2> HIDE DEF f
  <2> QED BY <2>1, ImageIsFinite
<1>3. S \subseteq ModelsOf(c)
  BY DEF ModelsOf, KeysOf
<1>4. \A n \in Ids(c.nodes) : ModelOf(c, <<"interface-node", n>>) \in S
  OBVIOUS
<1> HIDE DEF S
<1>5. s \in Seq(S) /\ \A x \in S : \E i \in 1..Len(s) : s[i] = x
  BY <1>2, SetToSeqLists
<1> HIDE DEF s
<1>6. s \in Seq(ModelsOf(c)) /\ DOMAIN s = 1..Len(s)
  BY <1>3, <1>5
<1> QED BY <1>1, <1>4, <1>5, <1>6

LEMMA CoverageIsModels ==
  ASSUME NEW c \in Catalogs
  PROVE  /\ InterfaceNodeCoverageReadModels(c) \in Seq(ModelsOf(c))
         /\ \A w \in interfaceNodeCoverageWorkflowIDs(c) :
              \E i, j \in DOMAIN InterfaceNodeCoverageReadModels(c) :
                /\ InterfaceNodeCoverageReadModels(c)[i]
                     = ModelOf(c, <<"interface-node-coverage", w>>)
                /\ InterfaceNodeCoverageReadModels(c)[j]
                     = ModelOf(c, <<"interface-node-coverage-gaps", w>>)
<1> DEFINE W == interfaceNodeCoverageWorkflowIDs(c)
           ids == SetToSeq(W)
           rows(w) == ModelOf(c, <<"interface-node-coverage", w>>)
           gaps(w) == ModelOf(c, <<"interface-node-coverage-gaps", w>>)
           s == InterfaceNodeCoverageReadModels(c)
<1>1. ids \in Seq(W) /\ \A w \in W : \E i \in 1..Len(ids) : ids[i] = w
  <2>1. IsFiniteSet(W)
    BY IdsAreFinite
  <2> HIDE DEF W
  <2> QED BY <2>1, SetToSeqLists
<1>2. s = [i \in 1..(2 * Len(ids)) |->
             IF i % 2 = 1 THEN rows(ids[(i + 1) \div 2]) ELSE gaps(ids[(i + 1) \div 2])]
  BY PayloadsByKey DEF InterfaceNodeCoverageReadModels, ModelOf
<1>3. \A w \in W : rows(w) \in ModelsOf(c) /\ gaps(w) \in ModelsOf(c)
  BY DEF ModelsOf, KeysOf
<1> HIDE DEF W, rows, gaps
<1> DEFINE n == Len(ids)
<1>4. n \in Nat /\ \A i \in 1..n : ids[i] \in W
  BY <1>1
<1> HIDE DEF ids
<1>5. \A i \in 1..(2 * n) : (i + 1) \div 2 \in 1..n
  BY <1>4
<1>6. DOMAIN s = 1..(2 * n) /\ 2 * n \in Nat
  BY <1>2, <1>4
<1>7. \A i \in 1..(2 * n) : s[i] \in ModelsOf(c)
  BY <1>2, <1>3, <1>4, <1>5
<1>8. s \in Seq(ModelsOf(c))
  <2>1. s \in [1..(2 * n) -> ModelsOf(c)]
    <3>1. s = [i \in 1..(2 * n) |-> s[i]]
      BY <1>2
    <3> HIDE DEF s
    <3> QED BY <1>7, <3>1
  <2> HIDE DEF s, n
  <2> QED BY <1>6, <2>1
<1>9. ASSUME NEW w \in W
      PROVE  \E i, j \in DOMAIN s : s[i] = rows(w) /\ s[j] = gaps(w)
  <2>1. PICK k \in 1..n : ids[k] = w
    BY <1>1
  <2>2. /\ 2 * k - 1 \in 1..(2 * n) /\ (2 * k - 1) % 2 = 1 /\ ((2 * k - 1) + 1) \div 2 = k
        /\ 2 * k \in 1..(2 * n) /\ (2 * k) % 2 # 1 /\ ((2 * k) + 1) \div 2 = k
    BY <1>4
  <2>3. s[2 * k - 1] = rows(w) /\ s[2 * k] = gaps(w)
    BY <1>2, <2>1, <2>2
  <2> HIDE DEF s
  <2> QED BY <1>6, <2>2, <2>3
<1> HIDE DEF s
<1>10. \A w \in W : \E i, j \in DOMAIN s : s[i] = rows(w) /\ s[j] = gaps(w)
  BY <1>9
<1> QED BY <1>8, <1>10 DEF s, W, rows, gaps

(* A publication has all read models of its catalog to store.               *)
LEMMA ModelsOfAProfile ==
  ASSUME NEW c \in Catalogs
  PROVE  /\ ProfileReadModels(c) \in Seq(ModelsOf(c))
         /\ \A k \in KeysOf(c) : ModelOf(c, k) \in ToSet(ProfileReadModels(c))
<1> DEFINE a == <<InterfaceNodesReadModel(c), CatalogReadModel(c), DashboardReadModel(c)>>
           b == InterfaceNodeDetailReadModels(c)
           d == InterfaceNodeCoverageReadModels(c)
           ab == a \o b
           all == ab \o d
<1>1. /\ InterfaceNodesReadModel(c) = ModelOf(c, <<"interface-nodes">>)
      /\ CatalogReadModel(c) = ModelOf(c, <<"catalog">>)
      /\ DashboardReadModel(c) = ModelOf(c, <<"dashboard">>)
  BY PayloadsByKey DEF InterfaceNodesReadModel, CatalogReadModel, DashboardReadModel, ModelOf
<1>2. /\ ModelOf(c, <<"interface-nodes">>) \in ModelsOf(c)
      /\ ModelOf(c, <<"catalog">>) \in ModelsOf(c) /\ ModelOf(c, <<"dashboard">>) \in ModelsOf(c)
  BY DEF ModelsOf, KeysOf
<1>3. a \in Seq(ModelsOf(c)) /\ DOMAIN a = 1..3
      /\ a[1] = ModelOf(c, <<"interface-nodes">>) /\ a[2] = ModelOf(c, <<"catalog">>)
      /\ a[3] = ModelOf(c, <<"dashboard">>)
  BY <1>1, <1>2
<1>4. ProfileReadModels(c) = all
  BY DEF ProfileReadModels
<1>5. ModelOf(c, <<"interface-nodes">>) \in ToSet(a) /\ ModelOf(c, <<"catalog">>) \in ToSet(a)
      /\ ModelOf(c, <<"dashboard">>) \in ToSet(a)
  <2> HIDE DEF a
  <2> QED BY <1>3 DEF ToSet
<1>6. b \in Seq(ModelsOf(c))
      /\ \A n \in Ids(c.nodes) : ModelOf(c, <<"interface-node", n>>) \in ToSet(b)
  BY DetailsAreModels DEF ToSet
<1>7. /\ d \in Seq(ModelsOf(c))
      /\ \A w \in interfaceNodeCoverageWorkflowIDs(c) :
           /\ ModelOf(c, <<"interface-node-coverage", w>>) \in ToSet(d)
           /\ ModelOf(c, <<"interface-node-coverage-gaps", w>>) \in ToSet(d)
  BY CoverageIsModels DEF ToSet
<1> HIDE DEF a, b, d
<1>8. ab \in Seq(ModelsOf(c)) /\ ToSet(a) \cup ToSet(b) \subseteq ToSet(ab)
  BY <1>3, <1>6, ConcatenatedSets
<1> HIDE DEF ab
<1>9. all \in Seq(ModelsOf(c)) /\ ToSet(ab) \cup ToSet(d) \subseteq ToSet(all)
  BY <1>7, <1>8, ConcatenatedSets
<1> HIDE DEF all
<1>10. \A k \in KeysOf(c) : ModelOf(c, k) \in ToSet(a) \cup ToSet(b) \cup ToSet(d)
  BY <1>5, <1>6, <1>7 DEF KeysOf
<1> QED BY <1>4, <1>8, <1>9, <1>10

-----------------------------------------------------------------------------
(* The pages: the steps                                                     *)

LEMMA StartOfThePages == PagesInit => PagesInv
<1> SUFFICES ASSUME PagesInit PROVE PagesInv
  OBVIOUS
<1>1. \A k \in DOMAIN stored : FALSE
  <2>1. stored = [k \in {} |-> {}]
    BY DEF PagesInit
  <2>2. DOMAIN stored = {}
    BY <2>1
  <2> QED BY <2>2
<1>2. publisher \in [Publishers -> Seq(UNION {ModelsOf(c) : c \in Catalogs})]
  <2> DEFINE S == UNION {ModelsOf(c) : c \in Catalogs}
  <2>1. <<>> \in Seq(S) /\ publisher = [p \in Publishers |-> <<>>]
    BY DEF PagesInit
  <2> HIDE DEF S
  <2>2. publisher \in [Publishers -> Seq(S)]
    BY <2>1
  <2> QED BY <2>2 DEF S
<1>3. runs \in Seq(Runs)
  BY DEF PagesInit
<1> QED BY <1>1, <1>2, <1>3 DEF PagesInv, PagesInit

(* Nothing that is stored is given up when another model of the catalog is. *)
LEMMA ModelIsStored ==
  ASSUME PagesInv, NEW m, NEW d \in Catalogs, m \in ModelsOf(d),
         stored' = UpsertProfileReadModel(m)
  PROVE  /\ m.key \in KeysOf(d) /\ m = ModelOf(d, m.key)
         /\ stored'[m.key] = PayloadOf(d, m.key)
         /\ \A k : k # m.key => /\ k \in DOMAIN stored' <=> k \in DOMAIN stored
                                /\ k \in DOMAIN stored => stored'[k] = stored[k]
         /\ DOMAIN stored' = DOMAIN stored \cup {m.key}
<1>1. PICK k \in KeysOf(d) : m = ModelOf(d, k)
  BY DEF ModelsOf
<1>2. m.key = k /\ m.payload = PayloadOf(d, k)
  BY <1>1 DEF ModelOf
<1>3. stored' = [x \in DOMAIN stored \cup {m.key} |-> IF x = m.key THEN m.payload ELSE stored[x]]
  BY DEF UpsertProfileReadModel
<1>4. DOMAIN stored' = DOMAIN stored \cup {m.key}
  BY <1>3
<1>5. stored'[m.key] = m.payload
  BY <1>3, <1>4
<1>6. \A x : x # m.key /\ x \in DOMAIN stored => stored'[x] = stored[x]
  BY <1>3, <1>4
<1> QED BY <1>1, <1>2, <1>4, <1>5, <1>6

LEMMA PublishStep ==
  ASSUME PagesInv, NEW p \in Publishers, NEW c \in Catalogs, PublishProfileCatalog(p, c)
  PROVE  PagesInv'
<1> DEFINE S == UNION {ModelsOf(x) : x \in Catalogs}
<1>1. /\ current' = {c} /\ stored' = stored /\ runs' = runs
      /\ publisher' = [publisher EXCEPT ![p] = ProfileReadModels(c)]
  BY DEF PublishProfileCatalog
<1>2. ProfileReadModels(c) \in Seq(ModelsOf(c))
  BY ModelsOfAProfile
<1>3. \A k \in KeysOf(c) : ModelOf(c, k) \in ToSet(ProfileReadModels(c))
  BY ModelsOfAProfile
<1>4. ModelsOf(c) \subseteq S /\ publisher \in [Publishers -> Seq(S)]
  BY DEF PagesInv
<1>5. publisher' \in [Publishers -> Seq(S)]
  <2> HIDE DEF S
  <2>1. ProfileReadModels(c) \in Seq(S)
    BY <1>2, <1>4
  <2> QED BY <1>1, <1>4, <2>1
<1>6. ASSUME NEW q \in undisturbed' PROVE Publishes(q, c)'
  <2>1. q = p /\ \A r \in Publishers \ {p} : publisher[r] = <<>>
    BY <1>6 DEF PublishProfileCatalog
  <2>2. publisher'[p] = ProfileReadModels(c) /\ \A r \in Publishers \ {p} : publisher'[r] = <<>>
    BY <1>1, <1>4, <2>1
  <2> QED BY <1>1, <1>2, <1>3, <2>1, <2>2 DEF Publishes
<1>7. \A k \in DOMAIN stored' : \E x \in Catalogs : k \in KeysOf(x) /\ IsStored(x, k)'
  BY <1>1 DEF PagesInv, IsStored
<1>8. runs' \in Seq(Runs)
  BY <1>1 DEF PagesInv
<1> QED BY <1>1, <1>5, <1>6, <1>7, <1>8 DEF PagesInv

LEMMA UpsertStep ==
  ASSUME PagesInv, NEW p \in Publishers, UpsertProfileReadModels(p)
  PROVE  PagesInv'
<1> DEFINE S == UNION {ModelsOf(x) : x \in Catalogs}
           m == Head(publisher[p])
           rest == Tail(publisher[p])
<1>1. /\ publisher[p] # <<>> /\ stored' = UpsertProfileReadModel(m)
      /\ publisher' = [publisher EXCEPT ![p] = rest]
      /\ current' = current /\ runs' = runs /\ undisturbed' = undisturbed
  BY DEF UpsertProfileReadModels
<1>2. publisher \in [Publishers -> Seq(S)]
  BY DEF PagesInv
<1>3. m \in S /\ rest \in Seq(S)
  <2> HIDE DEF S
  <2>1. publisher[p] \in Seq(S)
    BY <1>2
  <2> QED BY <1>1, <2>1
<1>4. PICK d \in Catalogs : m \in ModelsOf(d)
  BY <1>3
<1>5. publisher' \in [Publishers -> Seq(S)]
  <2> HIDE DEF S, rest
  <2> QED BY <1>1, <1>2, <1>3
<1>6. /\ m.key \in KeysOf(d) /\ stored'[m.key] = PayloadOf(d, m.key)
      /\ \A k : k # m.key => /\ k \in DOMAIN stored' <=> k \in DOMAIN stored
                             /\ k \in DOMAIN stored => stored'[k] = stored[k]
      /\ DOMAIN stored' = DOMAIN stored \cup {m.key}
  <2> HIDE DEF m
  <2> QED BY <1>1, <1>4, ModelIsStored
<1>7. ASSUME NEW k \in DOMAIN stored'
      PROVE  \E x \in Catalogs : k \in KeysOf(x) /\ IsStored(x, k)'
  <2>1. CASE k = m.key
    BY <1>6, <2>1 DEF IsStored
  <2>2. CASE k # m.key
    <3>1. k \in DOMAIN stored /\ stored'[k] = stored[k]
      BY <1>6, <2>2
    <3>2. PICK x \in Catalogs : k \in KeysOf(x) /\ IsStored(x, k)
      BY <3>1 DEF PagesInv
    <3> QED BY <1>7, <3>1, <3>2 DEF IsStored
  <2> QED BY <2>1, <2>2
<1>8. ASSUME NEW q \in undisturbed' PROVE \E c \in Catalogs : Publishes(q, c)'
  <2>1. PICK c \in Catalogs : Publishes(q, c)
    BY <1>1 DEF PagesInv
  <2>2. q = p
    BY <1>1, <2>1 DEF Publishes
  <2>3. publisher[p] \in Seq(ModelsOf(c))
    BY <2>1, <2>2 DEF Publishes
  <2>4. m \in ModelsOf(c) /\ rest \in Seq(ModelsOf(c))
    <3> DEFINE T == ModelsOf(c)
    <3>1. publisher[p] \in Seq(T)
      BY <2>3
    <3> HIDE DEF T
    <3>2. m \in T /\ rest \in Seq(T)
      BY <1>1, <3>1
    <3> QED BY <3>2 DEF T
  <2>5. stored'[m.key] = PayloadOf(c, m.key) /\ m = ModelOf(c, m.key)
    <3> HIDE DEF m
    <3> QED BY <1>1, <2>4, ModelIsStored
  <2>6. ASSUME NEW k \in KeysOf(c)
        PROVE  ModelOf(c, k) \in ToSet(rest) \/ IsStored(c, k)'
    <3>1. CASE k = m.key
      BY <1>6, <2>5, <3>1 DEF IsStored
    <3>2. CASE k # m.key
      <4>1. CASE IsStored(c, k)
        <5>1. k \in DOMAIN stored' /\ stored'[k] = stored[k]
          BY <1>6, <3>2, <4>1 DEF IsStored
        <5> QED BY <4>1, <5>1 DEF IsStored
      <4>2. CASE ModelOf(c, k) \in ToSet(publisher[p])
        <5>1. ModelOf(c, k) # m
          BY <3>2 DEF ModelOf
        <5>2. PICK i \in DOMAIN publisher[p] : publisher[p][i] = ModelOf(c, k)
          BY <4>2 DEF ToSet
        <5>3. i # 1
          BY <1>1, <2>3, <5>1, <5>2
        <5>4. i - 1 \in DOMAIN rest /\ rest[i - 1] = publisher[p][i]
          BY <1>1, <2>3, <5>3
        <5> HIDE DEF rest
        <5> QED BY <5>2, <5>4 DEF ToSet
      <4> QED BY <2>1, <2>2, <4>1, <4>2 DEF Publishes
    <3> QED BY <3>1, <3>2
  <2>7. publisher'[p] = rest /\ \A r \in Publishers \ {p} : publisher'[r] = publisher[r]
    BY <1>1, <1>2
  <2> HIDE DEF rest, m
  <2> QED BY <1>1, <2>1, <2>2, <2>4, <2>6, <2>7 DEF Publishes
<1>9. /\ current' = {} \/ \E c \in Catalogs : current' = {c}
      /\ runs' \in Seq(Runs)
  BY <1>1 DEF PagesInv
<1> QED BY <1>5, <1>7, <1>8, <1>9 DEF PagesInv

LEMMA StepOfThePages == PagesInv /\ [PagesNext]_readVars => PagesInv'
<1> SUFFICES ASSUME PagesInv, [PagesNext]_readVars PROVE PagesInv'
  OBVIOUS
<1> DEFINE S == UNION {ModelsOf(x) : x \in Catalogs}
<1>1. publisher \in [Publishers -> Seq(S)]
  BY DEF PagesInv
<1>2. ASSUME stored' = stored, undisturbed' = {}, current' = {} \/ \E c \in Catalogs : current' = {c},
             publisher' \in [Publishers -> Seq(S)], runs' \in Seq(Runs)
      PROVE  PagesInv'
  BY <1>2 DEF PagesInv, IsStored
<1>3. CASE UNCHANGED readVars
  BY <1>3 DEF readVars, PagesInv, IsStored, Publishes
<1>4. ASSUME NEW p \in Publishers, PublicationFails(p) PROVE PagesInv'
  <2>1. /\ publisher[p] # <<>> /\ publisher' = [publisher EXCEPT ![p] = <<>>]
        /\ undisturbed' = undisturbed \ {p}
        /\ stored' = stored /\ current' = current /\ runs' = runs
    BY <1>4 DEF PublicationFails
  <2>2. undisturbed' = {}
    <3>1. \A q \in undisturbed : q = p
      BY <2>1 DEF PagesInv, Publishes
    <3> QED BY <2>1, <3>1
  <2>3. publisher' \in [Publishers -> Seq(S)]
    <3>1. <<>> \in Seq(S)
      OBVIOUS
    <3> HIDE DEF S
    <3> QED BY <1>1, <2>1, <3>1
  <2>4. /\ current' = {} \/ \E c \in Catalogs : current' = {c}
        /\ runs' \in Seq(Runs)
    BY <2>1 DEF PagesInv
  <2> QED BY <1>2, <2>1, <2>2, <2>3, <2>4
<1>5. ASSUME NEW c \in Catalogs, EditCatalog(c) PROVE PagesInv'
  <2>1. current' = {c} /\ undisturbed' = {} /\ stored' = stored /\ publisher' = publisher
        /\ runs' = runs
    BY <1>5 DEF EditCatalog
  <2>2. publisher' \in [Publishers -> Seq(S)] /\ runs' \in Seq(Runs)
    BY <1>1, <2>1 DEF PagesInv
  <2> QED BY <1>2, <2>1, <2>2
<1>6. ASSUME NEW run \in Runs, RecordRun(run) PROVE PagesInv'
  <2>1. /\ runs' = Append(runs, run) /\ current' = current /\ stored' = stored
        /\ publisher' = publisher /\ undisturbed' = undisturbed
    BY <1>6 DEF RecordRun
  <2>2. runs' \in Seq(Runs)
    BY <2>1 DEF PagesInv
  <2> QED BY <2>1, <2>2 DEF PagesInv, IsStored, Publishes
<1> QED BY <1>3, <1>4, <1>5, <1>6, PublishStep, UpsertStep DEF PagesNext

-----------------------------------------------------------------------------
(* The pages: what they say of the runs                                     *)

(* A set of numbers that is not empty has a least one.                      *)
LEMMA LeastOf ==
  ASSUME NEW S \in SUBSET Nat, S # {}
  PROVE  \E n \in S : \A m \in S : n <= m
<1> DEFINE R == {ss \in Nat \X Nat : ss[1] < ss[2]}
<1>1. IsWellFoundedOn(R, Nat)
  BY NatLessThanWellFounded, Zenon DEF OpToRel
<1> HIDE DEF R
<1>2. PICK n \in S : \A m \in S : ~(<<m, n>> \in R)
  BY <1>1, WFMin
<1>3. \A m \in S : ~(m < n)
  BY <1>2 DEF R
<1> QED BY <1>3

LEMMA NewestOf ==
  ASSUME NEW n \in Nat, NEW S \in SUBSET (1..n), S # {}
  PROVE  Max(S) \in S
<1> DEFINE T == {n - x : x \in S}
<1>1. T \in SUBSET Nat /\ T # {}
  <2>1. \A x \in S : n - x \in Nat
    OBVIOUS
  <2>2. \E x \in S : n - x \in T
    OBVIOUS
  <2> QED BY <2>1, <2>2
<1>2. PICK t \in T : \A u \in T : t <= u
  <2> HIDE DEF T
  <2> QED BY <1>1, LeastOf
<1>3. PICK x \in S : t = n - x
  BY <1>2
<1>4. ASSUME NEW y \in S PROVE x >= y
  <2>1. t <= n - y
    BY <1>2
  <2> QED BY <1>3, <2>1
<1> QED BY <1>4 DEF Max

(* Run i has a result of case k that passed in time.                        *)
Passes(i, k, timed) ==
  /\ i \in DOMAIN runs /\ \E r \in runs[i].results : r.case = k
  /\ evaluateLatestCaseStateTimeout(CHOOSE r \in runs[i].results : r.case = k, timed) = "passed"

LEMMA CaseRunsPass ==
  ASSUME NEW k, NEW timed, NEW context
  PROVE  \A i : (i \in DOMAIN CaseRuns(k, context)
                  /\ evaluateLatestCaseStateTimeout(CaseRuns(k, context)[i], timed) = "passed")
                <=> i \in context /\ Passes(i, k, timed)
<1> DEFINE D == {i \in DOMAIN runs : i \in context /\ \E r \in runs[i].results : r.case = k}
<1>1. CaseRuns(k, context) = [i \in D |-> CHOOSE r \in runs[i].results : r.case = k]
  BY DEF CaseRuns
<1>2. DOMAIN CaseRuns(k, context) = D
  BY <1>1
<1>3. \A i \in D : CaseRuns(k, context)[i] = CHOOSE r \in runs[i].results : r.case = k
  BY <1>1
<1> QED BY <1>2, <1>3 DEF Passes

LEMMA CaseRunsAreNumbered ==
  ASSUME PagesInv, NEW k, NEW context
  PROVE  DOMAIN CaseRuns(k, context) \in SUBSET (1..Len(runs)) /\ Len(runs) \in Nat
<1>1. Len(runs) \in Nat /\ DOMAIN runs = 1..Len(runs)
  BY DEF PagesInv
<1> QED BY <1>1 DEF CaseRuns

(* The page of a node counts a case as passed when a run of its context     *)
(* passed.                                                                  *)
LEMMA PageOfACase ==
  ASSUME PagesInv, NEW k, NEW timed, NEW context
  PROVE  interfaceNodeCaseStats(k, timed, context) = "passed"
           <=> \E i \in context : Passes(i, k, timed)
<1> DEFINE of == CaseRuns(k, context)
           Status(i) == evaluateLatestCaseStateTimeout(of[i], timed)
           P == {i \in DOMAIN of : Status(i) = "passed"}
           NewestOrNone(S) == IF S = {} THEN 0 ELSE Max(S)
           latest == IF NewestOrNone(P) # 0 THEN NewestOrNone(P) ELSE NewestOrNone(DOMAIN of)
<1>1. interfaceNodeCaseStats(k, timed, context)
        = IF latest = 0 THEN "missing" ELSE Status(latest)
  BY DEF interfaceNodeCaseStats
<1>2. DOMAIN of \in SUBSET (1..Len(runs)) /\ Len(runs) \in Nat
  BY CaseRunsAreNumbered
<1>3. \A S \in SUBSET (DOMAIN of) : S # {} => Max(S) \in S /\ Max(S) # 0
  <2> HIDE DEF of
  <2>1. ASSUME NEW S \in SUBSET (DOMAIN of), S # {} PROVE Max(S) \in S
    BY <1>2, <2>1, NewestOf
  <2> QED BY <1>2, <2>1
<1>4. (\E i \in context : Passes(i, k, timed)) <=> P # {}
  <2> HIDE DEF of
  <2> QED BY CaseRunsPass DEF of
<1> HIDE DEF of, Status
<1>5. CASE P # {}
  <2>1. Max(P) \in P /\ Max(P) # 0
    BY <1>3, <1>5
  <2>2. latest = Max(P) /\ latest # 0
    BY <1>5, <2>1
  <2> QED BY <1>1, <1>4, <1>5, <2>1, <2>2
<1>6. CASE P = {}
  <2>1. latest = NewestOrNone(DOMAIN of)
    BY <1>6
  <2>2. latest = 0 \/ latest \in DOMAIN of
    BY <1>3, <2>1
  <2>3. latest \in DOMAIN of => Status(latest) # "passed"
    BY <1>6
  <2> HIDE DEF latest, P
  <2> QED BY <1>1, <1>4, <1>6, <2>2, <2>3
<1> QED BY <1>5, <1>6

(* So does the directory, of all runs.                                      *)
LEMMA DirectoryOfACase ==
  ASSUME PagesInv, NEW k, NEW timed
  PROVE  preferredCaseStates(k, timed) = "passed"
           <=> \E i \in DOMAIN runs : Passes(i, k, timed)
<1> DEFINE of == CaseRuns(k, DOMAIN runs)
           Status(i) == evaluateLatestCaseStateTimeout(of[i], timed)
<1>1. preferredCaseStates(k, timed)
        = IF DOMAIN of = {} THEN "missing"
          ELSE IF \E i \in DOMAIN of : Status(i) = "passed" THEN "passed"
          ELSE Status(Max(DOMAIN of))
  BY DEF preferredCaseStates
<1>2. DOMAIN of \in SUBSET (1..Len(runs)) /\ Len(runs) \in Nat
  BY CaseRunsAreNumbered
<1>3. DOMAIN of # {} => Max(DOMAIN of) \in DOMAIN of
  <2> HIDE DEF of
  <2> QED BY <1>2, NewestOf
<1>4. (\E i \in DOMAIN runs : Passes(i, k, timed))
        <=> \E i \in DOMAIN of : Status(i) = "passed"
  <2> HIDE DEF of
  <2> QED BY CaseRunsPass DEF of
<1> HIDE DEF of, Status
<1> QED BY <1>1, <1>3, <1>4

-----------------------------------------------------------------------------
(* The pages: the page of a node                                            *)

LEMMA CasesAreFinite ==
  ASSUME NEW c \in Catalogs \cup {Bundle}, NEW n
  PROVE  IsFiniteSet(casesForCatalogNode(c, n))
<1> DEFINE S == catalogCasesForNode(c, n)
           f == [k \in S |-> [id |-> k.id, required |-> k.required]]
<1>1. IsFiniteSet(c.cases)
  BY ReadModelsAssumption
<1>2. IsFiniteSet(S)
  <2>1. S \in SUBSET c.cases
    BY DEF catalogCasesForNode
  <2> HIDE DEF S
  <2> QED BY <1>1, <2>1, FS_Subset
<1>3. casesForCatalogNode(c, n) = {f[k] : k \in S}
  BY DEF casesForCatalogNode
<1>4. DOMAIN f = S
  OBVIOUS
<1> HIDE DEF f, S
<1> QED BY <1>2, <1>3, <1>4, ImageIsFinite

LEMMA BundleCasesAreFinite ==
  ASSUME NEW n
  PROVE  IsFiniteSet(casesForNode(n))
<1> DEFINE S == {k \in Bundle.cases : k.node = n}
           f == [k \in S |-> [id |-> k.id, required |-> FALSE]]
<1>1. IsFiniteSet(Bundle.cases)
  BY ReadModelsAssumption
<1>2. IsFiniteSet(S)
  <2>1. S \in SUBSET Bundle.cases
    OBVIOUS
  <2> HIDE DEF S
  <2> QED BY <1>1, <2>1, FS_Subset
<1>3. casesForNode(n) = {f[k] : k \in S}
  BY DEF casesForNode
<1>4. DOMAIN f = S
  OBVIOUS
<1> HIDE DEF f, S
<1> QED BY <1>2, <1>3, <1>4, ImageIsFinite

LEMMA InForceIs ==
  ASSUME NEW c, current = {c}
  PROVE  InForce = c
BY DEF InForce

(* The key of a node's model is no other key.                               *)
LEMMA NodeKeys ==
  ASSUME NEW c, NEW n, <<"interface-node", n>> \in KeysOf(c)
  PROVE  n \in Ids(c.nodes)
<1> DEFINE k == <<"interface-node", n>>
<1>1. k[1] = "interface-node" /\ k[2] = n
  OBVIOUS
<1>2. \A x : /\ k # <<"interface-nodes">> /\ k # <<"catalog">> /\ k # <<"dashboard">>
             /\ k # <<"interface-node-coverage", x>> /\ k # <<"interface-node-coverage-gaps", x>>
  BY <1>1
<1>3. \E m \in Ids(c.nodes) : k = <<"interface-node", m>>
  <2> HIDE DEF k
  <2> QED BY <1>2 DEF KeysOf, k
<1> QED BY <1>1, <1>3

(* There is at most one page of a node, and its cases are finitely many.    *)
LEMMA DetailOfANode ==
  ASSUME PagesInv, NEW n
  PROVE  /\ \A d \in interfaceNodeDetail(n) : IsFiniteSet(d.cases)
         /\ \A d, e \in interfaceNodeDetail(n) : d = e
<1> DEFINE key == <<"interface-node", n>>
           page(c) == interfaceNodeDetailPayloadFromCatalog(c, n)
           bundle == interfaceNodeDetailPayloadFromBundle(n)
<1>1. \A c \in Catalogs \cup {Bundle} : IsFiniteSet(page(c).cases)
  BY CasesAreFinite DEF interfaceNodeDetailPayloadFromCatalog
<1>2. CASE current # {} /\ readModelPayload(key) # {}
  <2>1. key \in DOMAIN stored /\ readModelPayload(key) = {stored[key]}
    BY <1>2 DEF readModelPayload
  <2>2. PICK c \in Catalogs : stored[key] = PayloadOf(c, key)
    BY <2>1 DEF PagesInv, IsStored
  <2>3. stored[key] = page(c)
    BY <2>2, PayloadsByKey
  <2>4. interfaceNodeDetail(n) = {stored[key]}
    BY <1>2, <2>1 DEF interfaceNodeDetail
  <2> HIDE DEF page, key
  <2> QED BY <1>1, <2>3, <2>4
<1>3. CASE current # {} /\ readModelPayload(key) = {} /\ n \in Ids(InForce.nodes)
  <2>1. interfaceNodeDetail(n) = {page(InForce)}
    BY <1>3 DEF interfaceNodeDetail
  <2>2. InForce \in Catalogs
    BY <1>3, InForceIs DEF PagesInv
  <2> HIDE DEF page
  <2> QED BY <1>1, <2>1, <2>2
<1>4. CASE current = {} \/ (readModelPayload(key) = {} /\ n \notin Ids(InForce.nodes))
  <2>1. interfaceNodeDetail(n) = bundle
    BY <1>4 DEF interfaceNodeDetail
  <2>2. \A d \in bundle : IsFiniteSet(d.cases)
    BY BundleCasesAreFinite DEF interfaceNodeDetailPayloadFromBundle
  <2>3. \A m, o \in Bundle.nodes : m.id = o.id => m = o
    BY ReadModelsAssumption
  <2>4. \A d, e \in bundle : d = e
    BY <2>3 DEF interfaceNodeDetailPayloadFromBundle
  <2> QED BY <2>1, <2>2, <2>4
<1> QED BY <1>2, <1>3, <1>4

(* When the page of a node says passed.                                     *)
LEMMA PassedPage ==
  ASSUME PagesInv, NEW d, NEW context
  PROVE  hydrateInterfaceNodeHistory(d, context).status = "passed"
           <=> /\ \E k \in d.cases : k.required
               /\ \A k \in d.cases : k.required => \E i \in context : Passes(i, k.id, d.timed)
<1> DEFINE blockers == interfaceNodeAdmissionState(d, context)
<1>1. blockers = {} <=>
        \A k \in d.cases : k.required => \E i \in context : Passes(i, k.id, d.timed)
  <2>1. blockers = {k \in d.cases : /\ k.required
                                    /\ interfaceNodeCaseStats(k.id, d.timed, context) # "passed"}
    BY DEF interfaceNodeAdmissionState
  <2> HIDE DEF blockers
  <2> QED BY <2>1, PageOfACase
<1>2. hydrateInterfaceNodeHistory(d, context).status
        = CASE blockers # {} -> "failed"
            [] blockers = {} /\ (\E k \in d.cases : k.required) -> "passed"
            [] OTHER -> "pending"
  BY DEF hydrateInterfaceNodeHistory
<1> HIDE DEF blockers
<1> QED BY <1>1, <1>2

(* The runs of a workflow are runs.                                         *)
LEMMA ContextsAreOfRuns ==
  ASSUME NEW w
  PROVE  interfaceNodeRunContext(w) \subseteq interfaceNodeRunContext("")
         /\ interfaceNodeRunContext("") = DOMAIN runs
BY DEF interfaceNodeRunContext

LEMMA PassedPageHasARun ==
  ASSUME PagesInv, NEW n, NEW d \in interfaceNodeDetail(n), NEW w,
         hydrateInterfaceNodeHistory(d, interfaceNodeRunContext(w)).status = "passed"
  PROVE  hydrateInterfaceNodeHistory(d, interfaceNodeRunContext(w)).history.passed > 0
<1> DEFINE context == interfaceNodeRunContext(w)
           Ended(k, i) == /\ i \in DOMAIN CaseRuns(k.id, context)
                          /\ evaluateLatestCaseStateTimeout(CaseRuns(k.id, context)[i], d.timed) = "passed"
           S == {x \in d.cases \X context : Ended(x[1], x[2])}
<1>1. PICK k \in d.cases, i \in context : Passes(i, k.id, d.timed)
  BY PassedPage
<1>2. <<k, i>> \in S
  BY <1>1, CaseRunsPass
<1>3. IsFiniteSet(S)
  <2>1. IsFiniteSet(d.cases)
    BY DetailOfANode
  <2>2. IsFiniteSet(context)
    <3>1. context \in SUBSET (1..Len(runs)) /\ Len(runs) \in Nat
      <4>1. runs \in Seq(Runs)
        BY DEF PagesInv
      <4>2. DOMAIN runs = 1..Len(runs) /\ Len(runs) \in Nat
        BY <4>1
      <4> QED BY <4>2 DEF interfaceNodeRunContext
    <3>2. IsFiniteSet(1..Len(runs))
      BY <3>1, FS_Interval
    <3> HIDE DEF context
    <3> QED BY <3>1, <3>2, FS_Subset
  <2>3. S \in SUBSET (d.cases \X context)
    OBVIOUS
  <2> HIDE DEF S, context
  <2> QED BY <2>1, <2>2, <2>3, FS_Product, FS_Subset
<1>4. hydrateInterfaceNodeHistory(d, context).history.passed = Cardinality(S)
  BY DEF hydrateInterfaceNodeHistory, interfaceNodeHistory
<1> HIDE DEF S
<1>5. Cardinality(S) \in Nat /\ Cardinality(S) # 0
  BY <1>2, <1>3, FS_CardinalityType, FS_EmptySet
<1> QED BY <1>4, <1>5

(* A pass in the context of a workflow is one without it, and has a run.    *)
LEMMA PassesAreEarned ==
  ASSUME PagesInv, NEW n, NEW w, NEW page \in interfaceNodePage(n, w), page.status = "passed"
  PROVE  /\ page.history.passed > 0
         /\ \A whole \in interfaceNodePage(n, "") : whole.status = "passed"
<1>1. PICK d \in interfaceNodeDetail(n) :
        page = hydrateInterfaceNodeHistory(d, interfaceNodeRunContext(w))
  BY DEF interfaceNodePage
<1>2. page.history.passed > 0
  BY <1>1, PassedPageHasARun
<1>3. hydrateInterfaceNodeHistory(d, interfaceNodeRunContext("")).status = "passed"
  <2>1. interfaceNodeRunContext(w) \subseteq interfaceNodeRunContext("")
    BY ContextsAreOfRuns
  <2>2. /\ \E k \in d.cases : k.required
        /\ \A k \in d.cases : k.required =>
             \E i \in interfaceNodeRunContext(w) : Passes(i, k.id, d.timed)
    BY <1>1, PassedPage
  <2> QED BY <2>1, <2>2, PassedPage
<1>4. ASSUME NEW whole \in interfaceNodePage(n, "") PROVE whole.status = "passed"
  <2>1. PICK e \in interfaceNodeDetail(n) :
          whole = hydrateInterfaceNodeHistory(e, interfaceNodeRunContext(""))
    BY DEF interfaceNodePage
  <2>2. e = d
    BY DetailOfANode
  <2> QED BY <1>3, <2>1, <2>2
<1> QED BY <1>2, <1>4

-----------------------------------------------------------------------------
(* The pages: the catalog page and the coverage                             *)

LEMMA SameCount ==
  ASSUME NEW S, IsFiniteSet(S), NEW f, DOMAIN f = S,
         \A x, y \in S : f[x] = f[y] => x = y
  PROVE  LET T == {f[x] : x \in S} IN IsFiniteSet(T) /\ Cardinality(T) = Cardinality(S)
<1> DEFINE T == {f[x] : x \in S}
           g == [x \in S |-> f[x]]
<1>1. g \in Bijection(S, T)
  BY DEF Bijection, Injection, Surjection, IsInjective
<1>2. ExistsBijection(S, T)
  BY <1>1 DEF ExistsBijection
<1> HIDE DEF T
<1>3. IsFiniteSet(T) /\ Cardinality(T) = Cardinality(S)
  BY <1>2, FS_Bijection
<1> QED BY <1>3 DEF T

LEMMA WorkflowsOfTheCatalogPage ==
  catalogPage.workflows =
    {[id |-> v.id, steps |-> v.steps, latest |-> catalogWorkflowLatestRun(v)] :
       v \in IF current # {} /\ catalogHasAnyState(InForce)
             THEN {catalogWorkflowFromStore(InForce, w) : w \in catalogWorkflowIDs(InForce)}
             ELSE {catalogWorkflowFromStore(Bundle, w) : w \in Bundle.workflows}}
<1> DEFINE A == {catalogWorkflowFromStore(InForce, w) : w \in catalogWorkflowIDs(InForce)}
           B == {catalogWorkflowFromStore(Bundle, w) : w \in Bundle.workflows}
           Row(v) == [id |-> v.id, steps |-> v.steps, latest |-> catalogWorkflowLatestRun(v)]
           payload == IF current # {} /\ catalogHasAnyState(InForce)
                      THEN catalogPayloadFromStoreCatalog(InForce) ELSE catalogPayloadFromBundle
<1>1. catalogPage = [payload EXCEPT !.workflows = {Row(v) : v \in @}]
  BY DEF catalogPage
<1>2. /\ catalogPayloadFromStoreCatalog(InForce)
           = [services |-> catalogServicesFromStore(InForce), workflows |-> A,
              topology |-> catalogTopologyFromWorkflows(InForce)]
      /\ catalogPayloadFromBundle
           = [services |-> Ids(Bundle.services), workflows |-> B, topology |-> {}]
  BY DEF catalogPayloadFromStoreCatalog, catalogPayloadFromBundle
<1> HIDE DEF A, B, Row
<1>3. CASE current # {} /\ catalogHasAnyState(InForce)
  <2>1. payload = [services |-> catalogServicesFromStore(InForce), workflows |-> A,
                   topology |-> catalogTopologyFromWorkflows(InForce)]
    BY <1>2, <1>3
  <2> HIDE DEF payload
  <2>2. catalogPage.workflows = {Row(v) : v \in A}
    BY <1>1, <2>1
  <2> QED BY <1>3, <2>2 DEF A, Row
<1>4. CASE ~(current # {} /\ catalogHasAnyState(InForce))
  <2>1. payload = [services |-> Ids(Bundle.services), workflows |-> B, topology |-> {}]
    BY <1>2, <1>4
  <2> HIDE DEF payload
  <2>2. catalogPage.workflows = {Row(v) : v \in B}
    BY <1>1, <2>1
  <2> QED BY <1>4, <2>2 DEF B, Row
<1> QED BY <1>3, <1>4

(* The latest run the catalog page shows of a workflow is a run of it.      *)
LEMMA LatestRunsAreOfTheWorkflow ==
  ASSUME PagesInv, NEW w \in catalogPage.workflows, NEW i \in w.latest
  PROVE  runs[i].workflow = w.id
<1>1. PICK v : w = [id |-> v.id, steps |-> v.steps, latest |-> catalogWorkflowLatestRun(v)]
  BY WorkflowsOfTheCatalogPage
<1> DEFINE of == catalogWorkflowRuns(v.id)
           whole == {j \in of : Cardinality(runs[j].results) >= Cardinality(v.steps)}
<1>2. /\ w.id = v.id
      /\ w.latest = CASE whole # {} -> {Max(whole)}
                      [] whole = {} /\ of # {} -> {Max(of)}
                      [] OTHER -> {}
  BY <1>1 DEF catalogWorkflowLatestRun
<1>3. \A j \in of : runs[j].workflow = v.id
  BY DEF catalogWorkflowRuns
<1>4. of \in SUBSET (1..Len(runs)) /\ Len(runs) \in Nat /\ whole \subseteq of
  <2>1. runs \in Seq(Runs)
    BY DEF PagesInv
  <2>2. DOMAIN runs = 1..Len(runs) /\ Len(runs) \in Nat
    BY <2>1
  <2>3. of \subseteq DOMAIN runs
    BY DEF catalogWorkflowRuns
  <2> QED BY <2>2, <2>3
<1> HIDE DEF of, whole
<1>5. CASE whole # {}
  <2>1. whole \in SUBSET (1..Len(runs))
    BY <1>4
  <2>2. Max(whole) \in whole
    BY <1>4, <1>5, <2>1, NewestOf
  <2> QED BY <1>2, <1>3, <1>4, <1>5, <2>2
<1>6. CASE whole = {} /\ of # {}
  <2>1. Max(of) \in of
    BY <1>4, <1>6, NewestOf
  <2> QED BY <1>2, <1>3, <1>6, <2>1
<1>7. CASE whole = {} /\ of = {}
  BY <1>2, <1>7
<1> QED BY <1>5, <1>6, <1>7

(* What a settled publication leaves.                                       *)
LEMMA SettledIsStored ==
  ASSUME PagesInv, Settled
  PROVE  \E c \in Catalogs : current = {c} /\ InForce = c /\ \A k \in KeysOf(c) : IsStored(c, k)
<1>1. PICK p \in undisturbed : TRUE
  BY DEF Settled
<1>2. PICK c \in Catalogs : Publishes(p, c)
  BY <1>1 DEF PagesInv
<1>3. publisher[p] = <<>> /\ current = {c}
  BY <1>2 DEF Settled, Publishes
<1>4. ToSet(publisher[p]) = {}
  <2>1. DOMAIN <<>> = {}
    OBVIOUS
  <2> QED BY <1>3, <2>1 DEF ToSet
<1>5. \A k \in KeysOf(c) : IsStored(c, k)
  BY <1>2, <1>4 DEF Publishes
<1>6. InForce = c
  BY <1>3, InForceIs
<1> QED BY <1>3, <1>5, <1>6

LEMMA StoredIsPreferred ==
  ASSUME NEW c, NEW k, IsStored(c, k), NEW fallback
  PROVE  Preferred(k, fallback) = PayloadOf(c, k)
<1>1. readModelPayload(k) = {PayloadOf(c, k)}
  BY DEF readModelPayload, IsStored
<1>2. (CHOOSE p \in {PayloadOf(c, k)} : TRUE) = PayloadOf(c, k)
  OBVIOUS
<1> QED BY <1>1, <1>2 DEF Preferred

(* The coverage of a workflow and its gaps are the steps of the workflow.   *)
LEMMA CoverageIsTheWorkflow ==
  ASSUME PagesInv, NEW c \in Catalogs, current = {c}, InForce = c,
         \A k \in KeysOf(c) : IsStored(c, k), catalogHasAnyState(InForce),
         NEW w \in catalogPage.workflows
  PROVE  LET page == interfaceNodeCoveragePage(w.id)
             gaps == interfaceNodeCoverageGapsPage(w.id)
         IN /\ {r.step : r \in page.rows} = w.steps
            /\ page.summary.mapped + Cardinality(gaps) = Cardinality(w.steps)
<1> DEFINE page == interfaceNodeCoveragePage(w.id)
           gaps == interfaceNodeCoverageGapsPage(w.id)
           B == {b \in c.bindings : b.workflow = w.id}
           M == {b \in B : b.node \in Ids(c.nodes)}
           Adm(b) == interfaceNodeCoverageAdmission(b.node, [k \in Ids(c.cases) |-> latestCaseStates(k)])
           row == [b \in B |-> [step |-> b, mapped |-> b.node \in Ids(c.nodes), status |-> "pending"]]
           shown == [b \in B |-> [step |-> b, mapped |-> b.node \in Ids(c.nodes), status |-> Adm(b)]]
<1>1. PICK id \in catalogWorkflowIDs(c) :
        w = [id |-> catalogWorkflowFromStore(c, id).id, steps |-> catalogWorkflowFromStore(c, id).steps,
             latest |-> catalogWorkflowLatestRun(catalogWorkflowFromStore(c, id))]
  BY WorkflowsOfTheCatalogPage
<1>2. w.id = id /\ w.id # "" /\ w.id \in interfaceNodeCoverageWorkflowIDs(c)
  BY <1>1 DEF catalogWorkflowFromStore, catalogWorkflowIDs, interfaceNodeCoverageWorkflowIDs
<1>3. w.steps = B
  <2>1. w.steps = {t.binding : t \in {catalogWorkflowStepFromStore(c, b) : b \in B}}
    BY <1>1, <1>2 DEF catalogWorkflowFromStore
  <2>2. \A b \in B : catalogWorkflowStepFromStore(c, b).binding = b
    BY DEF catalogWorkflowStepFromStore
  <2> HIDE DEF B
  <2> QED BY <2>1, <2>2
<1>4. buildInterfaceNodeCoverageRows(c, w.id) = {row[b] : b \in B}
  BY <1>2 DEF buildInterfaceNodeCoverageRows
<1>5. /\ IsStored(c, <<"interface-node-coverage", w.id>>)
      /\ IsStored(c, <<"interface-node-coverage-gaps", w.id>>)
  BY <1>2 DEF KeysOf
<1>6. page.rows = hydrateInterfaceNodeCoveragePayload({row[b] : b \in B})
      /\ page.summary.mapped = Cardinality({r \in page.rows : r.mapped})
  <2>1. Preferred(<<"interface-node-coverage", w.id>>, buildInterfaceNodeCoverageRows(c, w.id))
          = {row[b] : b \in B}
    <3>1. PayloadOf(c, <<"interface-node-coverage", w.id>>) = buildInterfaceNodeCoverageRows(c, w.id)
      BY PayloadsByKey
    <3> QED BY <1>4, <1>5, <3>1, StoredIsPreferred
  <2> HIDE DEF row, B
  <2> QED BY <2>1 DEF interfaceNodeCoveragePage, interfaceNodeCoverageSummary
<1>7. gaps = {r \in {row[b] : b \in B} : ~r.mapped}
  <2>1. Preferred(<<"interface-node-coverage-gaps", w.id>>,
                  interfaceNodeCoverageGapsPayload(buildInterfaceNodeCoverageRows(c, w.id)))
          = interfaceNodeCoverageGapsPayload({row[b] : b \in B})
    <3>1. PayloadOf(c, <<"interface-node-coverage-gaps", w.id>>)
            = interfaceNodeCoverageGapsPayload(buildInterfaceNodeCoverageRows(c, w.id))
      BY PayloadsByKey
    <3> QED BY <1>4, <1>5, <3>1, StoredIsPreferred
  <2> HIDE DEF row, B
  <2> QED BY <2>1 DEF interfaceNodeCoverageGapsPage, interfaceNodeCoverageGapsPayload
<1>8. page.rows = {shown[b] : b \in B}
  <2> DEFINE Hydrated(r) == [r EXCEPT !.status = Adm(r.step)]
             R == {row[b] : b \in B}
  <2>1. \A b \in B : Hydrated(row[b]) = shown[b]
    OBVIOUS
  <2>2. hydrateInterfaceNodeCoveragePayload(R) = {Hydrated(r) : r \in R}
    <3> HIDE DEF R
    <3> QED BY DEF hydrateInterfaceNodeCoveragePayload
  <2> HIDE DEF row, B, shown, Adm, Hydrated
  <2>3. {Hydrated(r) : r \in R} = {Hydrated(row[b]) : b \in B}
    OBVIOUS
  <2>4. {Hydrated(row[b]) : b \in B} = {shown[b] : b \in B}
    BY <2>1
  <2>5. page.rows = {Hydrated(r) : r \in R}
    BY <1>6, <2>2
  <2> HIDE DEF page, R
  <2> QED BY <2>3, <2>4, <2>5
<1>9. \A b \in B : /\ shown[b].step = b /\ (shown[b].mapped <=> b \in M)
                   /\ row[b].step = b /\ (row[b].mapped <=> b \in M)
  OBVIOUS
<1>10. IsFiniteSet(B) /\ M \subseteq B
  <2>1. IsFiniteSet(c.bindings)
    BY ReadModelsAssumption
  <2>2. B \in SUBSET c.bindings /\ M \subseteq B
    OBVIOUS
  <2> HIDE DEF B, M
  <2> QED BY <2>1, <2>2, FS_Subset
<1>11. DOMAIN shown = B /\ DOMAIN row = B
  OBVIOUS
<1> HIDE DEF row, B, shown, M, page, gaps
<1>12. {r.step : r \in page.rows} = w.steps
  BY <1>3, <1>8, <1>9
<1>13. IsFiniteSet(M) /\ IsFiniteSet(B \ M) /\ Cardinality(B) = Cardinality(M) + Cardinality(B \ M)
  <2>1. IsFiniteSet(M) /\ IsFiniteSet(B \ M)
    BY <1>10, FS_Subset
  <2>2. Cardinality(B \ M) = Cardinality(B) - Cardinality(M)
    <3>1. Cardinality(B \ M) = Cardinality(B) - Cardinality(B \cap M)
      BY <1>10, FS_Difference
    <3>2. B \cap M = M
      BY <1>10
    <3> QED BY <3>1, <3>2
  <2>3. Cardinality(B) \in Nat /\ Cardinality(M) \in Nat /\ Cardinality(B \ M) \in Nat
    BY <1>10, <2>1, FS_CardinalityType
  <2>4. Cardinality(B) = Cardinality(M) + Cardinality(B \ M)
    BY <2>2, <2>3
  <2> QED BY <2>1, <2>4
<1>14. Cardinality({r \in page.rows : r.mapped}) = Cardinality(M)
  <2> DEFINE f == [b \in M |-> shown[b]]
  <2>1. {r \in page.rows : r.mapped} = {f[b] : b \in M}
    BY <1>8, <1>9, <1>10
  <2>2. DOMAIN f = M /\ \A x, y \in M : f[x] = f[y] => x = y
    BY <1>9, <1>10
  <2> HIDE DEF f
  <2> QED BY <1>13, <2>1, <2>2, SameCount
<1>15. Cardinality(gaps) = Cardinality(B \ M)
  <2> DEFINE f == [b \in B \ M |-> row[b]]
  <2>1. gaps = {f[b] : b \in B \ M}
    BY <1>7, <1>9
  <2>2. DOMAIN f = B \ M /\ \A x, y \in B \ M : f[x] = f[y] => x = y
    BY <1>9
  <2> HIDE DEF f
  <2> QED BY <1>13, <2>1, <2>2, SameCount
<1> QED BY <1>3, <1>6, <1>12, <1>13, <1>14, <1>15 DEF page, gaps

-----------------------------------------------------------------------------
(* The pages: a node and the directory                                      *)

LEMMA SameIds ==
  ASSUME NEW S, NEW T,
         \A t \in T : \E s \in S : s.id = t.id, \A s \in S : \E t \in T : s.id = t.id
  PROVE  Ids(S) = Ids(T)
<1>1. ASSUME NEW x \in Ids(S) PROVE x \in Ids(T)
  BY DEF Ids
<1>2. ASSUME NEW x \in Ids(T) PROVE x \in Ids(S)
  BY DEF Ids
<1> QED BY <1>1, <1>2

(* The directory reads the model of the nodes.                              *)
LEMMA DirectoryOfTheCatalog ==
  ASSUME NEW c \in Catalogs, current = {c}, InForce = c, c.nodes # {},
         \A k \in KeysOf(c) : IsStored(c, k)
  PROVE  LET Timed(n) == \E m \in c.nodes : m.id = n /\ m.timed
             States(n) == [k \in Ids(c.cases) |-> preferredCaseStates(k, Timed(n))]
         IN interfaceNodesPage("")
              = {[id |-> n.id, status |-> interfaceNodeCoverageAdmission(n.id, States(n.id))] :
                   n \in c.nodes}
<1> DEFINE Timed(n) == \E m \in c.nodes : m.id = n /\ m.timed
           States(n) == [k \in Ids(c.cases) |-> preferredCaseStates(k, Timed(n))]
           Item(i) == [id |-> i, status |-> interfaceNodeCoverageAdmission(i, States(i))]
           base == interfaceNodesBasePayloadFromCatalog(c)
<1>1. Preferred(<<"interface-nodes">>, base) = base
  <2>1. IsStored(c, <<"interface-nodes">>)
    BY DEF KeysOf
  <2>2. PayloadOf(c, <<"interface-nodes">>) = base
    BY PayloadsByKey
  <2> HIDE DEF base
  <2> QED BY <2>1, <2>2, StoredIsPreferred
<1>2. OfService(base, "") = base
  <2> HIDE DEF base
  <2> QED BY DEF OfService
<1>3. interfaceNodesPage("") = hydrateInterfaceNodesPayload(base)
  BY <1>1, <1>2 DEF interfaceNodesPage, interfaceNodesPayloadFromStore
<1>4. hydrateInterfaceNodesPayload(base) = {Item(item.id) : item \in base}
  <2> HIDE DEF base
  <2> QED BY DEF hydrateInterfaceNodesPayload
<1>5. base = {[id |-> n.id, service |-> n.service] : n \in c.nodes}
  BY DEF interfaceNodesBasePayloadFromCatalog
<1> HIDE DEF Item, base
<1>6. {Item(item.id) : item \in base} = {Item(n.id) : n \in c.nodes}
  <2>1. \A n \in c.nodes : \E item \in base : item.id = n.id
    <3> TAKE n \in c.nodes
    <3>1. [id |-> n.id, service |-> n.service] \in base
      BY <1>5
    <3> QED BY <3>1
  <2>2. \A item \in base : \E n \in c.nodes : item.id = n.id
    BY <1>5
  <2> QED BY <2>1, <2>2
<1> QED BY <1>3, <1>4, <1>6 DEF Item

(* The directory admits a node when each of its required cases passed.      *)
LEMMA AdmissionOfANode ==
  ASSUME PagesInv, NEW c \in Catalogs, InForce = c, NEW n, NEW timed
  PROVE  interfaceNodeCoverageAdmission(n, [k \in Ids(c.cases) |-> preferredCaseStates(k, timed)])
           = "passed"
           <=> /\ \E k \in catalogCasesForNode(c, n) : k.required
               /\ \A k \in catalogCasesForNode(c, n) :
                    k.required => \E i \in DOMAIN runs : Passes(i, k.id, timed)
<1> DEFINE required == {k \in catalogCasesForNode(c, n) : k.required}
           states == [k \in Ids(c.cases) |-> preferredCaseStates(k, timed)]
           adm == interfaceNodeCoverageAdmission(n, states)
<1>1. \A k \in catalogCasesForNode(c, n) : states[k.id] = preferredCaseStates(k.id, timed)
  BY DEF catalogCasesForNode, Ids
<1>2. \A k \in catalogCasesForNode(c, n) :
        states[k.id] = "passed" <=> \E i \in DOMAIN runs : Passes(i, k.id, timed)
  <2> HIDE DEF states
  <2> QED BY <1>1, DirectoryOfACase
<1> HIDE DEF states
<1>3. adm = IF required # {} /\ (\A k \in required : states[k.id] = "passed") THEN "passed"
            ELSE IF \E k \in required : states[k.id] = "failed" THEN "failed" ELSE "pending"
  BY DEF interfaceNodeCoverageAdmission
<1>4. adm = "passed" <=> required # {} /\ (\A k \in required : states[k.id] = "passed")
  <2> HIDE DEF adm, required
  <2> QED BY <1>3
<1>5. adm = "passed" <=> /\ \E k \in catalogCasesForNode(c, n) : k.required
                         /\ \A k \in catalogCasesForNode(c, n) :
                              k.required => \E i \in DOMAIN runs : Passes(i, k.id, timed)
  <2> HIDE DEF adm
  <2> QED BY <1>2, <1>4
<1> QED BY <1>5 DEF states

(* A node's page lists its active cases and agrees with the directory.      *)
LEMMA NodePageIsTheCatalogs ==
  ASSUME PagesInv, NEW c \in Catalogs, current = {c}, InForce = c,
         \A k \in KeysOf(c) : IsStored(c, k),
         NEW n \in c.nodes, NEW page \in interfaceNodePage(n.id, "")
  PROVE  /\ Ids(page.cases) = Ids(catalogCasesForNode(c, n.id))
         /\ \E item \in interfaceNodesPage("") :
              item.id = n.id /\ (item.status = "passed" <=> page.status = "passed")
<1> DEFINE key == <<"interface-node", n.id>>
           d == interfaceNodeDetailPayloadFromCatalog(c, n.id)
           of == catalogCasesForNode(c, n.id)
           Timed(m) == \E o \in c.nodes : o.id = m /\ o.timed
           States(m) == [k \in Ids(c.cases) |-> preferredCaseStates(k, Timed(m))]
<1>1. interfaceNodeDetail(n.id) = {d}
  <2>1. key \in KeysOf(c)
    BY DEF KeysOf, Ids
  <2>2. PayloadOf(c, key) = d
    BY PayloadsByKey
  <2> HIDE DEF key, d
  <2>3. readModelPayload(key) = {d}
    BY <2>1, <2>2 DEF readModelPayload, IsStored
  <2> QED BY <2>3 DEF interfaceNodeDetail, key
<1>2. d.timed = n.timed /\ d.cases = casesForCatalogNode(c, n.id)
  <2>1. \A m \in c.nodes : m.id = n.id => m = n
    BY ReadModelsAssumption
  <2>2. ById(c.nodes, n.id) = n
    BY <2>1 DEF ById
  <2> QED BY <2>2 DEF interfaceNodeDetailPayloadFromCatalog
<1>3. d.cases = {[id |-> k.id, required |-> k.required] : k \in of}
  BY <1>2 DEF casesForCatalogNode
<1> HIDE DEF d, of
<1>4. page = hydrateInterfaceNodeHistory(d, interfaceNodeRunContext(""))
  BY <1>1 DEF interfaceNodePage
<1>5. page.cases = d.cases
  BY <1>4 DEF hydrateInterfaceNodeHistory
<1>6. /\ \A k \in of : \E e \in d.cases : e.id = k.id /\ e.required = k.required
      /\ \A e \in d.cases : \E k \in of : e.id = k.id /\ e.required = k.required
  <2>1. ASSUME NEW k \in of
        PROVE  \E e \in d.cases : e.id = k.id /\ e.required = k.required
    <3>1. [id |-> k.id, required |-> k.required] \in d.cases
      BY <1>3
    <3> QED BY <3>1
  <2>2. ASSUME NEW e \in d.cases
        PROVE  \E k \in of : e.id = k.id /\ e.required = k.required
    <3>1. PICK k \in of : e = [id |-> k.id, required |-> k.required]
      BY <1>3
    <3> QED BY <3>1
  <2> QED BY <2>1, <2>2
<1>7. page.status = "passed"
        <=> /\ \E k \in of : k.required
            /\ \A k \in of : k.required => \E i \in DOMAIN runs : Passes(i, k.id, n.timed)
  <2>1. page.status = "passed"
          <=> /\ \E k \in d.cases : k.required
              /\ \A k \in d.cases : k.required => \E i \in DOMAIN runs : Passes(i, k.id, n.timed)
    BY <1>2, <1>4, PassedPage, ContextsAreOfRuns
  <2>2. (\E k \in d.cases : k.required) <=> \E k \in of : k.required
    BY <1>6
  <2>3. (\A k \in d.cases : k.required => \E i \in DOMAIN runs : Passes(i, k.id, n.timed))
          <=> \A k \in of : k.required => \E i \in DOMAIN runs : Passes(i, k.id, n.timed)
    BY <1>6
  <2> QED BY <2>1, <2>2, <2>3
<1>8. \A i, k : Passes(i, k, n.timed) <=> Passes(i, k, Timed(n.id))
  <2>1. Timed(n.id) <=> n.timed
    BY ReadModelsAssumption
  <2> QED BY <2>1 DEF Passes, evaluateLatestCaseStateTimeout
<1> DEFINE item == [id |-> n.id, status |-> interfaceNodeCoverageAdmission(n.id, States(n.id))]
<1>9. item \in interfaceNodesPage("")
  BY DirectoryOfTheCatalog
<1>10. item.status = "passed" <=> page.status = "passed"
  <2>1. item.status = "passed"
          <=> /\ \E k \in of : k.required
              /\ \A k \in of :
                   k.required => \E i \in DOMAIN runs : Passes(i, k.id, Timed(n.id))
    <3> DEFINE timed == Timed(n.id)
               states == [k \in Ids(c.cases) |-> preferredCaseStates(k, timed)]
    <3>1. item.status = interfaceNodeCoverageAdmission(n.id, states)
      OBVIOUS
    <3> HIDE DEF timed
    <3>2. interfaceNodeCoverageAdmission(n.id, states) = "passed"
            <=> /\ \E k \in of : k.required
                /\ \A k \in of : k.required => \E i \in DOMAIN runs : Passes(i, k.id, timed)
      BY AdmissionOfANode DEF of
    <3> HIDE DEF states, item
    <3>3. item.status = "passed"
            <=> /\ \E k \in of : k.required
                /\ \A k \in of : k.required => \E i \in DOMAIN runs : Passes(i, k.id, timed)
      BY <3>1, <3>2
    <3> QED BY <3>3 DEF timed
  <2> HIDE DEF item, Timed
  <2> QED BY <1>7, <1>8, <2>1
<1>11. item.id = n.id
  OBVIOUS
<1> HIDE DEF item
<1>12. Ids(page.cases) = Ids(of)
  <2>1. \A k \in of : \E e \in d.cases : e.id = k.id
    BY <1>6
  <2>2. \A e \in d.cases : \E k \in of : e.id = k.id
    BY <1>6
  <2>3. Ids(d.cases) = Ids(of)
    BY <2>1, <2>2, SameIds
  <2> QED BY <1>5, <2>3
<1> QED BY <1>9, <1>10, <1>11, <1>12 DEF of

LEMMA DirectoryListsTheNodes ==
  ASSUME NEW c \in Catalogs, current = {c}, InForce = c, c.nodes # {},
         \A k \in KeysOf(c) : IsStored(c, k)
  PROVE  Ids(interfaceNodesPage("")) = Ids(c.nodes)
<1> DEFINE Timed(n) == \E m \in c.nodes : m.id = n /\ m.timed
           States(n) == [k \in Ids(c.cases) |-> preferredCaseStates(k, Timed(n))]
           Admission(n) == interfaceNodeCoverageAdmission(n, States(n))
<1>1. interfaceNodesPage("") = {[id |-> n.id, status |-> Admission(n.id)] : n \in c.nodes}
  BY DirectoryOfTheCatalog
<1> DEFINE items == interfaceNodesPage("")
<1> HIDE DEF Admission
<1>2. \A n \in c.nodes : \E item \in items : item.id = n.id
  <2> TAKE n \in c.nodes
  <2>1. [id |-> n.id, status |-> Admission(n.id)] \in items
    BY <1>1
  <2> HIDE DEF items
  <2> QED BY <2>1
<1>3. ASSUME NEW item \in items PROVE \E n \in c.nodes : item.id = n.id
  <2>1. PICK n \in c.nodes : item = [id |-> n.id, status |-> Admission(n.id)]
    BY <1>1
  <2> QED BY <2>1
<1> HIDE DEF items
<1>4. Ids(items) = Ids(c.nodes)
  BY <1>2, <1>3, SameIds
<1> QED BY <1>4 DEF items

-----------------------------------------------------------------------------
(* The pages: the dashboard                                                 *)

(* With every active service running, an item of each, running.             *)
LEMMA DashboardOfTheServices ==
  ASSUME NEW c \in Catalogs, current = {c}, InForce = c, c.services # {},
         \A k \in KeysOf(c) : IsStored(c, k)
  PROVE  LET services == activeCatalogServices(c)
             all == Ids(services)
             urls == dashboardComponentHealthURLByService(services)
         IN dashboardPage([i \in all |-> "running"], all)
              = {[id |-> s.id, state |-> "running",
                  ok |-> applyHTTPServiceHealth(s.id, "running", s.id \in urls \/ s.url, all)] :
                   s \in services}
<1> DEFINE services == activeCatalogServices(c)
           all == Ids(services)
           urls == dashboardComponentHealthURLByService(services)
           base == dashboardPayloadFromCatalog(c)
           up == [i \in all |-> "running"]
           Observed(i) == IF i.id \in DOMAIN up THEN up[i.id] ELSE i.state
           Shown(i) == [id |-> i.id, state |-> Observed(i),
                        ok |-> applyHTTPServiceHealth(i.id, Observed(i),
                                 i.id \in urls \/ ById(services, i.id).url, all)]
           Item(s) == [id |-> s.id, state |-> IF s.external THEN "external" ELSE "missing",
                       ok |-> s.external]
           Row(s) == [id |-> s.id, state |-> "running",
                      ok |-> applyHTTPServiceHealth(s.id, "running", s.id \in urls \/ s.url, all)]
<1>1. Preferred(<<"dashboard">>, base) = base
  <2>1. IsStored(c, <<"dashboard">>)
    BY DEF KeysOf
  <2>2. PayloadOf(c, <<"dashboard">>) = base
    BY PayloadsByKey
  <2> HIDE DEF base
  <2> QED BY <2>1, <2>2, StoredIsPreferred
<1>2. base = {Item(s) : s \in services}
  BY DEF dashboardPayloadFromCatalog
<1>3. \A s \in services : Item(s).id = s.id /\ s.id \in all
  BY DEF Ids
<1>4. \A s \in services : ById(services, s.id) = s
  <2>1. services \subseteq c.services
    BY DEF activeCatalogServices
  <2>2. \A s, t \in services : s.id = t.id => s = t
    BY <2>1, ReadModelsAssumption
  <2> HIDE DEF services
  <2> QED BY <2>2 DEF ById
<1>5. dashboardPage([i \in all |-> "running"], all) = hydrateDashboardRuntime(base, [i \in all |-> "running"], all)
  BY <1>1 DEF dashboardPage
<1>6. hydrateDashboardRuntime(base, [i \in all |-> "running"], all)
        = {Shown(i) : i \in filterDashboardPayloadServices(base, services)}
  <2> HIDE DEF base
  <2> QED BY DEF hydrateDashboardRuntime
<1> HIDE DEF services, urls, base, Item
<1>7. filterDashboardPayloadServices(base, services) = base
  <2>1. \A i \in base : i.id \in all
    BY <1>2, <1>3
  <2> HIDE DEF all
  <2> QED BY <2>1 DEF filterDashboardPayloadServices, all
<1> HIDE DEF all
<1>8. \A s \in services : Shown(Item(s)) = Row(s)
  <2> TAKE s \in services
  <2>1. Item(s).id = s.id /\ s.id \in all /\ ById(services, s.id) = s
    BY <1>3, <1>4
  <2>2. Observed(Item(s)) = "running"
    BY <2>1
  <2> HIDE DEF Observed
  <2> QED BY <2>1, <2>2
<1> HIDE DEF Shown, Row
<1>9. {Shown(i) : i \in base} = {Row(s) : s \in services}
  BY <1>2, <1>8
<1>10. dashboardPage([i \in all |-> "running"], all) = {Row(s) : s \in services}
  BY <1>5, <1>6, <1>7, <1>9
<1> QED BY <1>10 DEF Row, all, urls, services

(* Its counts are the services.                                             *)
LEMMA DashboardCountsTheServices ==
  ASSUME NEW c \in Catalogs, current = {c}, InForce = c, c.services # {},
         \A k \in KeysOf(c) : IsStored(c, k)
  PROVE  LET known == {s.id : s \in {s \in c.services : s.url}}
             all == Ids(activeCatalogServices(c))
             sum == dashboardSummaryForItems(dashboardPage([i \in all |-> "running"], all))
         IN /\ sum.healthy + sum.missing + sum.unhealthy = Cardinality(all)
            /\ all \subseteq known => sum.healthy = Cardinality(all)
<1> DEFINE known == {s.id : s \in {s \in c.services : s.url}}
           services == activeCatalogServices(c)
           all == Ids(services)
           urls == dashboardComponentHealthURLByService(services)
           page == dashboardPage([i \in all |-> "running"], all)
           sum == dashboardSummaryForItems(page)
           Ok(s) == applyHTTPServiceHealth(s.id, "running", s.id \in urls \/ s.url, all)
           f == [s \in services |-> [id |-> s.id, state |-> "running", ok |-> Ok(s)]]
           g == [s \in services |-> s.id]
           healthy == {i \in page : i.ok}
           missing == {i \in page : ~i.ok /\ i.state = "missing"}
           unhealthy == {i \in page : ~i.ok /\ i.state # "missing"}
<1>1. /\ services \subseteq c.services /\ IsFiniteSet(services)
      /\ \A s, t \in c.services : s.id = t.id => s = t
  <2>1. /\ IsFiniteSet(c.services)
        /\ \A s, t \in c.services : s.id = t.id => s = t
    BY ReadModelsAssumption
  <2>2. services \in SUBSET c.services
    BY DEF activeCatalogServices
  <2> HIDE DEF services
  <2> QED BY <2>1, <2>2, FS_Subset
<1>2. page = {f[s] : s \in services}
  BY DashboardOfTheServices
<1>3. all = {g[s] : s \in services}
  BY DEF Ids
<1>4. \A s \in services :
        /\ f[s].id = s.id /\ f[s].state = "running" /\ (f[s].ok <=> Ok(s)) /\ g[s] = s.id
  OBVIOUS
<1>5. DOMAIN f = services /\ DOMAIN g = services
  OBVIOUS
<1>6. \A s \in services : s.id \in known => Ok(s)
  <2>1. ASSUME NEW s \in services, s.id \in known PROVE s.url
    BY <1>1, <2>1
  <2>2. \A s \in services : s.id \in all
    BY DEF Ids
  <2> HIDE DEF known, services, all, urls
  <2> QED BY <2>1, <2>2 DEF applyHTTPServiceHealth
<1>7. sum = [healthy |-> Cardinality(healthy), missing |-> Cardinality(missing),
             unhealthy |-> Cardinality(unhealthy)]
  <2> HIDE DEF page
  <2> QED BY DEF dashboardSummaryForItems
<1> HIDE DEF services, all, urls, page, Ok, f, g, known, sum
<1>8. IsFiniteSet(page) /\ Cardinality(page) = Cardinality(services)
  <2>1. \A s, t \in services : f[s] = f[t] => s = t
    BY <1>1, <1>4
  <2> QED BY <1>1, <1>2, <1>5, <2>1, SameCount
<1>9. Cardinality(all) = Cardinality(services)
  <2>1. \A s, t \in services : g[s] = g[t] => s = t
    BY <1>1, <1>4
  <2> QED BY <1>1, <1>3, <1>5, <2>1, SameCount
<1>10. \A i \in page : i.state = "running"
  BY <1>2, <1>4
<1>11. missing = {} /\ Cardinality(missing) = 0
  <2>1. missing = {}
    BY <1>10
  <2> QED BY <2>1, FS_EmptySet
<1>12. unhealthy = page \ healthy /\ healthy \subseteq page
  BY <1>10
<1> HIDE DEF healthy, missing, unhealthy
<1>13. /\ IsFiniteSet(healthy) /\ Cardinality(healthy) \in Nat /\ Cardinality(page) \in Nat
       /\ Cardinality(unhealthy) = Cardinality(page) - Cardinality(healthy)
  <2>1. IsFiniteSet(healthy) /\ page \cap healthy = healthy
    BY <1>8, <1>12, FS_Subset
  <2>2. Cardinality(page \ healthy) = Cardinality(page) - Cardinality(page \cap healthy)
    BY <1>8, FS_Difference
  <2>3. Cardinality(page) \in Nat /\ Cardinality(healthy) \in Nat
    BY <1>8, <2>1, FS_CardinalityType
  <2> QED BY <1>12, <2>1, <2>2, <2>3
<1>14. sum.healthy + sum.missing + sum.unhealthy = Cardinality(all)
  BY <1>7, <1>8, <1>9, <1>11, <1>13
<1>15. ASSUME all \subseteq known PROVE sum.healthy = Cardinality(all)
  <2>1. \A s \in services : f[s].ok
    BY <1>3, <1>4, <1>6, <1>15
  <2>2. healthy = page
    BY <1>2, <2>1 DEF healthy
  <2> QED BY <1>7, <1>8, <1>9, <2>2
<1> QED BY <1>14, <1>15 DEF known, all, services, sum, page

-----------------------------------------------------------------------------
(* The pages: the theorems                                                  *)

LEMMA PagesFromTheInvariant ==
  ASSUME PagesInv
  PROVE  PagesShowThePublication
<1>1. \A n \in AllNodes : \A w \in AllWorkflows :
        \A page \in interfaceNodePage(n, w) : page.status = "passed" =>
          /\ page.history.passed > 0
          /\ \A whole \in interfaceNodePage(n, "") : whole.status = "passed"
  BY PassesAreEarned
<1>2. \A w \in catalogPage.workflows : \A i \in w.latest : runs[i].workflow = w.id
  BY LatestRunsAreOfTheWorkflow
<1>3. ASSUME Settled
      PROVE  /\ \A n \in InForce.nodes : \A page \in interfaceNodePage(n.id, "") :
                  /\ Ids(page.cases) = Ids(catalogCasesForNode(InForce, n.id))
                  /\ \E item \in interfaceNodesPage("") :
                       item.id = n.id /\ (item.status = "passed" <=> page.status = "passed")
             /\ InForce.nodes # {} => Ids(interfaceNodesPage("")) = Ids(InForce.nodes)
             /\ catalogHasAnyState(InForce) => \A w \in catalogPage.workflows :
                  LET page == interfaceNodeCoveragePage(w.id)
                      gaps == interfaceNodeCoverageGapsPage(w.id)
                  IN /\ {r.step : r \in page.rows} = w.steps
                     /\ page.summary.mapped + Cardinality(gaps) = Cardinality(w.steps)
             /\ LET known == {s.id : s \in {s \in InForce.services : s.url}}
                    all == Ids(activeCatalogServices(InForce))
                    sum == dashboardSummaryForItems(dashboardPage([i \in all |-> "running"], all))
                IN InForce.services # {} =>
                     /\ sum.healthy + sum.missing + sum.unhealthy = Cardinality(all)
                     /\ all \subseteq known => sum.healthy = Cardinality(all)
  <2>1. PICK c \in Catalogs : current = {c} /\ InForce = c /\ \A k \in KeysOf(c) : IsStored(c, k)
    BY <1>3, SettledIsStored
  <2>2. \A n \in c.nodes : \A page \in interfaceNodePage(n.id, "") :
          /\ Ids(page.cases) = Ids(catalogCasesForNode(c, n.id))
          /\ \E item \in interfaceNodesPage("") :
               item.id = n.id /\ (item.status = "passed" <=> page.status = "passed")
    BY <2>1, NodePageIsTheCatalogs
  <2>3. c.nodes # {} => Ids(interfaceNodesPage("")) = Ids(c.nodes)
    BY <2>1, DirectoryListsTheNodes
  <2>4. catalogHasAnyState(c) => \A w \in catalogPage.workflows :
          LET page == interfaceNodeCoveragePage(w.id)
              gaps == interfaceNodeCoverageGapsPage(w.id)
          IN /\ {r.step : r \in page.rows} = w.steps
             /\ page.summary.mapped + Cardinality(gaps) = Cardinality(w.steps)
    BY <2>1, CoverageIsTheWorkflow
  <2>5. LET known == {s.id : s \in {s \in c.services : s.url}}
            all == Ids(activeCatalogServices(c))
            sum == dashboardSummaryForItems(dashboardPage([i \in all |-> "running"], all))
        IN c.services # {} =>
             /\ sum.healthy + sum.missing + sum.unhealthy = Cardinality(all)
             /\ all \subseteq known => sum.healthy = Cardinality(all)
    BY <2>1, DashboardCountsTheServices
  <2> QED BY <2>1, <2>2, <2>3, <2>4, <2>5
<1> QED BY <1>1, <1>2, <1>3 DEF PagesShowThePublication

(* Every stored read model is one of a published catalog, the runs are      *)
(* recorded runs, and what a publication that nothing disturbed has not     *)
(* stored of the catalog in force it is about to store.                     *)
THEOREM PagesInvariant == PagesSpec => []PagesInv
<1> QED BY StartOfThePages, StepOfThePages, PTL DEF PagesSpec

(* Once a publication that nothing disturbed is over, the pages of the      *)
(* control plane show the catalog it published, whatever was published,     *)
(* edited or left half done before it; at any time a page that says passed  *)
(* has a run that passed, and the page of a node in the context of one      *)
(* workflow claims no pass that the page without it denies.                 *)
THEOREM PagesShowWhatWasPublished == PagesSpec => []PagesShowThePublication
<1> QED BY PagesInvariant, PagesFromTheInvariant, PTL

====
