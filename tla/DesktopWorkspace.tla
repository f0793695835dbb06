-------------------------- MODULE DesktopWorkspace --------------------------
(***************************************************************************)
(* The drafts of the desktop: requests, scenarios and step blocks a user   *)
(* edits while other clients edit the same catalog.                        *)
(*                                                                         *)
(* The control plane accepts a save only for the ETag of the whole catalog *)
(* (ProfileCatalog shows that it does); here it is one step.  The desktop  *)
(* keeps, for every request and scenario, a draft, the record it started   *)
(* from and the ETag its save will name.  A refresh reads each kind of     *)
(* record in a request of its own and is applied when the last has come    *)
(* back; several refreshes may be under way, and may be applied in any     *)
(* order, after a save, or after the desktop was connected to another      *)
(* Store.                                                                  *)
(*                                                                         *)
(* The desktop sees of a record what the control plane shows: secrets are  *)
(* masked, the interface a request belongs to is shared with the requests  *)
(* of its other cases.                                                     *)
(***************************************************************************)
EXTENDS Naturals, FiniteSets

CONSTANTS
  Items,      \* the records that can be edited
  Blocks,     \* the step blocks among them
  Scenes,     \* the scenarios among them
  Nodes,      \* the interfaces
  NodeOf,     \* the interface a request is a case of, or a scenario's steps use
  Derived,    \* requests that begin without an execution of their own
  Contents,   \* what a field can hold; 0 is nothing
  Keystrokes, \* the edits a user types
  Events      \* edits of others, refreshes no save starts, lost answers, changes of Store

VARIABLES
  head,       \* the catalog: its Store, its revision, its records and interfaces
  work,       \* the workspace: what the last refresh showed of each kind
  draft,      \* the drafts
  load,       \* the refreshes under way
  saving,     \* the saves under way
  importing,  \* an import of requests from a file
  library,    \* the step library panel's own copy of the catalog
  connecting, \* the desktop is connecting to another Store
  budget      \* what is left of the bounds

workspaceVars == <<head, work, draft, load, saving, importing, library, connecting, budget>>

ASSUME WorkspaceAssumption ==
  /\ Blocks \subseteq Items /\ Scenes \subseteq Items \ Blocks
  /\ NodeOf \in [Items -> Nodes] /\ Derived \subseteq Items
  /\ Contents # {} /\ Contents \subseteq Nat \ {0}
  /\ Keystrokes \in Nat /\ Events \in Nat

Drafted == Items \ Blocks
KindOf(i) == IF i \in Scenes THEN "scene" ELSE "request"
RecordKinds == {KindOf(i) : i \in Drafted}
Slots == Drafted \cup {"refresh", "import", "connect", "library"}

(* caseCatalogETag names the revision and the digest of the whole catalog.  *)
caseCatalogETag(h) == <<h.store, h.rev>>

Spend(what) == budget[what] > 0 /\ budget' = [budget EXCEPT ![what] = @ - 1]

(* A record: what is shown of it, a secret behind a mask, the credentials   *)
(* in its base URL, and whether its execution is configured for itself.     *)
NoRecord == [shown |-> 0, secret |-> 0, login |-> FALSE, own |-> FALSE]
Fresh(i, c) ==
  IF c = 0 THEN NoRecord
  ELSE [shown |-> c, secret |-> c, login |-> FALSE, own |-> i \notin Derived \cup Scenes]

(* writeRequestEditorSnapshot, writeWorkflowStudioSnapshot: secrets and      *)
(* credentials are left out. The service is the interface's; an execution    *)
(* that is not configured is derived from those beside it.                   *)
Hidden == [shown |-> 0, service |-> 0, derived |-> {}]
View(h, i) ==
  LET n == h.node[NodeOf[i]] IN
  IF h.of[i].shown = 0 THEN Hidden
  ELSE [shown |-> h.of[i].shown, service |-> n.service,
        derived |-> IF h.of[i].own THEN {} ELSE {n.shape}]

(* requestDraft, sceneDraft: a draft that is not edited. 0 is the mask.     *)
Clean(h, i) ==
  {[text |-> h.of[i].shown, secret |-> 0, service |-> h.node[NodeOf[i]].service,
    dirty |-> FALSE, etag |-> caseCatalogETag(h), base |-> View(h, i)]}

(* compileRequestEditor: a masked secret stays what it is, the credentials  *)
(* of the base URL do not, and the interface is rewritten with the case.    *)
(* compileWorkflowStudio, prepareStepBlockDefinition: no interface is.      *)
Written(h, i, d) ==
  [h EXCEPT
     !.rev = @ + 1,
     !.of[i] = [shown |-> d.text, secret |-> IF d.secret = 0 THEN @.secret ELSE d.secret,
                login |-> FALSE, own |-> i \notin Scenes],
     !.node[NodeOf[i]] = IF i \in Scenes \cup Blocks THEN @
                         ELSE [service |-> d.service, shape |-> d.text]]

WorkspaceInit ==
  /\ LET c == CHOOSE x \in Contents : TRUE
     IN head = [store |-> 1, rev |-> 0, of |-> [i \in Items |-> Fresh(i, c)],
                node |-> [n \in Nodes |-> [service |-> c, shape |-> c]]]
  /\ work = [k \in RecordKinds |-> head]
  /\ draft = [i \in Items |-> IF i \in Drafted THEN Clean(head, i) ELSE {}]
  /\ load = [s \in Slots |-> {}]
  /\ saving = [i \in Items |-> {}]
  /\ importing = {} /\ library = head /\ connecting = FALSE
  /\ budget = [keys |-> Keystrokes, events |-> Events]

Busy == \/ importing # {} \/ \E i \in Drafted : saving[i] # {} \/ load[i] # {}
        \/ load["import"] # {}

-----------------------------------------------------------------------------
(* Mutant of reconcileDrafts: an edited draft takes the ETag of every       *)
(* refresh, also when its record was changed meanwhile.                     *)
reconcileTakingETag(d, kind, seen) ==
  [i \in Items |->
     IF i \notin Drafted \/ KindOf(i) # kind \/ seen.of[i].shown = 0 THEN d[i]
     ELSE IF \E x \in d[i] : x.dirty
     THEN {[x EXCEPT !.etag = caseCatalogETag(seen)] : x \in d[i]}
     ELSE Clean(seen, i)]

(* reconcileDrafts: every record of the answer replaces its draft, but an   *)
(* edited draft, which only takes the new ETag while its record still looks *)
(* like the one it started from.  Drafts without a record stay.             *)
reconcileDrafts(d, kind, seen) ==
  [i \in Items |->
     IF i \notin Drafted \/ KindOf(i) # kind \/ seen.of[i].shown = 0 THEN d[i]
     ELSE IF \E x \in d[i] : x.dirty
     THEN {[x EXCEPT !.etag = IF x.base = View(seen, i) THEN caseCatalogETag(seen) ELSE @] : x \in d[i]}
     ELSE Clean(seen, i)]

(* loadWorkspace: requests and scenarios are read in separate requests.     *)
NoParts == [k \in RecordKinds |-> {}]
loadWorkspace(slot) == load' = [load EXCEPT ![slot] = {NoParts}]

ReadPart(slot, kind) ==
  /\ \E l \in load[slot] :
       /\ l[kind] = {}
       /\ load' = [load EXCEPT ![slot] = {[l EXCEPT ![kind] = {head}]}]
  /\ UNCHANGED <<head, work, draft, saving, importing, library, connecting, budget>>

(* refresh: once all have answered, the workspace and the drafts follow; if *)
(* one failed, nothing does.                                                *)
refresh(slot) ==
  /\ \E l \in load[slot] :
       /\ \A k \in RecordKinds : l[k] # {}
       /\ LET part(k) == CHOOSE h \in l[k] : TRUE
          IN /\ work' = [k \in RecordKinds |-> part(k)]
             /\ draft' = [i \in Items |->
                  IF i \in Blocks THEN draft[i]
                  ELSE reconcileDrafts(draft, KindOf(i), part(KindOf(i)))[i]]
  /\ load' = [load EXCEPT ![slot] = {}]
  /\ UNCHANGED <<head, saving, importing, library, connecting, budget>>

RefreshFails(slot) ==
  /\ load[slot] # {}
  /\ load' = [load EXCEPT ![slot] = {}]
  /\ UNCHANGED <<head, work, draft, saving, importing, library, connecting, budget>>

(* A refresh that no save started: of the first screen, after a request or  *)
(* a scenario has run.                                                      *)
StartRefresh ==
  /\ load["refresh"] = {} /\ Spend("events")
  /\ loadWorkspace("refresh")
  /\ UNCHANGED <<head, work, draft, saving, importing, library, connecting>>

-----------------------------------------------------------------------------
(* create: a new draft names the ETag of the last refresh.                  *)
create(i, text) ==
  /\ i \in Drafted /\ draft[i] = {} /\ work[KindOf(i)].of[i].shown = 0 /\ head.of[i].shown = 0
  /\ Spend("keys")
  /\ draft' = [draft EXCEPT ![i] =
       {[text |-> text, secret |-> 0, service |-> text, dirty |-> TRUE, base |-> Hidden,
         etag |-> caseCatalogETag(work[KindOf(i)])]}]
  /\ UNCHANGED <<head, work, load, saving, importing, library, connecting>>

(* patchRequest, patchScene: also while the draft is being saved.           *)
patch(i, field, c) ==
  /\ \E d \in draft[i] : d[field] # c
  /\ Spend("keys")
  /\ draft' = [draft EXCEPT ![i] = {[d EXCEPT ![field] = c, !.dirty = TRUE] : d \in @}]
  /\ UNCHANGED <<head, work, load, saving, importing, library, connecting>>

(* The step library opens a block of its own copy of the catalog.           *)
openBlock(i) ==
  /\ i \in Blocks /\ draft[i] = {} /\ library.of[i].shown # 0 /\ saving[i] = {}
  /\ draft' = [draft EXCEPT ![i] = Clean(library, i)]
  /\ UNCHANGED <<head, work, load, saving, importing, library, connecting, budget>>

(* StepLibrary load: the panel's ETag follows, its draft stays.             *)
loadLibrary ==
  /\ library # head
  /\ library' = head
  /\ UNCHANGED <<head, work, draft, load, saving, importing, connecting, budget>>

(* removeTab, confirmed: the draft goes back to what the workspace shows.   *)
discard(i) ==
  LET shown == work[KindOf(i)]
  IN /\ \E d \in draft[i] : d.dirty
     /\ draft' = [draft EXCEPT ![i] =
          IF i \in Blocks \/ shown.of[i].shown = 0 THEN {} ELSE Clean(shown, i)]
     /\ UNCHANGED <<head, work, load, saving, importing, library, connecting, budget>>

(* persistRequest and persistScene send the draft with its ETag; the step   *)
(* library sends its draft with the ETag of the panel.                      *)
save(i) ==
  /\ saving[i] = {} /\ (i \in Drafted => load[i] = {})
  /\ \E d \in draft[i] :
       /\ d.dirty
       /\ saving' = [saving EXCEPT ![i] =
            {[text |-> d.text, secret |-> d.secret, service |-> d.service, base |-> d.base,
              step |-> "sent", answer |-> {},
              etag |-> IF i \in Blocks THEN caseCatalogETag(library) ELSE d.etag]}]
  /\ UNCHANGED <<head, work, draft, load, importing, library, connecting, budget>>

(* PUT /api/request-editor, /api/workflow-studio, /api/step-library.        *)
Put(i) ==
  /\ \E s \in saving[i] :
       /\ s.step = "sent"
       /\ IF s.etag = caseCatalogETag(head)
          THEN /\ head' = Written(head, i, s)
               /\ saving' = [saving EXCEPT ![i] = {[s EXCEPT !.step = "ok", !.answer = {Written(head, i, s)}]}]
          ELSE head' = head /\ saving' = [saving EXCEPT ![i] = {[s EXCEPT !.step = "refused"]}]
  /\ UNCHANGED <<work, draft, load, importing, library, connecting, budget>>

PutLost(i) ==
  /\ \E s \in saving[i] : s.step \in {"sent", "ok"}
  /\ Spend("events")
  /\ saving' = [saving EXCEPT ![i] = {[s EXCEPT !.step = "refused", !.answer = {}] : s \in @}]
  /\ UNCHANGED <<head, work, draft, load, importing, library, connecting>>

(* A save that succeeded drops the draft, whatever was typed meanwhile, and *)
(* refreshes; one that did not leaves it.                                   *)
Saved(i) ==
  /\ \E s \in saving[i] :
       /\ s.step \in {"ok", "refused"}
       /\ IF s.step = "refused" THEN UNCHANGED <<draft, load, library>>
          ELSE LET cleared == [draft EXCEPT ![i] = {}]
                   seen == CHOOSE h \in s.answer : TRUE
               IN IF i \in Blocks
                  THEN draft' = cleared /\ library' = seen /\ loadWorkspace("library")
                  ELSE draft' = reconcileDrafts(cleared, KindOf(i), seen)
                       /\ loadWorkspace(i) /\ UNCHANGED library
  /\ saving' = [saving EXCEPT ![i] = {}]
  /\ UNCHANGED <<head, work, importing, connecting, budget>>

-----------------------------------------------------------------------------
(* applyImport: the records of a file one by one, the first with the ETag   *)
(* of the workspace and each next one with the ETag of the answer before.   *)
(* What the workspace showed, with what the import wrote, is kept as history.*)
applyImport(records) ==
  LET shown == work[CHOOSE k \in RecordKinds : \A i \in records : KindOf(i) = k]
  IN /\ importing = {} /\ records # {} /\ budget.keys > 0
     /\ budget' = [budget EXCEPT !.keys = @ - 1]
     /\ importing' = {[left |-> records, etag |-> caseCatalogETag(shown), shown |-> shown]}
     /\ UNCHANGED <<head, work, draft, load, saving, library, connecting>>

ImportPut(i, c) ==
  /\ \E m \in importing :
       /\ i \in m.left
       /\ LET d == [text |-> c, secret |-> 0, service |-> c]
              n == Written(head, i, d)
          IN IF m.etag = caseCatalogETag(head)
             THEN /\ head' = n
                  /\ importing' = {[left |-> m.left \ {i}, etag |-> caseCatalogETag(n),
                                    shown |-> Written(m.shown, i, d)]}
             ELSE head' = head /\ importing' = {}
  /\ UNCHANGED <<work, draft, load, saving, library, connecting, budget>>

ImportEnds ==
  /\ \E m \in importing : m.left = {}
  /\ importing' = {}
  /\ loadWorkspace("import")
  /\ UNCHANGED <<head, work, draft, saving, library, connecting, budget>>

(* connect: refused while a draft is edited or a job is busy...             *)
connect ==
  /\ ~connecting /\ ~Busy /\ \A i \in Items : \A d \in draft[i] : ~d.dirty
  /\ Spend("events")
  /\ connecting' = TRUE
  /\ UNCHANGED <<head, work, draft, load, saving, importing, library>>

(* ... and, once the other Store's engine has started, all drafts of        *)
(* requests and scenarios are dropped and a refresh begins.                 *)
Connected(c) ==
  /\ connecting
  /\ connecting' = FALSE
  /\ head' = [store |-> head.store + 1, rev |-> head.rev, of |-> [i \in Items |-> Fresh(i, c)],
            node |-> head.node]
  /\ draft' = [i \in Items |-> IF i \in Drafted THEN {} ELSE draft[i]]
  /\ loadWorkspace("connect")
  /\ UNCHANGED <<work, saving, importing, library, budget>>

(* The other engine does not start: the drafts stay.                        *)
ConnectFails ==
  /\ connecting
  /\ connecting' = FALSE
  /\ UNCHANGED <<head, work, draft, load, saving, importing, library, budget>>

(* Another client edits, adds or deletes a record, also only its secret, or *)
(* the credentials in its URL, or the interface by way of another case.     *)
OtherEdits(i, c) ==
  LET Edit(r) == head' = [head EXCEPT !.rev = @ + 1, !.of[i] = r]
      Beside(n) == head' = [head EXCEPT !.rev = @ + 1, !.node[NodeOf[i]] = n]
      record == head.of[i]
      node == head.node[NodeOf[i]]
  IN /\ Spend("events")
     /\ \/ c \notin {0, record.shown} /\ head' = Written(head, i, [text |-> c, secret |-> 0, service |-> c])
        \/ c = 0 /\ record.shown # 0 /\ \E r \in {NoRecord, [record EXCEPT !.login = TRUE]} : Edit(r)
        \/ c \notin {0, record.secret} /\ record.shown # 0 /\ Edit([record EXCEPT !.secret = c])
        \/ c \notin {0, node.service} /\ Beside([node EXCEPT !.service = c])
        \/ c \notin {0, node.shape} /\ Beside([node EXCEPT !.shape = c])
     /\ UNCHANGED <<work, draft, load, saving, importing, library, connecting>>

WorkspaceNext ==
  \/ StartRefresh
  \/ \E s \in Slots : refresh(s) \/ RefreshFails(s) \/ \E k \in RecordKinds : ReadPart(s, k)
  \/ \E i \in Items, c \in Contents : create(i, c) \/ ImportPut(i, c)
  \/ \E i \in Items, c \in Contents, field \in {"text", "secret", "service"} : patch(i, field, c)
  \/ \E i \in Items : openBlock(i) \/ discard(i) \/ save(i) \/ Put(i) \/ PutLost(i) \/ Saved(i)
  \/ loadLibrary
  \/ \E records \in SUBSET (Drafted \ Scenes) : applyImport(records)
  \/ ImportEnds \/ connect \/ ConnectFails
  \/ \E c \in Contents \cup {0} : Connected(c)
  \/ \E i \in Items, c \in Contents \cup {0} : OtherEdits(i, c)

WorkspaceSpec == WorkspaceInit /\ [][WorkspaceNext]_workspaceVars

-----------------------------------------------------------------------------
WorkspaceTypeOK ==
  /\ \A i \in Items : head.of[i].shown \in Contents \cup {0}
  /\ \A i \in Items : Cardinality(draft[i]) <= 1 /\ Cardinality(saving[i]) <= 1
  /\ \A s \in Slots : Cardinality(load[s]) <= 1

Replaces(i) == \E s \in saving[i] : s.step = "sent" /\ \E t \in saving'[i] : t.step = "ok"

(* A save of a request or a scenario replaces exactly what the user saw of  *)
(* it when the draft began, and an import what the workspace showed and the *)
(* import wrote: whatever the order in which refreshes, other saves and a   *)
(* change of Store are applied to the drafts, no edit of another client is  *)
(* overwritten that would have been seen. Nor is a secret behind its mask.  *)
(* Not covered is what nobody sees: a typed secret replaces any other, URL  *)
(* credentials are dropped, and the interface's name and path follow.       *)
NoSilentOverwrite ==
  [][/\ \A i \in Drafted : Replaces(i) => \A s \in saving[i] :
          /\ View(head, i) = s.base
          /\ s.secret = 0 => head'.of[i].secret = head.of[i].secret
     /\ \A m \in importing : \A i \in m.left :
          head' # head /\ importing' # {} /\ (\A n \in importing' : i \notin n.left)
            => View(head, i) = View(m.shown, i)]_workspaceVars

=============================================================================
