------------------------ MODULE EnvironmentCheckout ------------------------
(***************************************************************************)
(* The source checkouts of an environment restore                          *)
(* (environment_restore_sources.go, environment_restore_component_assets): *)
(* the package, the component repositories and the remote component assets *)
(* are prepared one after the other, each by a few git commands in a       *)
(* directory of the workspace that outlives the command.  A developer may  *)
(* work in the same directories, commits are pushed to the remote, git     *)
(* fails and the command is killed, all between two commands of a restore. *)
(*                                                                         *)
(* Commits are numbered in the order in which they were pushed; a          *)
(* checkout holds the commits up to "have" and stands at "head".           *)
(***************************************************************************)
EXTENDS Integers, Sequences

CONSTANTS
  Dirs,       \* checkout directories
  Items,      \* a sequence of sources, in the order they are prepared
  Foreign,    \* directories that are clones of some other remote at first
  Commits,    \* the bound on the commits of the remote
  GitFaults,     \* the bound on git failures and kills
  Edits       \* the bound on a developer's edits

NoRef == 0
SourceType == [dir : Dirs, url : BOOLEAN, ref : NoRef .. Commits, asset : BOOLEAN]

ASSUME CheckoutAssumption ==
  /\ Foreign \subseteq Dirs
  /\ Commits \in Nat \ {0} /\ GitFaults \in Nat /\ Edits \in Nat
  /\ Items \in Seq(SourceType)

VARIABLES
  disk,      \* the directories
  tip,       \* the newest commit of the remote
  at,        \* the source that is being prepared, and how far it is
  gitOpt,       \* --execute and --pull
  result,    \* the report of each source: its action and OK
  written,   \* the commit each component asset was last materialized from
  faults, edits

checkoutVars == <<disk, tip, at, gitOpt, result, written, faults, edits>>

Actions == {"none", "invalid-existing-checkout", "use-existing-checkout", "checkout-existing-ref",
            "pull-existing-checkout", "missing-repo-url", "clone"}
Steps == {"stat", "validate", "ref", "pull", "clone", "fetch", "checkout", "materialize"}
DirType == [kind : {"missing", "empty", "plain", "git"}, ours : BOOLEAN, have : 0 .. Commits,
            head : 0 .. Commits, detached : BOOLEAN, dirty : BOOLEAN]

CheckoutTypeOK ==
  /\ disk \in [Dirs -> DirType]
  /\ tip \in 1 .. Commits
  /\ at \in [i : 0 .. Len(Items), step : Steps]
  /\ gitOpt \in [execute : BOOLEAN, pull : BOOLEAN]
  /\ result \in [DOMAIN Items -> [action : Actions, ok : BOOLEAN]]
  /\ written \in [DOMAIN Items -> 0 .. Commits]
  /\ faults \in 0 .. GitFaults /\ edits \in 0 .. Edits

Missing == [kind |-> "missing", ours |-> FALSE, have |-> 0, head |-> 0, detached |-> FALSE,
            dirty |-> FALSE]
NoResult == [i \in DOMAIN Items |-> [action |-> "none", ok |-> TRUE]]

CheckoutInit ==
  /\ disk = [d \in Dirs |-> IF d \in Foreign THEN [Missing EXCEPT !.kind = "git", !.have = 1, !.head = 1]
                          ELSE Missing]
  /\ tip = 1
  /\ at = [i |-> 0, step |-> "stat"]
  /\ gitOpt = [execute |-> FALSE, pull |-> FALSE]
  /\ result = NoResult
  /\ written = [i \in DOMAIN Items |-> 0]
  /\ faults = 0 /\ edits = 0

Item == Items[at.i]
Dir == disk[Item.dir]

-----------------------------------------------------------------------------
(* The control of one source.                                              *)

\* The next source, or the end of the sources.
NextSource == [i |-> IF at.i = Len(Items) THEN 0 ELSE at.i + 1, step |-> "stat"]

\* The report of the source is written; an asset that was prepared is read next.
Report(action, ok) ==
  /\ result' = [result EXCEPT ![at.i] = [action |-> action, ok |-> ok]]
  /\ at' = IF Item.asset /\ ok /\ gitOpt.execute THEN [at EXCEPT !.step = "materialize"] ELSE NextSource
  /\ UNCHANGED <<gitOpt, written>>

GoTo(step) == at' = [at EXCEPT !.step = step] /\ UNCHANGED <<gitOpt, result, written>>

At(step) == at.i # 0 /\ at.step = step
Unharmed == UNCHANGED <<tip, faults, edits>>

\* A restore starts: every source is attempted, also after one has failed.
PrepareSources ==
  /\ at.i = 0
  /\ \E e, p \in BOOLEAN : gitOpt' = [execute |-> e, pull |-> p]
  /\ at' = NextSource
  /\ result' = NoResult
  /\ UNCHANGED <<disk, tip, written, faults, edits>>

\* What is there decides: a clone where there is nothing, else a check of it.
environmentRestoreRepo ==
  /\ At("stat")
  /\ CASE Dir.kind = "missing" /\ ~Item.url -> Report("missing-repo-url", FALSE)
       [] Dir.kind \in {"missing", "empty"} /\ Item.url ->
            IF gitOpt.execute THEN GoTo("clone") ELSE Report("clone", TRUE)
       [] OTHER ->
            IF Item.url \/ Item.ref # NoRef THEN GoTo("validate")
            ELSE Report("use-existing-checkout", TRUE)
  /\ UNCHANGED disk /\ Unharmed

(* Mutant of ValidCheckout: the origin of a checkout is not compared. *)
AnyOrigin == Dir.kind = "git" /\ ~Dir.dirty

\* A work tree of the recorded origin without uncommitted changes.
ValidCheckout == Dir.kind = "git" /\ (Item.url => Dir.ours) /\ ~Dir.dirty

\* rev-parse, remote get-url and status; then a ref comes before a pull.
environmentRestoreValidateCheckout ==
  /\ At("validate")
  /\ IF ~ValidCheckout THEN Report("invalid-existing-checkout", FALSE)
     ELSE IF Item.ref # NoRef THEN GoTo("ref")
     ELSE IF Item.url /\ gitOpt.execute /\ gitOpt.pull THEN GoTo("pull")
     ELSE Report("use-existing-checkout", TRUE)
  /\ UNCHANGED disk /\ Unharmed

\* Detached at the ref already, which takes the ref to be known here.
environmentRestoreCheckoutDetachedAtRef ==
  Dir.detached /\ Item.ref <= Dir.have /\ Dir.head = Item.ref

environmentRestoreExistingRef ==
  /\ At("ref")
  /\ IF environmentRestoreCheckoutDetachedAtRef THEN Report("use-existing-checkout", TRUE)
     ELSE IF ~gitOpt.execute THEN Report("checkout-existing-ref", TRUE)
     ELSE GoTo(IF Item.url THEN "fetch" ELSE "checkout")
  /\ UNCHANGED disk /\ Unharmed

-----------------------------------------------------------------------------
(* The git commands, as the code uses them.                                *)

\* git clone makes a checkout of the default branch; it cleans up after a
\* failure, not after a kill.
environmentRestoreCloneIntoCheckout ==
  /\ At("clone")
  /\ disk' = [disk EXCEPT ![Item.dir] =
               [kind |-> "git", ours |-> TRUE, have |-> tip, head |-> tip, detached |-> FALSE,
                dirty |-> FALSE]]
  /\ IF Item.ref = NoRef THEN Report("clone", TRUE)
     ELSE /\ result' = [result EXCEPT ![at.i].action = "clone"]
          /\ at' = [at EXCEPT !.step = "checkout"]
          /\ UNCHANGED <<gitOpt, written>>
  /\ Unharmed

\* git pull --ff-only: refused off a branch, by a foreign remote's checkout it
\* never reaches, and over local changes; a branch that diverged and a remote
\* that cannot be reached are among the failures of GitFails.
environmentRestorePullExisting ==
  /\ At("pull")
  /\ LET ok == Dir.kind = "git" /\ ~Dir.detached /\ ~Dir.dirty IN
       /\ disk' = [disk EXCEPT ![Item.dir] = IF ok THEN [@ EXCEPT !.have = tip, !.head = tip]
                                              ELSE @]
       /\ Report("pull-existing-checkout", ok)
  /\ Unharmed

FetchTags ==
  /\ At("fetch")
  /\ disk' = [disk EXCEPT ![Item.dir].have = tip]
  /\ GoTo("checkout")
  /\ Unharmed

\* git checkout --detach: refused for an unknown ref; over local changes it
\* fails or carries them along.
environmentRestoreExistingRefCommands ==
  /\ At("checkout")
  /\ \E ok \in BOOLEAN :
       /\ Item.ref > Dir.have => ~ok
       /\ Item.ref <= Dir.have /\ ~Dir.dirty => ok
       /\ disk' = [disk EXCEPT ![Item.dir] =
                     IF ok THEN [@ EXCEPT !.head = Item.ref, !.detached = TRUE] ELSE @]
       /\ Report(IF result[at.i].action = "none" THEN "checkout-existing-ref" ELSE "clone", ok)
  /\ Unharmed

\* The asset's file is read from its checkout and written to its target.
environmentRestoreRemoteComponentAssets ==
  /\ At("materialize")
  /\ written' = [written EXCEPT ![at.i] = Dir.head]
  /\ at' = NextSource
  /\ UNCHANGED <<disk, gitOpt, result>> /\ Unharmed

-----------------------------------------------------------------------------
(* The rest of the world.                                                  *)

\* A git command that changes something fails, or the directory above a new
\* checkout cannot be made: the report of the source is the same but for its
\* words.
GitFails ==
  /\ faults < GitFaults /\ faults' = faults + 1
  /\ at.i # 0 /\ at.step \in {"pull", "clone", "fetch", "checkout"}
  /\ Report(CASE at.step = "pull" -> "pull-existing-checkout" [] at.step = "clone" -> "clone"
              [] OTHER -> "checkout-existing-ref", FALSE)
  /\ UNCHANGED <<disk, tip, edits>>

\* The command is killed; a clone under way is left half done.
Killed ==
  /\ faults < GitFaults /\ faults' = faults + 1
  /\ at.i # 0
  /\ \E k \in IF at.step = "clone" THEN {Dir.kind, "empty", "plain"} ELSE {Dir.kind} :
       disk' = [disk EXCEPT ![Item.dir].kind = k]
  /\ at' = [i |-> 0, step |-> "stat"]
  /\ UNCHANGED <<tip, gitOpt, result, written, edits>>

Push == tip < Commits /\ tip' = tip + 1 /\ UNCHANGED <<disk, at, gitOpt, result, written, faults, edits>>

\* A developer edits a checkout, and later puts the edit away.
Edit(d) ==
  /\ edits < Edits /\ edits' = edits + 1
  /\ disk[d].kind = "git"
  /\ disk' = [disk EXCEPT ![d].dirty = ~@]
  /\ UNCHANGED <<tip, at, gitOpt, result, written, faults>>

\* A developer switches a checkout back to its branch.
Switch(d) ==
  /\ edits < Edits /\ edits' = edits + 1
  /\ disk[d].kind = "git" /\ ~disk[d].dirty /\ disk[d].detached
  /\ disk' = [disk EXCEPT ![d].detached = FALSE, ![d].head = disk[d].have]
  /\ UNCHANGED <<tip, at, gitOpt, result, written, faults>>

Restore ==
  \/ environmentRestoreRepo \/ environmentRestoreValidateCheckout \/ environmentRestoreExistingRef
  \/ environmentRestoreCloneIntoCheckout \/ environmentRestorePullExisting \/ FetchTags
  \/ environmentRestoreExistingRefCommands \/ environmentRestoreRemoteComponentAssets

CheckoutNext ==
  \/ PrepareSources \/ Restore \/ GitFails \/ Killed \/ Push
  \/ \E d \in Dirs : Edit(d) \/ Switch(d)

CheckoutSpec == CheckoutInit /\ [][CheckoutNext]_checkoutVars

-----------------------------------------------------------------------------
\* Uncommitted changes survive every command of a restore, and a checkout of
\* some other remote is never moved on behalf of a source that has a remote.
LocalWorkSurvives ==
  [][Restore \/ GitFails =>
       /\ \A d \in Dirs : disk[d].dirty => disk'[d].dirty
       /\ Item.url /\ Dir.kind = "git" /\ ~Dir.ours => disk' = disk]_checkoutVars

=============================================================================
