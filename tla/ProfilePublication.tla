------------------------- MODULE ProfilePublication -------------------------
(***************************************************************************)
(* Template packages on their way into the Store: packed into an archive,  *)
(* installed into the package home, published, verified, exported again,   *)
(* and restored from an earlier catalog.                                   *)
(*                                                                         *)
(* A package directory is a manifest with an inline version of its case    *)
(* and a case file with another one; each is 0 when it is not there.  A    *)
(* directory's digest is the directory itself.  A job is one command or    *)
(* one request of the control plane; it runs in steps, one per file system *)
(* walk and one per Store call, and may fail or be killed before each.     *)
(***************************************************************************)
EXTENDS Naturals, FiniteSets

CONSTANTS
  Jobs,         \* commands and requests, each made at most once
  Requests,     \* [Jobs -> what the job may be asked to do]
  Disk,         \* the packages at first
  Profiles,     \* profile identifiers
  ProfileOf,    \* [package source -> the profile its manifest names]
  Versions,     \* versions of a case; 0 stands for no version
  Unclean,      \* versions the package audit reports an issue for
  Refused,      \* profiles guardProfilePublishTarget keeps out of this Store
  ModelKeys,    \* read models every publication writes
  CheckedKeys,  \* the read models verify looks at
  Together,     \* jobs at work at one time
  Edits,        \* changes a developer makes to the package
  Faults        \* failing calls and kills

Sources == {"work", "archive", "home", "other"}
Packages == [manifest : SUBSET Nat, file : Nat]
JobKinds == {"import", "verify", "install", "restore", "export", "pack"}

ASSUME PublicationAssumption ==
  /\ ProfileOf \in [Sources -> Profiles] /\ Refused \subseteq Profiles
  /\ \A j \in Jobs : Requests[j] \subseteq
       [kind : JobKinds, source : Sources, force : BOOLEAN, audit : BOOLEAN, http : BOOLEAN,
        profile : Profiles]
  /\ Unclean \subseteq Versions /\ Versions \subseteq Nat \ {0}
  /\ Disk \in [Sources -> SUBSET Packages] /\ \A s \in Sources : \A p, q \in Disk[s] : p = q
  /\ CheckedKeys \subseteq ModelKeys /\ {Edits, Faults, Together} \subseteq Nat

VARIABLES
  disk,       \* [Sources -> the package directory, {} when it is not there]
  index,      \* [Profiles -> the digest in the profile index, {} without a row]
  catalog,    \* the profile indexed last, and every profile's revision and catalog
  configs,    \* config versions
  models,     \* [Profiles -> [ModelKeys -> the job that wrote it, or {}]]
  served,     \* the bundle the control plane serves
  job,        \* [Jobs -> where the job is and what it holds]
  alone,      \* jobs nothing else has interfered with since they began
  edits, faults

publicationVars == <<disk, index, catalog, configs, models, served, job, alone, edits, faults>>
storeVars == <<index, catalog, configs, models>>

Package(inline, file) == [manifest |-> {inline}, file |-> file]
NoRequest == [kind |-> "none", source |-> "work", force |-> FALSE, audit |-> FALSE,
              http |-> FALSE, profile |-> CHOOSE p \in Profiles : TRUE]
IdleJob == [pc |-> "idle", req |-> NoRequest, bundle |-> 0, digest |-> {}, at |-> 0, rev |-> 0,
         todo |-> {}, want |-> 0, ok |-> FALSE]

PublicationInit ==
  /\ disk = Disk
  /\ index = [p \in Profiles |-> {}]
  /\ catalog = [profile |-> {}, rev |-> [p \in Profiles |-> 0], of |-> [p \in Profiles |-> {}]]
  /\ configs = {} /\ models = [p \in Profiles |-> [k \in ModelKeys |-> {}]]
  /\ served = {} /\ job = [j \in Jobs |-> IdleJob] /\ alone = {} /\ edits = 0 /\ faults = 0

-----------------------------------------------------------------------------
(* Packages on disk                                                         *)

(* profile.Load: a manifest is required, and a case file's fields replace   *)
(* those of the case the manifest carries.                                  *)
Loadable(d) == \E p \in d : p.manifest # {}
mergeAPICase(inline, file) == IF file = 0 THEN inline ELSE file
Load(d) == LET p == CHOOSE x \in d : TRUE IN mergeAPICase(CHOOSE i \in p.manifest : TRUE, p.file)

(* BundleDigest walks the directory again.                                  *)
BundleDigest(d) == d

(* The directory a publication reads: an archive is installed first.        *)
materializeProfileReference(r) == IF r.source = "archive" THEN "home" ELSE r.source

(* A developer changes one file of the package.                             *)
Edit(v) ==
  /\ edits < Edits /\ disk["work"] # {}
  /\ \E p \in disk["work"] :
       \/ disk' = [disk EXCEPT !["work"] = {[p EXCEPT !.file = v]}]
       \/ disk' = [disk EXCEPT !["work"] = {[p EXCEPT !.manifest = {v}]}]
  /\ edits' = edits + 1 /\ alone' = {}
  /\ UNCHANGED <<storeVars, served, job, faults>>

-----------------------------------------------------------------------------
(* Jobs                                                                     *)

InFlight == {j \in Jobs : job[j].pc \notin {"idle", "done", "failed"}}
GoesTo(j, pc) == job' = [job EXCEPT ![j].pc = pc]
Fails(j) == GoesTo(j, "failed")

Start(r) ==
  IF r.kind \in {"pack", "export"} THEN r.kind
  ELSE IF r.kind = "restore" THEN "fetch"
  ELSE IF r.kind = "install" \/ r.source = "archive" THEN "remove" ELSE "guard"

Begin(j, r) ==
  /\ job[j].pc = "idle" /\ Cardinality(InFlight) < Together
  /\ job' = [job EXCEPT ![j] = [IdleJob EXCEPT !.pc = Start(r), !.req = r,
       !.want = IF Loadable(disk[r.source]) THEN Load(disk[r.source]) ELSE 0]]
  /\ alone' = IF InFlight = {} THEN {j} ELSE {}
  /\ UNCHANGED <<disk, storeVars, served, edits, faults>>

(* template-package pack: an existing archive needs --force.                *)
Pack(j) ==
  /\ job[j].pc = "pack"
  /\ IF Loadable(disk["work"]) /\ (disk["archive"] = {} \/ job[j].req.force)
     THEN disk' = [disk EXCEPT !["archive"] = disk["work"]] /\ GoesTo(j, "done")
     ELSE Fails(j) /\ UNCHANGED disk
  /\ UNCHANGED <<storeVars, served, alone, edits, faults>>

(* profilehome.Install: the source is loaded first; an installed package is *)
(* removed before the copy, also when it is the source itself.              *)
Install(j) ==
  /\ job[j].pc = "remove"
  /\ LET from == job[j].req.source IN
     IF Loadable(disk[from]) /\ (disk["home"] = {} \/ job[j].req.force)
     THEN disk' = [disk EXCEPT !["home"] = {}] /\ GoesTo(j, "copyFile")
     ELSE Fails(j) /\ UNCHANGED disk
  /\ UNCHANGED <<storeVars, served, alone, edits, faults>>

(* copyDir walks the source in name order: cases before profile.json.  A    *)
(* file the source lacks does not disturb one already at the target.        *)
copyDir(j) ==
  /\ job[j].pc \in {"copyFile", "copyManifest"}
  /\ LET from == disk[job[j].req.source]
         old == IF disk["home"] = {} THEN [manifest |-> {}, file |-> 0]
                ELSE CHOOSE p \in disk["home"] : TRUE IN
     IF from = {} THEN Fails(j) /\ UNCHANGED disk
     ELSE LET p == CHOOSE x \in from : TRUE IN
       IF job[j].pc = "copyFile"
       THEN /\ disk' = [disk EXCEPT !["home"] =
                          {[old EXCEPT !.file = IF p.file = 0 THEN @ ELSE p.file]}]
            /\ GoesTo(j, "copyManifest")
       ELSE /\ disk' = [disk EXCEPT !["home"] =
                          {[old EXCEPT !.manifest = IF p.manifest = {} THEN @ ELSE p.manifest]}]
            /\ GoesTo(j, IF job[j].req.kind = "install" THEN "done" ELSE "guard")
  /\ UNCHANGED <<storeVars, served, alone, edits, faults>>

DirOf(j) == disk[materializeProfileReference(job[j].req)]
IdOf(j) == IF job[j].req.kind = "restore" THEN job[j].req.profile ELSE ProfileOf[job[j].req.source]

(* The commands refuse test fixtures in a shared MySQL Store; the control   *)
(* plane does not ask.  A verify audits the package before it publishes.    *)
guardProfilePublishTarget(j) ==
  /\ job[j].pc = "guard"
  /\ IF ~Loadable(DirOf(j)) \/ (~job[j].req.http /\ IdOf(j) \in Refused)
        \/ (job[j].req.kind = "verify" /\ Load(DirOf(j)) \in Unclean)
     THEN Fails(j) ELSE GoesTo(j, "load")
  /\ UNCHANGED <<disk, storeVars, served, alone, edits, faults>>

(* Publish: the package is loaded and audited ...                           *)
PublishLoad(j) ==
  /\ job[j].pc = "load"
  /\ IF ~Loadable(DirOf(j))
        \/ ((job[j].req.audit \/ job[j].req.kind = "verify") /\ Load(DirOf(j)) \in Unclean)
     THEN Fails(j)
     ELSE job' = [job EXCEPT ![j].pc = "digest", ![j].bundle = Load(DirOf(j))]
  /\ UNCHANGED <<disk, storeVars, served, alone, edits, faults>>

(* ... its digest is taken from the files as they are then ...              *)
PublishDigest(j) ==
  /\ job[j].pc = "digest"
  /\ IF DirOf(j) = {} THEN Fails(j)
     ELSE job' = [job EXCEPT ![j].pc = "index", ![j].digest = BundleDigest(DirOf(j)),
                             ![j].at = Cardinality({i \in Jobs : job[i].at > 0}) + 1]
  /\ UNCHANGED <<disk, storeVars, served, alone, edits, faults>>

UpsertProfileIndex(j) ==
  /\ job[j].pc = "index"
  /\ index' = [index EXCEPT ![IdOf(j)] = job[j].digest]
  /\ GoesTo(j, "previous")
  /\ UNCHANGED <<disk, catalog, configs, models, served, alone, edits, faults>>

(* A restore reads the profile's own catalog; it needs a head catalog too.  *)
GetProfileCatalogByID(j) ==
  /\ job[j].pc = "fetch"
  /\ IF catalog.profile = {} \/ catalog.of[IdOf(j)] = {} THEN Fails(j)
     ELSE job' = [job EXCEPT ![j].pc = "previous",
                             ![j].bundle = CHOOSE v \in catalog.of[IdOf(j)] : TRUE]
  /\ UNCHANGED <<disk, storeVars, served, alone, edits, faults>>

(* ReplaceProfileCatalog reads the profile's revision and swaps against it; *)
(* a catalog with the same content keeps its revision.                      *)
ReadRevision(j) ==
  /\ job[j].pc = "previous"
  /\ job' = [job EXCEPT ![j].pc = "replace", ![j].rev = catalog.rev[IdOf(j)]]
  /\ UNCHANGED <<disk, storeVars, served, alone, edits, faults>>

SwapCatalog(j) ==
  /\ job[j].pc = "replace"
  /\ IF catalog.rev[IdOf(j)] # job[j].rev THEN Fails(j) /\ UNCHANGED catalog
     ELSE /\ catalog' = [profile |-> {IdOf(j)},
                         rev |-> IF catalog.of[IdOf(j)] = {job[j].bundle} THEN catalog.rev
                                 ELSE [catalog.rev EXCEPT ![IdOf(j)] = @ + 1],
                         of |-> [catalog.of EXCEPT ![IdOf(j)] = {job[j].bundle}]]
          /\ GoesTo(j, IF job[j].req.kind = "restore" THEN "activate" ELSE "reset")
  /\ UNCHANGED <<disk, index, configs, models, served, alone, edits, faults>>

(* Mutant of ResetActive: the versions of other profiles stay active.       *)
ResetOwnProfile(j) ==
  /\ job[j].pc = "reset"
  /\ configs' = {IF c.profile = IdOf(j) THEN [c EXCEPT !.active = FALSE] ELSE c : c \in configs}
  /\ GoesTo(j, "insert")
  /\ UNCHANGED <<disk, index, catalog, models, served, alone, edits, faults>>

(* UpsertConfigVersion is two statements without a transaction.             *)
ResetActive(j) ==
  /\ job[j].pc = "reset"
  /\ configs' = {[c EXCEPT !.active = FALSE] : c \in configs}
  /\ GoesTo(j, "insert")
  /\ UNCHANGED <<disk, index, catalog, models, served, alone, edits, faults>>

ConfigVersion(j) ==
  [job |-> j, profile |-> IdOf(j), digest |-> job[j].digest, active |-> TRUE, at |-> job[j].at]

InsertConfigVersion(j) ==
  /\ job[j].pc = "insert"
  /\ configs' = configs \cup {ConfigVersion(j)}
  /\ job' = [job EXCEPT ![j].pc = "models", ![j].todo = ModelKeys]
  /\ UNCHANGED <<disk, index, catalog, models, served, alone, edits, faults>>

Newest(S) == {c \in S : \A d \in S : d.at <= c.at}

(* ActivateLatestConfigVersion is one transaction; a profile that was never *)
(* published leaves the versions as they are.                               *)
ActivateLatestConfigVersion(j) ==
  /\ job[j].pc = "activate"
  /\ LET latest == Newest({c \in configs : c.profile = IdOf(j)}) IN
     configs' = IF latest = {} THEN configs
                ELSE {[c EXCEPT !.active = c \in latest] : c \in configs}
  /\ GoesTo(j, "done")
  /\ UNCHANGED <<disk, index, catalog, models, served, alone, edits, faults>>

(* One upsert per read model, each naming the config version.               *)
UpsertReadModel(j, k) ==
  /\ job[j].pc = "models" /\ k \in job[j].todo
  /\ models' = [models EXCEPT ![IdOf(j)][k] = {j}]
  /\ job' = [job EXCEPT ![j].todo = @ \ {k},
       ![j].pc = IF job[j].todo = {k} THEN "published" ELSE @]
  /\ UNCHANGED <<disk, index, catalog, configs, served, alone, edits, faults>>

(* The catalog index is read back, and a verify begins its checks; the      *)
(* control plane serves an imported bundle from now on.                     *)
Checks == {"index", "catalog", "config"} \cup CheckedKeys

Order(c) ==
  CASE c = "index" -> 0 [] c = "catalog" -> 1 [] c = "config" -> 2 [] OTHER -> 3

Published(j) ==
  /\ job[j].pc = "published"
  /\ IF job[j].req.kind = "verify"
     THEN /\ job' = [job EXCEPT ![j].pc = "checks", ![j].todo = Checks, ![j].ok = TRUE]
          /\ UNCHANGED served
     ELSE /\ GoesTo(j, "done")
          /\ served' = IF job[j].req.http THEN {<<IdOf(j), job[j].bundle>>} ELSE served
  /\ UNCHANGED <<disk, storeVars, alone, edits, faults>>

GetActiveConfigVersion == Newest({c \in configs : c.active})

(* PublishedChecks reads one thing after another; the catalog is only asked *)
(* for its profile.                                                         *)
CheckHolds(j, c) ==
  CASE c = "index" -> index[IdOf(j)] = job[j].digest
    [] c = "catalog" -> catalog.profile = {IdOf(j)}
    [] c = "config" -> GetActiveConfigVersion = {ConfigVersion(j)}
    [] OTHER -> models[IdOf(j)][c] = {j}

PublishedChecks(j) ==
  /\ job[j].pc = "checks"
  /\ IF job[j].todo = {}
     THEN /\ GoesTo(j, IF job[j].ok THEN "done" ELSE "failed")
          /\ served' = IF job[j].ok /\ job[j].req.http
                       THEN {<<IdOf(j), job[j].bundle>>} ELSE served
     ELSE LET c == CHOOSE x \in job[j].todo :
                     \A y \in job[j].todo : Order(x) <= Order(y) IN
          /\ job' = [job EXCEPT ![j].todo = @ \ {c}, ![j].ok = @ /\ CheckHolds(j, c)]
          /\ UNCHANGED served
  /\ UNCHANGED <<disk, storeVars, alone, edits, faults>>

(* template-package export writes one manifest with everything inline; it   *)
(* leaves the files of an existing package where they are.                  *)
exportProfileCatalogFromStore(j) ==
  /\ job[j].pc = "export"
  /\ LET here == disk["work"] IN
     IF catalog.profile = {} \/ (Loadable(here) /\ ~job[j].req.force)
     THEN Fails(j) /\ UNCHANGED disk
     ELSE /\ disk' = [disk EXCEPT !["work"] =
               {[manifest |-> UNION {catalog.of[p] : p \in catalog.profile},
                 file |-> IF here = {} THEN 0 ELSE (CHOOSE x \in here : TRUE).file]}]
          /\ GoesTo(j, "done")
  /\ UNCHANGED <<storeVars, served, alone, edits, faults>>

(* A Store call or a file system call fails, or the process is killed.      *)
Fault(j) ==
  /\ j \in InFlight /\ faults < Faults
  /\ Fails(j) /\ faults' = faults + 1
  /\ UNCHANGED <<disk, storeVars, served, alone, edits>>

PublicationNext ==
  \/ \E v \in Versions : Edit(v)
  \/ \E j \in Jobs :
       \/ \E r \in Requests[j] : Begin(j, r)
       \/ Pack(j) \/ Install(j) \/ copyDir(j) \/ exportProfileCatalogFromStore(j)
       \/ guardProfilePublishTarget(j) \/ PublishLoad(j) \/ PublishDigest(j)
       \/ UpsertProfileIndex(j) \/ GetProfileCatalogByID(j)
       \/ ReadRevision(j) \/ SwapCatalog(j)
       \/ ResetActive(j) \/ InsertConfigVersion(j) \/ ActivateLatestConfigVersion(j)
       \/ \E k \in ModelKeys : UpsertReadModel(j, k)
       \/ Published(j) \/ PublishedChecks(j)
       \/ Fault(j)

PublicationSpec == PublicationInit /\ [][PublicationNext]_publicationVars

-----------------------------------------------------------------------------
(* An import or a verify that nothing else interfered with and that         *)
(* reported success has made the Store whole, whatever earlier jobs left    *)
(* half done: index, catalog, read models and the one active config version *)
(* are its own, and the catalog holds the case of the package it was given. *)
CompletedPublicationIsWhole ==
  \A j \in alone :
    job[j].pc = "done" /\ job[j].req.kind \in {"import", "verify"} =>
      /\ catalog.profile = {IdOf(j)} /\ catalog.of[IdOf(j)] = {job[j].want}
      /\ index[IdOf(j)] = job[j].digest /\ job[j].digest = DirOf(j)
      /\ {c \in configs : c.active} = {ConfigVersion(j)}
      /\ \A k \in ModelKeys : models[IdOf(j)][k] = {j}
=============================================================================
