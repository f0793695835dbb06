------------------------- MODULE EnvironmentRecord -------------------------
(***************************************************************************)
(* The catalog entry of one environment: a row of environment_catalog that *)
(* every command reads, changes in memory and writes back whole, without a *)
(* revision (store_environment.go), and the rows of its startup files,     *)
(* services and health checks, which live in tables of their own but are   *)
(* merged into the row's JSON when it is read and taken out of it again    *)
(* when it is written.                                                     *)
(*                                                                         *)
(* An item is a file the compose or the env list names, the contents of a  *)
(* startup file, a service or a health check.  "rows" are the items that   *)
(* have a row, row.inline those in the row's JSON: entries of older        *)
(* versions, the lists of a registration, and what a command that died on  *)
(* its way has left; an item may be in both.  Between the read and the     *)
(* write of stop, service restart and restore lies the command's whole     *)
(* work: docker, health probes, an acceptance workflow.                    *)
(***************************************************************************)
EXTENDS Naturals

CONSTANTS
  Commands,       \* CLI processes and HTTP requests
  ComposeFiles, EnvFiles,  \* the files the two lists name
  Contents,       \* startup files with their contents
  Services, Checks,
  Registrations,  \* sets of items a registration may bring
  LegacyItems,    \* what the row may hold inline at first
  Workflows,
  Runs,           \* acceptance runs stored by the control plane
  RunWorkflow,    \* [Runs -> Workflows]
  Accepted,       \* the runs that passed with an acceptance report that is OK
  Traced          \* the runs with a complete topology row

FileLists == {ComposeFiles, EnvFiles}
Files == ComposeFiles \cup EnvFiles \cup Contents
Items == Files \cup Services \cup Checks

ASSUME RecordAssumption ==
  /\ Registrations \subseteq SUBSET Items
  /\ LegacyItems \subseteq Items
  /\ Files \cap Services = {} /\ ComposeFiles \cap EnvFiles = {}
  /\ Contents \cap (ComposeFiles \cup EnvFiles) = {}
  /\ Workflows # {}
  /\ RunWorkflow \in [Runs -> Workflows]
  /\ Accepted \subseteq Runs /\ Traced \subseteq Runs

VARIABLES
  row,      \* environment_catalog
  rows,     \* environment_files, environment_services, environment_health_checks
  command   \* each command: where it is, its copy of the row, the rows it will write

vars == <<row, rows, command>>

Operations == {"none", "verify", "publish", "stop", "restart", "restore", "repo", "file",
               "accept", "register"}
EnvironmentType ==
  [workflow : Workflows, inline : SUBSET Items, verified : BOOLEAN,
   status : {"draft", "verification-recorded", "verified-ready", "verified"},
   run : SUBSET Runs, passed : BOOLEAN, evidence : BOOLEAN, topology : BOOLEAN]

Registered(w) ==
  [workflow |-> w, inline |-> {}, verified |-> FALSE, status |-> "draft", run |-> {},
   passed |-> FALSE, evidence |-> FALSE, topology |-> FALSE]

AnyWorkflow == CHOOSE w \in Workflows : TRUE

\* base is what the environment held when the command read it, and fresh that
\* no other command has written it since; both only for the properties.
Idle(w) == [at |-> "idle", op |-> "none", copy |-> Registered(w), new |-> {}, base |-> {},
            fresh |-> TRUE]

TypeOK ==
  /\ row \in EnvironmentType
  /\ rows \in SUBSET Items
  /\ command \in [Commands ->
       [at : {"idle", "read", "loaded", "upsert", "write", "files", "services", "checks"},
        op : Operations, copy : EnvironmentType, new : SUBSET Items, base : SUBSET Items,
        fresh : BOOLEAN]]

\* Services, checks and contents of the JSON stay beside the rows of others,
\* but a list with a row is the list of its rows: the JSON's own goes.
MergeEnvironmentFilesIntoComposeJSON(json, n) ==
  n \cup {i \in json : \A l \in FileLists : i \in l => l \cap n = {}}

\* What a reader of the environment sees.
View == MergeEnvironmentFilesIntoComposeJSON(row.inline, rows)

-----------------------------------------------------------------------------
(* The Store.                                                              *)

\* The command goes on to its next statement, or is over; what every other
\* command has read is out of date.
Wrote(c, next) ==
  command' = [d \in Commands |->
                IF d # c THEN [command[d] EXCEPT !.fresh = command[d].at = "idle"]
                ELSE IF next = "idle" THEN Idle(AnyWorkflow)
                ELSE [command[d] EXCEPT !.at = next]]

\* The row; its structured state is read by separate queries after it.
GetEnvironment(c) ==
  /\ command[c].at = "idle"
  /\ command' = [command EXCEPT ![c] = [Idle(row.workflow) EXCEPT
                   !.at = "read", !.copy = row, !.base = View]]
  /\ UNCHANGED <<row, rows>>

EnvironmentWithStructuredState(e) ==
  [e EXCEPT !.inline = MergeEnvironmentFilesIntoComposeJSON(@, rows)]

HydrateEnvironmentStructuredState(c) ==
  LET k == command[c] IN
  /\ k.at = "read"
  /\ command' = [command EXCEPT ![c] = [k EXCEPT !.at = "loaded",
                                                 !.copy = EnvironmentWithStructuredState(k.copy)]]
  /\ UNCHANGED <<row, rows>>

EnvironmentWithoutStructuredState(e) == [e EXCEPT !.inline = @ \ rows]

\* The first half of UpsertEnvironment, a list of the rows as they are now.
PrepareEnvironmentForStructuredUpsert(c) ==
  LET k == command[c] IN
  /\ k.at = "upsert"
  /\ command' = [command EXCEPT ![c] = [k EXCEPT !.at = "write",
                                                 !.copy = EnvironmentWithoutStructuredState(k.copy)]]
  /\ UNCHANGED <<row, rows>>

\* Where a command goes on after its upsert.
AfterUpsert(op) ==
  CASE op = "repo" -> "services"
    [] op \in {"file", "register"} -> "files"
    [] OTHER -> "idle"

upsertEnvironment(c) ==
  /\ command[c].at = "write"
  /\ row' = command[c].copy
  /\ Wrote(c, AfterUpsert(command[c].op))
  /\ UNCHANGED rows

Replace(c, kind, next) ==
  /\ rows' = (rows \ kind) \cup (command[c].new \cap kind)
  /\ Wrote(c, next)
  /\ UNCHANGED row

ReplaceEnvironmentFiles(c) ==
  /\ command[c].at = "files"
  /\ Replace(c, Files, IF command[c].op = "register" THEN "services" ELSE "idle")

ReplaceEnvironmentServices(c) ==
  /\ command[c].at = "services"
  /\ Replace(c, Services, IF command[c].op = "register" THEN "checks" ELSE "idle")

ReplaceEnvironmentHealthChecks(c) ==
  /\ command[c].at = "checks"
  /\ Replace(c, Checks, "idle")

-----------------------------------------------------------------------------
(* The commands, between their read and their upsert.                      *)

Upsert(c, op, e, new) ==
  /\ command[c].at = "loaded"
  /\ command' = [command EXCEPT ![c] =
                   [command[c] EXCEPT !.at = "upsert", !.op = op, !.copy = e, !.new = new]]
  /\ UNCHANGED <<row, rows>>

\* The row and its structured state in one transaction.
UpsertEnvironmentStructuredState(c, w, n) ==
  /\ row' = Registered(w)
  /\ rows' = n
  /\ Wrote(c, "idle")

runEnvironmentRegister(c) ==
  /\ command[c].at = "idle"
  /\ \E w \in Workflows, n \in Registrations : UpsertEnvironmentStructuredState(c, w, n)

\* POST /api/environments: an upsert, with the lists in the JSON, then each
\* table by itself.
handleEnvironmentCollection(c) ==
  /\ command[c].at = "idle"
  /\ \E w \in Workflows, n \in Registrations :
       command' = [command EXCEPT ![c] = [Idle(w) EXCEPT !.at = "upsert", !.op = "register",
                            !.copy = [Registered(w) EXCEPT !.inline = n \cap (ComposeFiles \cup EnvFiles)],
                            !.new = n]]
  /\ UNCHANGED <<row, rows>>

(* Mutant of environmentServicesWithLegacyJSON: only the rows are kept. *)
RowsOnly(e) == rows \cap Services

\* The rows read now and, for the ones that have none, what the copy holds.
environmentServicesWithLegacyJSON(e) == (rows \cup e.inline) \cap Services

environmentFilesWithLegacyCompose(e) == (rows \cup e.inline) \cap Files

\* The services move out of the JSON, with the repository of one changed.
updateEnvironmentRepositories(c) ==
  LET e == command[c].copy IN
  \E s \in SUBSET Services :
    Upsert(c, "repo", [e EXCEPT !.inline = @ \ Services], environmentServicesWithLegacyJSON(e) \cup s)

\* All files get rows, one of them with new contents; the lists of the copy go
\* out of the JSON only where they had rows before.
runEnvironmentStartupFilePut(c) ==
  LET e == command[c].copy IN
  \E f \in Contents :
    Upsert(c, "file", [e EXCEPT !.inline = @ \ Contents], environmentFilesWithLegacyCompose(e) \cup {f})

Recorded(e, r, passed, evidence, topology, status) ==
  [e EXCEPT !.run = {r}, !.passed = passed, !.evidence = evidence, !.topology = topology,
            !.verified = FALSE, !.status = status]

\* environment verify and POST .../verify record what the caller says.
runEnvironmentVerify(c) ==
  \E r \in Runs, p, ev, t \in BOOLEAN :
    Upsert(c, "verify",
           Recorded(command[c].copy, r, p, ev, t,
                    IF p /\ ev /\ t THEN "verified-ready" ELSE "verification-recorded"), {})

\* The control plane, when the acceptance run r of the environment is over.
finalizeEnvironmentAcceptanceRun(c) ==
  \E r \in Runs :
    /\ command[c].copy.workflow = RunWorkflow[r]
    /\ LET ok == r \in Accepted IN
       Upsert(c, "accept",
              Recorded(command[c].copy, r, ok, ok, ok /\ r \in Traced,
                       IF ok THEN "verified-ready" ELSE "verification-recorded"), {})

(* Mutant of workflowAcceptancePassed: the workflow of the run is not compared. *)
AcceptedForAnyWorkflow(r, w) == r \in Accepted

workflowAcceptancePassed(r, w) == r \in Accepted /\ RunWorkflow[r] = w

ValidateEnvironmentPublishable(e) ==
  /\ e.passed /\ e.evidence /\ e.topology
  /\ \E r \in e.run : r \in Traced /\ workflowAcceptancePassed(r, e.workflow)

\* environment publish-verified and POST .../publish-verified.
runEnvironmentPublishVerified(c) ==
  LET e == command[c].copy IN
  /\ ValidateEnvironmentPublishable(e)
  /\ Upsert(c, "publish", [e EXCEPT !.verified = TRUE, !.status = "verified"], {})

\* They change nothing but the summary, and write the row they read.
runEnvironmentStop(c) == Upsert(c, "stop", command[c].copy, {})
runEnvironmentServiceRestart(c) == Upsert(c, "restart", command[c].copy, {})

\* environment restore, with or without an acceptance run of its own.
environmentRestoreMaybeRunWorkflow(c) ==
  {command[c].copy} \cup
  {Recorded(command[c].copy, r, r \in Accepted, r \in Accepted, r \in Accepted,
            "verification-recorded") : r \in {q \in Runs : RunWorkflow[q] = command[c].copy.workflow}}

environmentRestorePersistEnvironment(c) ==
  \E e \in environmentRestoreMaybeRunWorkflow(c) : Upsert(c, "restore", e, {})

\* A refused request, a Store call that failed or a process that died; what it
\* wrote before stays.
GiveUp(c) ==
  /\ command[c].at # "idle"
  /\ command' = [command EXCEPT ![c] = Idle(AnyWorkflow)]
  /\ UNCHANGED <<row, rows>>

-----------------------------------------------------------------------------
Init ==
  /\ row \in {[Registered(AnyWorkflow) EXCEPT !.inline = i] : i \in SUBSET LegacyItems}
  /\ rows \in Registrations
  /\ command = [c \in Commands |-> Idle(AnyWorkflow)]

Next ==
  \E c \in Commands :
    \/ GetEnvironment(c)
    \/ HydrateEnvironmentStructuredState(c)
    \/ PrepareEnvironmentForStructuredUpsert(c)
    \/ upsertEnvironment(c)
    \/ ReplaceEnvironmentFiles(c)
    \/ ReplaceEnvironmentServices(c)
    \/ ReplaceEnvironmentHealthChecks(c)
    \/ runEnvironmentRegister(c)
    \/ handleEnvironmentCollection(c)
    \/ updateEnvironmentRepositories(c)
    \/ runEnvironmentStartupFilePut(c)
    \/ runEnvironmentVerify(c)
    \/ finalizeEnvironmentAcceptanceRun(c)
    \/ runEnvironmentPublishVerified(c)
    \/ runEnvironmentStop(c)
    \/ runEnvironmentServiceRestart(c)
    \/ environmentRestorePersistEnvironment(c)
    \/ GiveUp(c)

Spec == Init /\ [][Next]_vars

-----------------------------------------------------------------------------
(* Properties.                                                             *)

\* Whatever raced, an environment in verified discovery names a run that was
\* accepted for the workflow the environment has now, with a topology: the
\* fields a publication checks are never taken apart by another writer.
VerifiedRunAccepted ==
  row.verified => \E r \in row.run \cap Accepted \cap Traced : RunWorkflow[r] = row.workflow

\* Whatever earlier commands left, some of them half done, a command that ran
\* to its end and that nobody disturbed keeps every file, service and check a
\* reader of the environment saw when the command read it, in a row or in the
\* JSON; only a registration replaces them.
UndisturbedKeepsItems ==
  [][\A c \in Commands :
       /\ command[c].fresh /\ command[c].op # "register" /\ command'[c].at = "idle"
       /\ \/ upsertEnvironment(c)
          \/ ReplaceEnvironmentFiles(c)
          \/ ReplaceEnvironmentServices(c)
       => command[c].base \subseteq View']_vars

=============================================================================
