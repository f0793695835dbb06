--------------------------- MODULE RestoreHealth ---------------------------
(***************************************************************************)
(* The health phase of a restore (environment_restore_health.go,           *)
(* environment_restore_docker_health.go): the checks that count are put    *)
(* together from the recorded ones, the components' and the started        *)
(* services', and probed one after the other against one deadline while    *)
(* the services come up, exit or fail.                                     *)
(*                                                                         *)
(* Time is counted in polls (250 ms).  Each check is about one service,    *)
(* which it may or may not name; the order of the checks is left open.     *)
(*                                                                         *)
(* The loop passes over what it cannot probe without a word: an entry that *)
(* is no object, a check whose kind needs a target it does not give, and   *)
(* one that gives its kind under "type" (other than a URL).  Such a check  *)
(* still stands for its service when the checks are put together.          *)
(***************************************************************************)
EXTENDS Naturals

CONSTANTS
  Services,
  Declared,    \* the environment's health checks
  Components,  \* the components' health checks, the invalid ones among them
  Started,     \* compose.services, the allow list
  Business,    \* services of business components, whose check must be a URL
  Completed,   \* services others depend on with service_completed_successfully
  Containers,  \* services with a fixed container name
  Adopt,       \* --use-existing-containers
  HasCompose,  \* a compose file is recorded
  Timeout,     \* --health-timeout-seconds
  ProbeTime,   \* the limit of one probe
  Grace        \* what a killed command may still take

\* "malformed" is an entry that is no object; key: where the kind is given;
\* named: the service is given; target: what the kind needs is given, a URL, an
\* address, a command, a container, or the service.
Kinds == {"url", "tcp", "command", "compose-service", "container", "other", "malformed"}
Check ==
  {c \in [kind : Kinds, key : {"kind", "type"}, service : Services, named : BOOLEAN,
          target : BOOLEAN, expect : {"", "completed"}] :
     c.kind = "compose-service" => c.target = c.named}

HealthAssumption ==
  /\ Declared \subseteq Check /\ Components \subseteq Check
  /\ Started \subseteq Services /\ Business \subseteq Services /\ Completed \subseteq Services /\ Containers \subseteq Services
  /\ Adopt \in BOOLEAN /\ HasCompose \in BOOLEAN
  /\ Timeout \in Nat \ {0} /\ ProbeTime \in Nat \ {0} /\ Grace \in Nat

VARIABLES
  service,   \* what Docker says of each service
  clock,     \* polls since the phase began
  todo,      \* the checks the loop has not come to
  probing,   \* {} or the check that is being waited for
  report     \* the checks that are done, with their OK

vars == <<service, clock, todo, probing, report>>

-----------------------------------------------------------------------------
(* The checks that count.                                                  *)

\* A service that others wait for to complete is expected to complete.
environmentRestoreApplyCompletedExpectation(c) ==
  IF c.kind = "compose-service" /\ c.named /\ c.service \in Completed THEN [c EXCEPT !.expect = "completed"]
  ELSE c

\* A kind nobody knows has no signature.
environmentRestoreHealthCheckSignature(c) ==
  IF c.kind \in {"other", "malformed"} THEN {} ELSE {<<c.kind, IF c.target THEN {c.service} ELSE {}>>}

environmentRestoreHealthCheckCoversService(c) == c.kind \in {"compose-service", "url"} /\ c.named

\* A component's check counts if its service is started and it is complete;
\* then its kind is where the loop looks for it.
environmentRestoreNormalizeComponentHealthCheck ==
  LET valid == {c \in Components :
                  /\ c.kind \notin {"other", "malformed"} /\ c.target
                  /\ c.service \in Business => c.kind = "url"}
  IN {[c EXCEPT !.key = "kind"] :
        c \in {d \in valid : Started = {} \/ ~d.named \/ d.service \in Started}}

environmentRestoreEffectiveHealthChecks ==
  LET signed(C) == UNION {environmentRestoreHealthCheckSignature(c) : c \in C}
      named == Declared \cup {c \in environmentRestoreNormalizeComponentHealthCheck :
                                environmentRestoreHealthCheckSignature(c) \cap signed(Declared) = {}}
      covered == {c.service : c \in {d \in named : environmentRestoreHealthCheckCoversService(d)}}
      added == {[kind |-> "compose-service", key |-> "kind", service |-> s, named |-> TRUE,
                 target |-> TRUE, expect |-> ""] : s \in Started \ covered}
  IN {environmentRestoreApplyCompletedExpectation(c) : c \in named \cup added}

\* An adopted container is inspected by its name instead of through Compose.
environmentRestoreAdoptedContainerHealthChecks(c) ==
  IF Adopt /\ c.kind = "compose-service" /\ c.key = "kind" /\ c.named /\ c.service \in Containers
  THEN [c EXCEPT !.kind = "container"] ELSE c

Checks == {environmentRestoreAdoptedContainerHealthChecks(c) :
             c \in environmentRestoreEffectiveHealthChecks}

TypeOK ==
  /\ service \in [Services -> {"starting", "running", "completed", "failed"}]
  /\ clock \in Nat
  /\ todo \in SUBSET Check
  /\ probing \in SUBSET Check
  /\ report \in SUBSET [check : Check, ok : BOOLEAN]

Init ==
  /\ service = [s \in Services |-> "starting"]
  /\ clock = 0
  /\ todo = Checks
  /\ probing = {}
  /\ report = {}

-----------------------------------------------------------------------------
\* compose up -d has returned; a service comes up, and ends, in its own time.
ServiceChanges(s) ==
  /\ service[s] \in {"starting", "running"}
  /\ \E to \in (IF service[s] = "starting" THEN {"running"} ELSE {}) \cup {"completed", "failed"} :
       service' = [service EXCEPT ![s] = to]
  /\ UNCHANGED <<clock, todo, probing, report>>

Reported == {r.check : r \in report}

Done(c, ok) == report' = report \cup {[check |-> c, ok |-> ok]} /\ probing' = {}

\* What the loop finds something to probe, or to complain of, in.
environmentRestoreHealthCheckFromAny(c) ==
  /\ c.kind # "malformed"
  /\ IF c.key = "type" THEN c.kind = "url" /\ c.target ELSE c.kind = "other" \/ c.target

(* Mutant of waitEnvironmentRestoreHealthChecks: after the deadline a check is passed over. *)
DeadlineSkips(c) ==
  /\ probing = {} /\ c \in todo
  /\ todo' = todo \ {c}
  /\ IF ~environmentRestoreHealthCheckFromAny(c) \/ clock >= Timeout
     THEN UNCHANGED <<probing, report>>
     ELSE IF c.kind = "other" \/ (c.kind = "compose-service" /\ (Adopt \/ ~HasCompose))
     THEN Done(c, FALSE)
     ELSE probing' = {c} /\ UNCHANGED report
  /\ UNCHANGED <<service, clock>>

\* The next check; after the deadline, and for a kind nobody knows, it fails
\* without a probe, as does a Compose check without a compose file; one without
\* anything to probe is passed over, unless the deadline has passed.
waitEnvironmentRestoreHealthChecks(c) ==
  /\ probing = {} /\ c \in todo
  /\ todo' = todo \ {c}
  /\ IF \/ c.kind = "malformed"
        \/ clock < Timeout /\ ~environmentRestoreHealthCheckFromAny(c)
     THEN UNCHANGED <<probing, report>>
     ELSE IF \/ clock >= Timeout
             \/ c.kind = "other"
             \/ c.kind = "compose-service" /\ (Adopt \/ ~HasCompose)
     THEN Done(c, FALSE)
     ELSE probing' = {c} /\ UNCHANGED report
  /\ UNCHANGED <<service, clock>>

\* One-shot services are ready when they have exited with code 0, the others
\* while they run.
environmentRestoreRequiresCompletedExit(c) == c.expect = "completed"

Ready(c) ==
  IF c.kind \in {"compose-service", "container"} /\ environmentRestoreRequiresCompletedExit(c)
  THEN service[c.service] = "completed" ELSE service[c.service] = "running"

\* Not ready: the check has failed once the deadline has passed, else it is
\* tried again after a poll.
Wait(c) ==
  IF clock > Timeout THEN Done(c, FALSE) /\ UNCHANGED clock
  ELSE clock' = clock + 1 /\ UNCHANGED <<probing, report>>

\* A probe took t and brought nothing.
TimedOut(c, t) ==
  IF clock + t > Timeout THEN Done(c, FALSE) /\ clock' = clock + t
  ELSE clock' = clock + t + 1 /\ UNCHANGED <<probing, report>>

\* An answer, or none within the probe's own limit.
waitEnvironmentRestoreURLHealthCheck(c) ==
  /\ c \in probing /\ c.kind \in {"url", "tcp"}
  /\ \/ Ready(c) /\ Done(c, TRUE) /\ UNCHANGED clock
     \/ ~Ready(c) /\ Wait(c)
     \/ TimedOut(c, ProbeTime)
  /\ UNCHANGED <<service, todo>>

\* A command gets what is left of the time, at most the probe's limit.
ProbeLimit == IF Timeout - clock < ProbeTime THEN Timeout - clock ELSE ProbeTime

\* A command that runs into its limit is killed, which may take a little.
waitEnvironmentRestoreCommand(c) ==
  /\ c \in probing /\ c.kind \in {"command", "compose-service", "container"}
  /\ \/ clock >= Timeout /\ Done(c, FALSE) /\ UNCHANGED clock
     \/ clock < Timeout /\ Ready(c) /\ Done(c, TRUE) /\ UNCHANGED clock
     \/ clock < Timeout /\ ~Ready(c) /\ Wait(c)
     \/ /\ clock < Timeout
        /\ \E g \in 0 .. Grace : TimedOut(c, ProbeLimit + g)
  /\ UNCHANGED <<service, todo>>

Probe(c) ==
  \/ waitEnvironmentRestoreHealthChecks(c)
  \/ waitEnvironmentRestoreURLHealthCheck(c)
  \/ waitEnvironmentRestoreCommand(c)

Over == todo = {} /\ probing = {}

Next == (\E s \in Services : ServiceChanges(s)) \/ (\E c \in Checks : Probe(c))

Spec == Init /\ [][Next]_vars /\ WF_vars(\E c \in Checks : Probe(c))

-----------------------------------------------------------------------------

\* The phase ends, also when services never come up, exit or hang, and then
\* every check with something to probe is in the report, which decides whether
\* the restore is OK: the deadline, a slow probe or a check that was passed
\* over before it leaves none of them out.
PhaseEnds ==
  <>[](/\ Over
       /\ {c \in Checks : environmentRestoreHealthCheckFromAny(c)} \subseteq Reported)

=============================================================================
