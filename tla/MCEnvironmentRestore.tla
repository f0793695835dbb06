------------------------ MODULE MCEnvironmentRestore ------------------------
(***************************************************************************)
(* The restore command and the two of its stages that have a life of their *)
(* own: a behaviour is about the command's stages (all command lines, on   *)
(* an environment in order and on every environment that differs from it   *)
(* in at most two respects), about repeated restores of its checkouts,     *)
(* about the health phase, or about its migrations and bootstrap assets.   *)
(***************************************************************************)
EXTENDS EnvironmentRestore, EnvironmentCheckout, EnvironmentMigration

CONSTANTS d1, d2, d3, web, base, seed, c1, c2, m1, m2, s1, s2

VARIABLES
  part,
  service, clock, todo, probing, report   \* RestoreHealth

InOrder ==
  [start |-> "compose", remote |-> FALSE, policy |-> TRUE, package |-> TRUE, graph |-> "ok",
   files |-> "ok", linked |-> TRUE, issues |-> {}, probes |-> "some", services |-> TRUE]
MCEnvironments ==
  {e \in [start : {"compose", "command", "none"}, remote : BOOLEAN, policy : BOOLEAN,
          package : BOOLEAN, graph : {"none", "ok", "broken"}, files : {"none", "ok", "missing"},
          linked : BOOLEAN, issues : {{}} \cup {{i} : i \in Issues}, probes : {"none", "skipped", "some"},
          services : BOOLEAN] :
     /\ ~e.policy => e.remote
     /\ Cardinality({f \in DOMAIN e : e[f] # InOrder[f]}) <= 2}

(* A component repository with a ref that starts as another remote's clone, *)
(* a local one without a ref, and two assets of one remote at different     *)
(* refs in one checkout.                                                    *)
Source(d, u, r, a) == [dir |-> d, url |-> u, ref |-> r, asset |-> a]
MCDirs == {d1, d2, d3}
MCItems == <<Source(d1, TRUE, 2, FALSE), Source(d2, FALSE, 0, FALSE),
             Source(d3, TRUE, 1, TRUE), Source(d3, TRUE, 2, TRUE)>>
MCForeign == {d1, d2}

(* Three services: one with a URL, one that is only started, and a one-shot *)
(* service others wait for; the TCP check covers nothing.  The URL check of *)
(* base has no URL, and its command is given by type only: both are passed  *)
(* over, and the first stands for base all the same.                        *)
Chk(k, s) == [kind |-> k, key |-> "kind", service |-> s, named |-> TRUE, target |-> TRUE,
              expect |-> ""]
Health == INSTANCE RestoreHealth WITH
  Services <- {web, base, seed},
  Declared <- {Chk("url", web), [Chk("url", base) EXCEPT !.target = FALSE],
               [Chk("command", base) EXCEPT !.key = "type"], Chk("other", base)},
  Components <- {Chk("compose-service", seed), Chk("tcp", base), Chk("other", web)},
  Started <- {web, base, seed}, Business <- {web}, Completed <- {seed}, Containers <- {web, seed},
  Adopt <- FALSE, HasCompose <- TRUE, Timeout <- 5, ProbeTime <- 2, Grace <- 1

(* Two commands at a time and two migrations, one with a precondition. The  *)
(* bootstrap SQL is mounted, or is not, in which case only adopting restores *)
(* get anywhere.                                                            *)
Asset(k, m, p, c) == [kind |-> k, mounted |-> m, path |-> p, command |-> c]
MCClients == {c1, c2}
MCIds == {m1, m2}
MCVersions == {1, 2}
MCContents == {s1, s2}
MCGuarded == {s1}
MCBootstraps == {<<Asset("sql", TRUE, 1, FALSE)>>,
                 <<Asset("sql", FALSE, 1, FALSE), Asset("object", FALSE, 2, TRUE)>>}

ASSUME Health!HealthAssumption

healthVars == <<service, clock, todo, probing, report>>
allVars == <<part, vars, checkoutVars, healthVars, migrationVars>>

MCInit ==
  /\ part \in {"command", "checkout", "health", "migration"}
  /\ Init
  /\ part # "command" => env = InOrder /\ opt = CHOOSE o \in Options : TRUE
  /\ CheckoutInit
  /\ Health!Init
  /\ MigrationInit
  /\ part # "migration" => Len(boot) = 1 /\ db.exists

(* Clients and asset ids are interchangeable: of two idle clients c1 is the  *)
(* next to start, and the first migration added is m1.  Beside the unmounted *)
(* SQL there is one migration.                                              *)
Canonical ==
  /\ Len(boot) = 2 => left'.add >= Adds - 1
  /\ (\A c \in Clients : cmd[c] = Idle) => cmd'[c2] = Idle
  /\ left.add = Adds /\ left'.add < Adds =>
       \E c \in Clients : cmd'[c].op = "add" /\ cmd'[c].assets[m1] # NoAsset

MCNext ==
  /\ UNCHANGED part
  /\ \/ part = "command" /\ Next /\ UNCHANGED <<checkoutVars, healthVars, migrationVars>>
     \/ part = "checkout" /\ CheckoutNext /\ UNCHANGED <<vars, healthVars, migrationVars>>
     \/ part = "health" /\ Health!Next /\ UNCHANGED <<vars, checkoutVars, migrationVars>>
     \/ /\ part = "migration" /\ MigrationNext /\ Canonical
        /\ UNCHANGED <<vars, checkoutVars, healthVars>>

(* The probes of the health phase go on by themselves. *)
MCSpec ==
  /\ MCInit /\ [][MCNext]_allVars
  /\ WF_allVars(part = "health" /\ (\E c \in Health!Checks : Health!Probe(c))
                  /\ UNCHANGED <<part, vars, checkoutVars, migrationVars>>)

(* The health phase ends, with every check it can probe in the report.      *)
PhaseEnds == part = "health" => Health!PhaseEnds
=============================================================================
