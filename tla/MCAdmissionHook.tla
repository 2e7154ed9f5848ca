--------------------------- MODULE MCAdmissionHook ---------------------------
(***************************************************************************)
(* Instances of AdmissionHook for TLC.                                     *)
(*                                                                         *)
(* The policies select the web Deployments, other ones, or cannot be read; *)
(* they weigh less than, as much as and more than each other; they accept, *)
(* refuse and panic on the Deployments asked about.                        *)
(***************************************************************************)
EXTENDS AdmissionHook

Key(ns, name) == [namespace |-> ns, name |-> name]

TwoInOneNamespace == {Key("team", "one"), Key("team", "two"), Key("other", "one")}

Web == MatchLabel("app", "web")
Db  == MatchLabel("app", "db")
Unreadable == [key |-> "app", operator |-> "In", values |-> {}]

Policy(weight, reqs, replicas, strategy) ==
  [weight |-> weight, selector |-> {reqs}, replicas |-> replicas, strategy |-> strategy,
   resources |-> {}]

Lenient  == Policy(0, {Web}, {1}, {})
Strict   == Policy(1, {Web}, {2}, {})
StrictDb == Policy(2, {Db}, {2}, {})
Broken   == Policy(1, {Unreadable}, {}, {})
NoBlock  == Policy(2, {Web}, {}, {[type |-> RollingUpdateType, rollingUpdate |-> {}]})

DeploymentIn(ns, app, replicas) ==
  [namespace |-> ns, labels |-> {[key |-> "app", value |-> app]}, replicas |-> {replicas},
   strategy |-> [type |-> RollingUpdateType,
                 rollingUpdate |-> {[maxSurge       |-> {FromPercent(25)},
                                     maxUnavailable |-> {FromPercent(25)}]}],
   containers |-> {}]

SmallWeb == DeploymentIn("team", "web", 1)
LargeWeb == DeploymentIn("team", "web", 3)
SmallDb  == DeploymentIn("team", "db", 1)
Elsewhere == DeploymentIn("other", "web", 1)

MCPolicySpecs   == {Lenient, Strict, Broken, NoBlock}
DocumentedSpecs == {Lenient, Strict, StrictDb, Broken}

MCDeployments == {SmallWeb, LargeWeb, SmallDb, Elsewhere}

=============================================================================
