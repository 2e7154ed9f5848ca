------------------------------ MODULE MCCluster ------------------------------
(***************************************************************************)
(* An instance of Cluster: one namespace with a policy, of which one size  *)
(* of the Deployment adheres and one does not, and the webhook's own       *)
(* Deployment, whose single replica no default policy would accept.        *)
(***************************************************************************)
EXTENDS Cluster

MCPolicyKeys == {[namespace |-> "team", name |-> "one"], [namespace |-> "barbossa", name |-> "one"]}

AtLeast(n) ==
  [weight |-> 0, selector |-> {{}}, replicas |-> {n}, strategy |-> {}, resources |-> {}]

MCPolicySpecs == {AtLeast(2)}

DeploymentIn(ns, replicas) ==
  [namespace |-> ns, labels |-> {[key |-> "app", value |-> "webhook"]},
   replicas |-> {replicas},
   strategy |-> [type |-> RollingUpdateType,
                 rollingUpdate |-> {[maxSurge       |-> {FromPercent(25)},
                                     maxUnavailable |-> {FromPercent(25)}]}],
   containers |-> {}]

MCWebhook == DeploymentIn("barbossa", 1)
One       == DeploymentIn("team", 1)
Two       == DeploymentIn("team", 2)

MCDeployments == {MCWebhook, One, Two}

Write(old, new, resource, version) ==
  [old |-> old, new |-> new, resource |-> resource, version |-> version]

(* Every well-formed write.                                                *)
AllWrites == {req \in WriteRequest : WellFormed(req)}

(* Writes that get in each other's way.                                    *)
FewWrites ==
  {Write({}, MCWebhook, "deployments", "v1beta1"),
   Write({}, One, "deployments", "v1beta1"),
   Write({One}, Two, "deployments", "v1beta1"),
   Write({Two}, One, "deployments/scale", "v1")}

=============================================================================
