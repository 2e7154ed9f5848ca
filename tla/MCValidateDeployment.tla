------------------------ MODULE MCValidateDeployment ------------------------
(***************************************************************************)
(* Inputs for model checking ValidateDeployment.                           *)
(*                                                                         *)
(* Replica counts 1, 3 and 10 put each percentage below, on and above a    *)
(* whole number of pods; the numbers and percentages meet each other and   *)
(* each bound as smaller, equal and larger.                                *)
(***************************************************************************)
EXTENDS ValidateDeployment

App == [key |-> "app", value |-> "web"]

DeploymentOf(replicas, type, rollingUpdate, containers) ==
  [namespace |-> "default", labels |-> {App}, replicas |-> replicas,
   strategy |-> [type |-> type, rollingUpdate |-> rollingUpdate],
   containers |-> containers]

Some(S) == {{x} : x \in S}
OrNil(S) == {{}} \cup Some(S)

DeploymentValues == {FromInt(0), FromInt(1), FromInt(3),
                     FromPercent(1), FromPercent(25), FromPercent(100), Malformed}

DeploymentBlocks ==
  [maxSurge : OrNil(DeploymentValues), maxUnavailable : OrNil(DeploymentValues)]

Bare     == [name |-> "bare",     requests |-> {},                limits |-> {}]
CpuOnly  == [name |-> "cpuOnly",  requests |-> {"cpu"},           limits |-> {"memory"}]
Complete == [name |-> "complete", requests |-> {"cpu", "memory"}, limits |-> {"cpu", "memory"}]

MCDeployments ==
  {DeploymentOf(n, RollingUpdateType, {ru}, {})
     : n \in Some({1, 3, 10}), ru \in DeploymentBlocks}
  \cup
  {DeploymentOf(n, type, {}, {Bare})
     : n \in OrNil({1, 3}), type \in {RecreateType, RollingUpdateType}}
  \cup
  {DeploymentOf(n, RollingUpdateType,
                {[maxSurge |-> {FromPercent(25)}, maxUnavailable |-> {FromInt(0)}]}, cs)
     : n \in OrNil({0, 2, 3}), cs \in SUBSET {Bare, CpuOnly, Complete}}

PolicyOf(replicas, strategy, resources) ==
  [weight |-> 0, selector |-> {{}}, replicas |-> replicas, strategy |-> strategy,
   resources |-> resources]

PolicyBlocks ==
  [minSurge       : OrNil({FromPercent(25), Malformed}),
   maxSurge       : OrNil({FromInt(3), FromPercent(100), Malformed}),
   maxUnavailable : OrNil({FromInt(0), FromPercent(25), Malformed})]

Entry(n, required) == [name |-> n, required |-> required]

PolicyResourceLists ==
  {[requests |-> {Entry("cpu", TRUE), Entry("memory", m)}, limits |-> l]
     : m \in BOOLEAN, l \in {{}, {Entry("memory", TRUE)}, {Entry("cpu", FALSE)}}}

MCPolicySpecs ==
  {DefaultPolicy}
  \cup
  {PolicyOf({}, {[type |-> RollingUpdateType, rollingUpdate |-> {hru}]}, {}) : hru \in PolicyBlocks}
  \cup
  {PolicyOf(n, s, {res}) : n \in OrNil({2}),
                           s \in {{}, {[type |-> RecreateType, rollingUpdate |-> {}]},
                                  {[type |-> RollingUpdateType, rollingUpdate |-> {}]}},
                           res \in PolicyResourceLists}

=============================================================================
