------------------------- MODULE ValidateDeployment -------------------------
(***************************************************************************)
(* One call of validation.ValidateDeployment, step by step: the error list *)
(* is threaded through the three validators, each with its early returns,  *)
(* and a nil dereference ends the call with a panic.                       *)
(***************************************************************************)
EXTENDS DeploymentValidation, DeploymentController

CONSTANTS
  Deployments,   \* the Deployments a call may be given
  PolicySpecs    \* the policy specifications a call may be given

ASSUME DeploymentsAssumption == Deployments \subseteq Deployment
ASSUME PolicySpecsAssumption == PolicySpecs \subseteq PolicySpec

VARIABLES
  dpl, hap,      \* the arguments of the call
  pc,            \* the validator that runs next
  el,            \* the field.ErrorList built so far
  unvisited      \* the containers the resource loop has still to visit

vars == <<dpl, hap, pc, el, unvisited>>

Steps == {"replicas", "strategy", "maxSurge", "maxUnavailable", "resources",
          "containers", "done", "panic"}

Init ==
  /\ dpl \in Deployments
  /\ hap \in PolicySpecs
  /\ pc = "replicas"
  /\ el = {}
  /\ unvisited = {}

ValidateReplicaCount ==
  /\ pc = "replicas"
  /\ el' = el \cup ReplicaCountErrors(dpl, hap)
  /\ pc' = "strategy"
  /\ UNCHANGED <<dpl, hap, unvisited>>

(* Mutant: the errors found so far are dropped.                            *)
ValidateUpdateStrategyForgets ==
  /\ pc = "strategy"
  /\ el' = StrategyShapeErrors(dpl, hap)
  /\ pc' = IF BoundsRead(dpl, hap) THEN "maxSurge" ELSE "resources"
  /\ UNCHANGED <<dpl, hap, unvisited>>

ValidateUpdateStrategy ==
  /\ pc = "strategy"
  /\ el' = el \cup StrategyShapeErrors(dpl, hap)
  /\ pc' = IF BoundsRead(dpl, hap) THEN "maxSurge" ELSE "resources"
  /\ UNCHANGED <<dpl, hap, unvisited>>

ValidateMaxSurge ==
  /\ pc = "maxSurge"
  /\ ~SurgePanics(dpl, hap)
  /\ el' = el \cup IF PolicyRollingUpdates(hap) = {}
                   THEN {Invalid(<<"maxSurge">>, "invalid value")}
                   ELSE SurgeBoundErrors(dpl, hap)
  /\ pc' = "maxUnavailable"
  /\ UNCHANGED <<dpl, hap, unvisited>>

ValidateMaxUnavailable ==
  /\ pc = "maxUnavailable"
  /\ ~UnavailablePanics(dpl, hap)
  /\ el' = el \cup UnavailableBoundErrors(dpl, hap)
  /\ pc' = "resources"
  /\ UNCHANGED <<dpl, hap, unvisited>>

NilDereference ==
  /\ \/ pc = "maxSurge" /\ SurgePanics(dpl, hap)
     \/ pc = "maxUnavailable" /\ UnavailablePanics(dpl, hap)
  /\ pc' = "panic"
  /\ UNCHANGED <<dpl, hap, el, unvisited>>

ValidateResourceRequirements ==
  /\ pc = "resources"
  /\ unvisited' = IF hap.resources = {} THEN {} ELSE dpl.containers
  /\ pc' = "containers"
  /\ UNCHANGED <<dpl, hap, el>>

(* One iteration of the loop over the containers.  The two inner loops run *)
(* over maps, in an order Go leaves open, and only append.                 *)
VisitContainer(c) ==
  /\ pc = "containers"
  /\ c \in unvisited
  /\ el' = el \cup ContainerErrors(c, hap)
  /\ unvisited' = unvisited \ {c}
  /\ UNCHANGED <<dpl, hap, pc>>

(* Mutant: the loop is left before its last container.                     *)
ReturnEarly ==
  /\ pc = "containers"
  /\ pc' = "done"
  /\ UNCHANGED <<dpl, hap, el, unvisited>>

Return ==
  /\ pc = "containers"
  /\ unvisited = {}
  /\ pc' = "done"
  /\ UNCHANGED <<dpl, hap, el, unvisited>>

Next ==
  \/ ValidateReplicaCount
  \/ ValidateUpdateStrategy
  \/ ValidateMaxSurge
  \/ ValidateMaxUnavailable
  \/ NilDereference
  \/ ValidateResourceRequirements
  \/ \E c \in dpl.containers : VisitContainer(c)
  \/ Return

Spec == Init /\ [][Next]_vars

-----------------------------------------------------------------------------
(* The documented meaning of a policy, written without the validators.     *)

Returned == pc = "done"
Accepted == Returned /\ el = {}

Readable(v) == ~IsMalformed(v)

(* types.go:68-83: minSurge <= maxSurge of the Deployment <= maxSurge of   *)
(* the policy, and maxUnavailable no larger than the policy's, each in     *)
(* pods for this replica count.                                            *)
WithinBounds(ru, hru, n) ==
  /\ \A s \in ru.maxSurge :
       /\ Readable(s)
       /\ \A m \in hru.minSurge : Readable(m) /\ RoundedUp(m, n) <= RoundedUp(s, n)
       /\ \A m \in hru.maxSurge : Readable(m) /\ RoundedUp(s, n) <= RoundedUp(m, n)
  /\ \A m \in hru.maxUnavailable : \A u \in ru.maxUnavailable :
       Readable(u) /\ Readable(m) /\ RoundedUp(u, n) <= RoundedUp(m, n)

StrategyAdheres(strategy) ==
  /\ dpl.strategy.type = strategy.type
  /\ strategy.type = RollingUpdateType =>
       \E ru \in dpl.strategy.rollingUpdate :
         \A hru \in strategy.rollingUpdate, n \in dpl.replicas :
           WithinBounds(ru, hru, n)

Adheres ==
  /\ \A minimum \in hap.replicas : \E n \in dpl.replicas : n >= minimum
  /\ \A strategy \in hap.strategy : StrategyAdheres(strategy)
  /\ \A res \in hap.resources, c \in dpl.containers :
       /\ RequiredIn(res.requests) \subseteq c.requests
       /\ RequiredIn(res.limits) \subseteq c.limits

(* The rolling-update pairs a policy bounds in an accepted Deployment.     *)
BoundedRollouts ==
  {b \in dpl.strategy.rollingUpdate \X PolicyRollingUpdates(hap) \X dpl.replicas :
     \E s \in hap.strategy : RollingUpdateCompared(dpl, s)}

-----------------------------------------------------------------------------
(* Invariants *)

(* The variables hold values of the code's types, and containers are still *)
(* to be visited only while the resource loop runs.                        *)
TypeOK ==
  /\ dpl \in Deployments
  /\ hap \in PolicySpecs
  /\ pc \in Steps
  /\ el \subseteq FieldError
  /\ unvisited \subseteq dpl.containers
  /\ pc # "containers" => unvisited = {}

(* However the containers are visited and wherever a validator returns     *)
(* early, the call ends with the errors of DeploymentErrors, or in a panic *)
(* exactly when ValidationPanics says so.  The admission hook's model uses *)
(* those two operators in place of the call.                               *)
SummaryIsExact ==
  /\ Returned => el = DeploymentErrors(dpl, hap) /\ ~ValidationPanics(dpl, hap)
  /\ pc = "panic" => ValidationPanics(dpl, hap)

(* ValidateDeployment accepts the Deployments that adhere to the policy as *)
(* types.go describes it, and no others: an early return never hides the   *)
(* only violation, and no adhering Deployment is turned away.              *)
AcceptedIffAdheres == Returned => (el = {} <=> Adheres)

(* types.go:79-82, about the cluster rather than about the fields: the     *)
(* controller rounds maxUnavailable down, and falls back to one pod when   *)
(* both values round to zero, while the validator rounds up; still, an     *)
(* accepted Deployment never has more pods down than the policy's bound.   *)
RolloutStaysWithinPolicy ==
  Accepted /\ ValidForKubernetes(dpl) =>
    \A b \in BoundedRollouts : \A bound \in b[2].maxUnavailable :
      \A down \in PodsDown(b[1], b[3]) : down <= RoundedUp(bound, b[3])

(* high_availability.yaml:13-19: a Deployment the default policy accepts   *)
(* runs at least two replicas, surges by at least one pod and at most by   *)
(* the replica count, and never has a pod unavailable during a rollout.    *)
DefaultPolicyGuarantee ==
  Accepted /\ hap = DefaultPolicy /\ ValidForKubernetes(dpl) =>
    \E n \in dpl.replicas : \E ru \in dpl.strategy.rollingUpdate :
      /\ n >= 2
      /\ ResolvedSurge(ru, n) \subseteq 1..n
      /\ PodsDown(ru, n) = {0}

(* Percentages that are in order as written are in order as pods: whatever *)
(* the replica count, rounding never turns a maxSurge percentage between   *)
(* the policy's percentages, or a maxUnavailable percentage below the      *)
(* policy's, into an error.                                                *)
PercentInOrder(lo, hi) == lo.kind = "percent" /\ hi.kind = "percent" /\ lo.val <= hi.val

SurgeInOrder(s, hru) ==
  /\ PercentInOrder(s, s)
  /\ \A m \in hru.minSurge : PercentInOrder(m, s)
  /\ \A m \in hru.maxSurge : PercentInOrder(s, m)

PercentagesCompareAsDeclared ==
  Returned =>
    \A b \in BoundedRollouts :
      /\ \A s \in b[1].maxSurge :
           SurgeInOrder(s, b[2]) =>
             \A e \in el : e.path \notin {<<"minSurge">>, <<"maxSurge">>}
      /\ \A u \in b[1].maxUnavailable, m \in b[2].maxUnavailable :
           PercentInOrder(u, m) => \A e \in el : e.path # <<"maxUnavailable">>

-----------------------------------------------------------------------------
(* What comments of the repository say and the code does not do.           *)

(* types.go:63-65 makes the policy's rollingUpdate optional: "Rolling      *)
(* Update configuration parameters [...] omitempty".  A complete           *)
(* Deployment should then be validated, not end in a nil dereference.      *)
OptionalBlockTolerated == pc = "panic" => ~ValidForKubernetes(dpl)

=============================================================================
