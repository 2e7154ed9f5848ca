------------------------ MODULE DeploymentController ------------------------
(***************************************************************************)
(* The consumer of an accepted Deployment: what the Kubernetes 1.10 API    *)
(* server lets through and how its deployment controller turns a rolling   *)
(* update's values into numbers of pods (external code).  The repository   *)
(* validates the fields; these operators say what the fields then do.      *)
(***************************************************************************)
EXTENDS PolicyTypes

NonNegative(v) == ~IsMalformed(v) /\ v.val >= 0

(* The API server fills in the defaults of a Deployment and validates it   *)
(* before it calls a validating webhook.                                   *)
ValidForKubernetes(dpl) ==
  /\ \E n \in dpl.replicas : n >= 0
  /\ dpl.strategy.type \in {RecreateType, RollingUpdateType}
  /\ dpl.strategy.type = RecreateType => dpl.strategy.rollingUpdate = {}
  /\ dpl.strategy.type = RollingUpdateType =>
       \E ru \in dpl.strategy.rollingUpdate :
         \E surge \in ru.maxSurge, unavailable \in ru.maxUnavailable :
           /\ NonNegative(surge) /\ NonNegative(unavailable)
           /\ surge.val > 0 \/ unavailable.val > 0
           /\ unavailable.kind = "percent" => unavailable.val <= 100

(* ResolveFenceposts: surge is rounded up, unavailable down, and when both *)
(* are zero one pod may be taken down, or the rollout would never move.    *)
ResolvedSurge(ru, n) == UNION {{RoundedUp(s, n)} : s \in ru.maxSurge}

ResolvedUnavailable(ru, n) ==
  {IF RoundedUp(s, n) = 0 /\ RoundedDown(u, n) = 0 THEN 1 ELSE RoundedDown(u, n)
   : s \in ru.maxSurge, u \in ru.maxUnavailable}

(* Pods a rolling update of n replicas may have down at once: no more than *)
(* there are.                                                              *)
PodsDown(ru, n) ==
  {IF u > n THEN n ELSE u : u \in ResolvedUnavailable(ru, n)}

=============================================================================
