---------------------------- MODULE PolicyTypes ----------------------------
(***************************************************************************)
(* The API types of apis/barbossa/v1alpha1/types.go and the part of a      *)
(* Deployment that the webhook reads.                                      *)
(*                                                                         *)
(* Pointers are sets of at most one element (module Optional), maps are    *)
(* the sets of their entries.  The quantities in a container's resource    *)
(* lists are never read by the code, only their presence is, so a          *)
(* container's requests and limits are the sets of the names they list.    *)
(***************************************************************************)
EXTENDS IntOrString, LabelSelector

Int32 == {n \in Int : -2147483647 - 1 <= n /\ n <= 2147483647}

RollingUpdateType == "RollingUpdate"
RecreateType      == "Recreate"

PolicyRollingUpdate ==
  [minSurge : Opt(IntOrString), maxSurge : Opt(IntOrString),
   maxUnavailable : Opt(IntOrString)]

PolicyStrategy == [type : STRING, rollingUpdate : Opt(PolicyRollingUpdate)]

ResourceList == SUBSET [name : STRING, required : BOOLEAN]

PolicyResources == [requests : ResourceList, limits : ResourceList]

PolicySpec ==
  [weight : Int, selector : Selector, replicas : Opt(Int32),
   strategy : Opt(PolicyStrategy), resources : Opt(PolicyResources)]

(* k8s.io/api/extensions/v1beta1.Deployment.                               *)
DeploymentRollingUpdate ==
  [maxSurge : Opt(IntOrString), maxUnavailable : Opt(IntOrString)]

Container == [name : STRING, requests : SUBSET STRING, limits : SUBSET STRING]

Deployment ==
  [namespace : STRING, labels : SUBSET Label, replicas : Opt(Int32),
   strategy : [type : STRING, rollingUpdate : Opt(DeploymentRollingUpdate)],
   containers : SUBSET Container]

(* docs/kube/defaults/high_availability.yaml after it has been decoded     *)
(* into the types above.  The type of "resources" has no field             *)
(* requiredRequests or minRequests and the specification has no field      *)
(* disruptions, so those entries of the file decode to nothing.            *)
DefaultPolicy ==
  [weight    |-> 0,
   selector  |-> {{}},
   replicas  |-> {2},
   strategy  |-> {[type |-> RollingUpdateType,
                   rollingUpdate |-> {[minSurge       |-> {FromPercent(25)},
                                       maxSurge       |-> {FromPercent(100)},
                                       maxUnavailable |-> {FromInt(0)}]}]},
   resources |-> {[requests |-> {}, limits |-> {}]}]

=============================================================================
