----------------------------- MODULE PolicyStore -----------------------------
(***************************************************************************)
(* The HighAvailabilityPolicies in the cluster, as the webhook sees them.  *)
(* A store is a function from keys to at most one specification.           *)
(***************************************************************************)
EXTENDS DeploymentValidation, FiniteSets

CONSTANTS
  PolicyKeys,    \* namespace and name of the policies users may create
  PolicySpecs,   \* the specifications users may give them
  Deployments    \* the Deployments the API server may ask about

ASSUME PolicyKeysAssumption ==
  PolicyKeys \subseteq [namespace : STRING, name : STRING] /\ IsFiniteSet(PolicyKeys)
ASSUME PolicySpecsAssumption == PolicySpecs \subseteq PolicySpec
ASSUME DeploymentsAssumption == Deployments \subseteq Deployment

Stores == [PolicyKeys -> Opt(PolicySpecs)]

Policies == [key : PolicyKeys, spec : PolicySpecs]

(* What List returns for a namespace; the empty namespace lists them all.  *)
Listing(store, ns) ==
  {p \in Policies : p.spec \in store[p.key] /\ (ns = "" \/ p.key.namespace = ns)}

(* No List ever returns two policies.                                      *)
LonePolicies ==
  /\ \A j, k \in PolicyKeys : j.namespace = k.namespace => j = k
  /\ \A d \in Deployments : d.namespace # ""

Selects(spec, d) == Matches(spec.selector, d.labels)

Verdict(d, spec) ==
  IF DeploymentErrors(d, spec) = {} THEN "allowed" ELSE "notAcceptable"

=============================================================================
