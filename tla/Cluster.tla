------------------------------- MODULE Cluster -------------------------------
(***************************************************************************)
(* The API server's side of admission, as docs/kube configures it: which   *)
(* requests reach the webhook, what becomes of them when it is away, slow  *)
(* or failing, and which Deployments the cluster ends up with.             *)
(*                                                                         *)
(* The webhook's calls are those of AdmissionContract, the shipped loop's  *)
(* or the one of a build with a loop variable for each iteration;          *)
(* AdmissionHook implements the contract in both.  A call that the API     *)
(* server gives up on goes on in the webhook, and its answer is dropped.   *)
(***************************************************************************)
EXTENDS PolicyStore

CONSTANTS
  Requests,            \* the API requests that may be under way at once
  Writes,              \* the writes of Deployments users may ask for
  WebhookDeployment,   \* the Deployment the webhook itself runs as
  LoopVarPerIteration  \* how the webhook's binary was built

(* A creation has no old object; a scale request changes the replicas.     *)
WriteRequest ==
  [old : Opt(Deployments), new : Deployments,
   resource : {"deployments", "deployments/scale"}, version : {"v1beta1", "v1"}]

WellFormed(req) ==
  /\ \A o \in req.old : o # req.new /\ o.namespace = req.new.namespace
  /\ req.resource = "deployments/scale" =>
       \E o \in req.old : req.new = [o EXCEPT !.replicas = req.new.replicas]

ASSUME WritesAssumption == Writes \subseteq {req \in WriteRequest : WellFormed(req)}
ASSUME WebhookDeploymentAssumption ==
  WebhookDeployment \in Deployments /\ WebhookDeployment.namespace = "barbossa"
ASSUME LoopVarAssumption == LoopVarPerIteration \in BOOLEAN

VARIABLES
  policies, status, deployment, snapshot, response,   \* the webhook's calls
  stored,      \* the Deployments in the cluster
  reachable,   \* a pod of the webhook serves, and its certificate verifies
  pending,     \* the request each slot is about, until it is decided
  quiet        \* history: no policy has changed since the request came in

Hook == INSTANCE AdmissionContract

hookVars == <<policies, status, deployment, snapshot, response>>
clusterVars == <<stored, reachable, pending, quiet>>
vars == <<hookVars, clusterVars>>

(* The namespaces created with the label disable-validation: "true".       *)
UnvalidatedNamespaces == {"barbossa"}

(* Mutant: no namespace is exempt.                                         *)
EnforcedEverywhere(ns) == TRUE

Enforced(ns) == ns \notin UnvalidatedNamespaces

CoveredByRules(req) == req.resource = "deployments" /\ req.version = "v1beta1"

Examined(req) == Enforced(req.new.namespace) /\ CoveredByRules(req)

-----------------------------------------------------------------------------

Init ==
  /\ Hook!Init
  /\ stored = {}
  /\ reachable = FALSE
  /\ pending = [r \in Requests |-> {}]
  /\ quiet = [r \in Requests |-> FALSE]

(* Mutant: a slot takes a second request before the first is decided.      *)
SendAgain(r, req) ==
  /\ status[r] = "idle"
  /\ req.old \subseteq stored
  /\ pending' = [pending EXCEPT ![r] = @ \cup {req}]
  /\ quiet' = [quiet EXCEPT ![r] = TRUE]
  /\ UNCHANGED <<hookVars, stored, reachable>>

Send(r, req) ==
  /\ pending[r] = {}
  /\ status[r] = "idle"
  /\ req.old \subseteq stored
  /\ pending' = [pending EXCEPT ![r] = {req}]
  /\ quiet' = [quiet EXCEPT ![r] = TRUE]
  /\ UNCHANGED <<hookVars, stored, reachable>>

Decided(r) ==
  /\ pending' = [pending EXCEPT ![r] = {}]
  /\ quiet' = [quiet EXCEPT ![r] = FALSE]
  /\ UNCHANGED reachable

(* An update of an object that is gone by now fails with a conflict.       *)
Commit(r) ==
  /\ \E req \in pending[r] :
       stored' = IF req.old \subseteq stored THEN (stored \ req.old) \cup {req.new}
                                             ELSE stored
  /\ Decided(r)

Refuse(r) == Decided(r) /\ UNCHANGED stored

(* No rule or namespace selector of the configuration covers the request.  *)
Pass(r) ==
  /\ \E req \in pending[r] : ~Examined(req)
  /\ Commit(r)
  /\ UNCHANGED hookVars

CallWebhook(r) ==
  /\ reachable
  /\ \E req \in pending[r] : Examined(req) /\ Hook!Receive(r, req.new)
  /\ UNCHANGED clusterVars

(* Mutant: failurePolicy Ignore.                                           *)
CallFailsIgnored(r) ==
  /\ ~reachable
  /\ status[r] = "idle"
  /\ \E req \in pending[r] : Examined(req)
  /\ Commit(r)
  /\ UNCHANGED hookVars

(* failurePolicy Fail: without a webhook the request is refused.           *)
CallFails(r) ==
  /\ ~reachable
  /\ status[r] = "idle"
  /\ \E req \in pending[r] : Examined(req)
  /\ Refuse(r)
  /\ UNCHANGED hookVars

(* The webhook's answer, or its failure, reaches the API server.           *)
Decide(r) ==
  /\ pending[r] # {}
  /\ IF status[r] = "answered" /\ "allowed" \in response[r] THEN Commit(r) ELSE Refuse(r)
  /\ Hook!Complete(r)

(* Mutant: the API server waits until the webhook has answered.            *)
TimeoutAfterAnswer(r) ==
  /\ pending[r] # {}
  /\ status[r] = "answered"
  /\ Refuse(r)
  /\ UNCHANGED hookVars

(* The API server has waited long enough; the call goes on without it.     *)
Timeout(r) ==
  /\ pending[r] # {}
  /\ status[r] # "idle"
  /\ Refuse(r)
  /\ UNCHANGED hookVars

AbandonedCallEnds(r) ==
  /\ pending[r] = {}
  /\ Hook!Complete(r)
  /\ UNCHANGED clusterVars

(* What the webhook does with a call; a single call fails when it panics.  *)
WebhookStep(r) ==
  /\ \/ Hook!Observe(r)
     \/ \E answer \in {"allowed", "internalError", "notAcceptable"} : Hook!Rule(r, answer)
     \/ Hook!StoreUnavailable(r)
     \/ Hook!Fail({r})
  /\ UNCHANGED clusterVars

(* The Deployment controller starts a pod, and its certificate verifies.   *)
WebhookUp ==
  /\ WebhookDeployment \in stored
  /\ ~reachable
  /\ reachable' = TRUE
  /\ UNCHANGED <<hookVars, stored, pending, quiet>>

(* The pod exits, or is no longer reached; its calls are lost.             *)
WebhookDown ==
  /\ reachable
  /\ reachable' = FALSE
  /\ Hook!Fail({r \in Requests : status[r] # "idle"})
  /\ UNCHANGED <<stored, pending, quiet>>

(* Deletions are not among the operations of the rules.                    *)
DeleteDeployment(d) ==
  /\ d \in stored
  /\ stored' = stored \ {d}
  /\ UNCHANGED <<hookVars, reachable, pending, quiet>>

ChangePolicies ==
  /\ Hook!ChangePolicies
  /\ quiet' = [r \in Requests |-> FALSE]
  /\ UNCHANGED <<stored, reachable, pending>>

(* What the API server does about a request.                               *)
Handle(r) ==
  Pass(r) \/ CallWebhook(r) \/ CallFails(r) \/ Decide(r) \/ Timeout(r)

Next ==
  \/ WebhookUp \/ WebhookDown \/ ChangePolicies
  \/ \E d \in Deployments : DeleteDeployment(d)
  \/ \E r \in Requests :
       \/ \E req \in Writes : Send(r, req)
       \/ Handle(r)
       \/ WebhookStep(r)
       \/ AbandonedCallEnds(r)

Spec == Init /\ [][Next]_vars

(* The API server handles what it has accepted and applies its timeout.    *)
(* Nothing is assumed of the webhook.                                      *)
FairSpec == Spec /\ \A r \in Requests : WF_vars(Handle(r))

-----------------------------------------------------------------------------

TypeOK ==
  /\ policies \in Stores
  /\ status \in [Requests -> {"idle", "received", "observed", "answered", "failed"}]
  /\ deployment \in [Requests -> Opt(Deployments)]
  /\ snapshot \in [Requests -> SUBSET Policies]
  /\ response \in [Requests ->
       Opt({"allowed", "badRequest", "internalError", "notAcceptable"})]
  /\ stored \subseteq Deployments
  /\ reachable \in BOOLEAN
  /\ pending \in [Requests -> Opt(Writes)]
  /\ quiet \in [Requests -> BOOLEAN]

(* The step ends r's request by writing its object.                        *)
GetsWritten(r, req) ==
  req \in pending[r] /\ pending'[r] = {} /\ req.new \in stored' \ stored

(* The rule of types.go, which the webhook's own choice may differ from.   *)
AdheresNow(d) == Hook!Accepted(Listing(policies, d.namespace), d)

(* types.go:88-90, for the requests the rules cover: whatever happens to   *)
(* the webhook and to its answer on the way, a Deployment that gets into   *)
(* the cluster adheres to the policies in force, unless these changed      *)
(* while it was being decided.  Holds for the shipped webhook where no     *)
(* namespace has two policies.                                             *)
ExaminedAreAdhering ==
  [][\A r \in Requests : \A req \in pending[r] :
       GetsWritten(r, req) /\ Examined(req) /\ quiet[r] => AdheresNow(req.new)]_vars

(* However long the webhook is away, its own Deployment can be created and *)
(* changed: only a write of it that has become stale is turned away.       *)
(* Without a webhook nothing else can get the cluster out of that state.   *)
WebhookCanComeBack ==
  [][\A r \in Requests : \A req \in pending[r] :
       /\ req.new = WebhookDeployment
       /\ pending'[r] = {}
       /\ req.old \subseteq stored
       => WebhookDeployment \in stored']_vars

(* Every request is decided, even by a webhook that never answers.         *)
EveryRequestEnds == \A r \in Requests : (pending[r] # {}) ~> (pending[r] = {})

(* types.go:88-90: the policy "will be used as a Validation mechanism      *)
(* through webhooks and prevent non-adhering Deployments from being added  *)
(* to the cluster".                                                        *)
NonAdheringKeptOut ==
  [][\A r \in Requests : \A req \in pending[r] :
       GetsWritten(r, req) /\ Enforced(req.new.namespace) /\ quiet[r] => AdheresNow(req.new)]_vars

=============================================================================
