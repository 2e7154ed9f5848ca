---------------------------- MODULE ClusterProofs ----------------------------
(***************************************************************************)
(* Proofs about Cluster, for any number of requests, policies, Deployments *)
(* and writes.  The inductive invariant says of a request that is pending  *)
(* while the webhook works on it that the call is about its object, and,   *)
(* as long as no policy changes, what the call has observed is in force    *)
(* and the policies in force permit what it has allowed.  At the end, what *)
(* gets past admission.                                                    *)
(***************************************************************************)
EXTENDS Cluster, TLAPS

Allowed(r) == status[r] = "answered" /\ "allowed" \in response[r]

(* The webhook, as it was built, may allow d under the policies in force.  *)
PermittedNow(d) == Hook!Permitted(Listing(policies, d.namespace), d, "allowed")

CallInv(r) ==
  \A req \in pending[r] :
    /\ status[r] # "idle" => Examined(req) /\ deployment[r] = {req.new}
    /\ quiet[r] /\ status[r] = "observed" =>
         snapshot[r] = Listing(policies, req.new.namespace)
    /\ quiet[r] /\ Allowed(r) => PermittedNow(req.new)

IInv == TypeOK /\ \A r \in Requests : CallInv(r)

-----------------------------------------------------------------------------

(* Cluster and the contract it instantiates extend the same modules.       *)
LEMMA SameStore ==
  /\ \A store, ns : Hook!Listing(store, ns) = Listing(store, ns)
  /\ Hook!Stores = Stores
<1>1. \A store, ns : Hook!Listing(store, ns) = Listing(store, ns)
  BY DEF Hook!Listing, Listing, Hook!Policies, Policies
<1>2. Hook!Stores = Stores
  BY DEF Hook!Stores, Stores, Hook!Opt, Opt
<1> QED  BY <1>1, <1>2

LEMMA SameSelection ==
  /\ \A sel : Hook!InvalidSelector(sel) <=> InvalidSelector(sel)
  /\ \A spec, d : Hook!Selects(spec, d) <=> Selects(spec, d)
<1>1. \A sel : Hook!InvalidSelector(sel) <=> InvalidSelector(sel)
  BY DEF Hook!InvalidSelector, InvalidSelector,
         Hook!WellFormedRequirement, WellFormedRequirement
<1>2. \A spec, d : Hook!Selects(spec, d) <=> Selects(spec, d)
  BY DEF Hook!Selects, Selects, Hook!Matches, Matches, Hook!Satisfies, Satisfies
<1> QED  BY <1>1, <1>2

LEMMA SameVerdict ==
  /\ \A d, spec : Hook!Verdict(d, spec) = Verdict(d, spec)
  /\ \A d, spec : Hook!ValidationPanics(d, spec) <=> ValidationPanics(d, spec)
<1> USE DEF Hook!AppendIf, AppendIf, Hook!Invalid, Invalid,
            Hook!IsMalformed, IsMalformed, Hook!RoundedUp, RoundedUp,
            Hook!CeilPercent, CeilPercent, Hook!RollingUpdateType, RollingUpdateType,
            Hook!RollingUpdateCompared, RollingUpdateCompared,
            Hook!PolicyRollingUpdates, PolicyRollingUpdates,
            Hook!BoundsRead, BoundsRead
<1>1. \A d, p : Hook!ReplicaCountErrors(d, p) = ReplicaCountErrors(d, p)
  BY DEF Hook!ReplicaCountErrors, ReplicaCountErrors
<1>2. \A d, p : Hook!StrategyShapeErrors(d, p) = StrategyShapeErrors(d, p)
  BY DEF Hook!StrategyShapeErrors, StrategyShapeErrors
<1>3. \A d, p : Hook!SurgeBoundErrors(d, p) = SurgeBoundErrors(d, p)
  BY DEF Hook!SurgeBoundErrors, SurgeBoundErrors,
         Hook!MaxSurgeErrors, MaxSurgeErrors
<1>4. \A d, p : Hook!UnavailableBoundErrors(d, p) = UnavailableBoundErrors(d, p)
  BY DEF Hook!UnavailableBoundErrors, UnavailableBoundErrors,
         Hook!MaxUnavailableErrors, MaxUnavailableErrors
<1>5. \A d, p : Hook!ResourceErrors(d, p) = ResourceErrors(d, p)
  BY DEF Hook!ResourceErrors, ResourceErrors, Hook!ContainerErrors, ContainerErrors,
         Hook!Missing, Missing, Hook!RequiredIn, RequiredIn
<1>6. \A d, p : Hook!DeploymentErrors(d, p) = DeploymentErrors(d, p)
  BY <1>1, <1>2, <1>3, <1>4, <1>5
     DEF Hook!DeploymentErrors, DeploymentErrors, Hook!UpdateStrategyErrors,
         UpdateStrategyErrors, Hook!BoundErrors, BoundErrors
<1>7. \A d, p : Hook!Verdict(d, p) = Verdict(d, p)
  BY <1>6 DEF Hook!Verdict, Verdict
<1>8. \A d, p : Hook!ValidationPanics(d, p) <=> ValidationPanics(d, p)
  BY DEF Hook!ValidationPanics, ValidationPanics, Hook!SurgePanics, SurgePanics,
         Hook!UnavailablePanics, UnavailablePanics
<1> QED  BY <1>7, <1>8

LEMMA SomeIsOpt ==
  \A S : {} \in Opt(S) /\ \A x \in S : {x} \in Opt(S)
  BY DEF Opt

(* A write changes the set of stored Deployments by the old and new one.   *)
LEMMA CommitType ==
  ASSUME TypeOK, NEW r \in Requests, Commit(r)
  PROVE  stored' \subseteq Deployments
<1>1. PICK req \in pending[r] :
        stored' = IF req.old \subseteq stored THEN (stored \ req.old) \cup {req.new} ELSE stored
  BY DEF Commit
<1>2. req \in WriteRequest
  BY WritesAssumption DEF TypeOK, Opt
<1>3. req.new \in Deployments
  BY <1>2 DEF WriteRequest
<1> QED  BY <1>1, <1>3 DEF TypeOK

LEMMA TypeStep == TypeOK /\ [Next]_vars => TypeOK'
<1> SUFFICES ASSUME TypeOK, [Next]_vars
             PROVE  TypeOK'
  OBVIOUS
<1> USE SomeIsOpt
<1>1. CASE WebhookUp
  BY <1>1 DEF WebhookUp, TypeOK, hookVars
<1>2. CASE WebhookDown
  BY <1>2 DEF WebhookDown, TypeOK, Hook!Fail
<1>3. CASE ChangePolicies
  BY <1>3, SameStore DEF ChangePolicies, TypeOK, Hook!ChangePolicies
<1>4. ASSUME NEW d \in Deployments, DeleteDeployment(d)
      PROVE  TypeOK'
  BY <1>4 DEF DeleteDeployment, TypeOK, hookVars
<1>5. ASSUME NEW r \in Requests, NEW req \in Writes, Send(r, req)
      PROVE  TypeOK'
  BY <1>5 DEF Send, TypeOK, hookVars
<1>6. ASSUME NEW r \in Requests, Decided(r)
      PROVE  /\ pending' \in [Requests -> Opt(Writes)]
             /\ quiet' \in [Requests -> BOOLEAN]
             /\ reachable' \in BOOLEAN
  BY <1>6 DEF Decided, TypeOK
<1>7. ASSUME NEW r \in Requests, Commit(r) \/ Refuse(r)
      PROVE  stored' \subseteq Deployments
  BY <1>7, CommitType DEF Refuse, TypeOK
<1>8. ASSUME NEW r \in Requests, Hook!Complete(r)
      PROVE  /\ policies' \in Stores
             /\ status' \in [Requests -> {"idle", "received", "observed", "answered", "failed"}]
             /\ deployment' \in [Requests -> Opt(Deployments)]
             /\ snapshot' \in [Requests -> SUBSET Policies]
             /\ response' \in [Requests ->
                  Opt({"allowed", "badRequest", "internalError", "notAcceptable"})]
  BY <1>8 DEF Hook!Complete, TypeOK
<1>9. ASSUME NEW r \in Requests, Pass(r) \/ CallFails(r) \/ Timeout(r)
      PROVE  TypeOK'
  <2>1. Decided(r) /\ (Commit(r) \/ Refuse(r)) /\ UNCHANGED hookVars
    BY <1>9 DEF Pass, CallFails, Timeout, Commit, Refuse
  <2> QED  BY <2>1, <1>6, <1>7 DEF TypeOK, hookVars
<1>10. ASSUME NEW r \in Requests, CallWebhook(r)
       PROVE  TypeOK'
  <2>1. PICK req \in pending[r] : Hook!Receive(r, req.new)
    BY <1>10 DEF CallWebhook
  <2>2. req.new \in Deployments
    BY WritesAssumption DEF TypeOK, Opt, WriteRequest
  <2> QED  BY <1>10, <2>1, <2>2 DEF CallWebhook, Hook!Receive, TypeOK, clusterVars
<1>11. ASSUME NEW r \in Requests, Decide(r)
       PROVE  TypeOK'
  <2>1. Decided(r) /\ (Commit(r) \/ Refuse(r)) /\ Hook!Complete(r)
    BY <1>11 DEF Decide, Commit, Refuse
  <2> QED  BY <2>1, <1>6, <1>7, <1>8 DEF TypeOK
<1>12. ASSUME NEW r \in Requests, WebhookStep(r)
       PROVE  TypeOK'
  <2>1. CASE Hook!Observe(r)
    <3>1. \A ns : Listing(policies, ns) \in SUBSET Policies
      BY DEF Listing
    <3>2. PICK d \in deployment[r] :
            snapshot' = [snapshot EXCEPT ![r] = Listing(policies, d.namespace)]
      BY <2>1, SameStore DEF Hook!Observe
    <3> QED  BY <1>12, <2>1, <3>1, <3>2 DEF WebhookStep, Hook!Observe, TypeOK, clusterVars
  <2>2. CASE \E answer \in {"allowed", "internalError", "notAcceptable"} : Hook!Rule(r, answer)
    BY <1>12, <2>2 DEF WebhookStep, Hook!Rule, Hook!Respond, TypeOK, clusterVars
  <2>3. CASE Hook!StoreUnavailable(r)
    BY <1>12, <2>3 DEF WebhookStep, Hook!StoreUnavailable, Hook!Respond, TypeOK, clusterVars
  <2>4. CASE Hook!Fail({r})
    BY <1>12, <2>4 DEF WebhookStep, Hook!Fail, TypeOK, clusterVars
  <2> QED  BY <1>12, <2>1, <2>2, <2>3, <2>4 DEF WebhookStep
<1>13. ASSUME NEW r \in Requests, AbandonedCallEnds(r)
       PROVE  TypeOK'
  BY <1>13, <1>8 DEF AbandonedCallEnds, TypeOK, clusterVars
<1>14. CASE UNCHANGED vars
  BY <1>14 DEF vars, hookVars, clusterVars, TypeOK
<1> QED
  BY <1>1, <1>2, <1>3, <1>4, <1>5, <1>9, <1>10, <1>11, <1>12, <1>13, <1>14 DEF Next, Handle

(* The variables always hold values of their types.                        *)
THEOREM TypeCorrect == Spec => []TypeOK
<1>1. Init => TypeOK
  BY SomeIsOpt, SameStore DEF Init, Hook!Init, TypeOK
<1> QED  BY <1>1, TypeStep, PTL DEF Spec

-----------------------------------------------------------------------------

(* A request's invariant is about its own slot and the policies.           *)
LEMMA OtherSlot ==
  ASSUME NEW r \in Requests, CallInv(r),
         pending'[r] \subseteq pending[r], status'[r] = status[r],
         deployment'[r] = deployment[r], snapshot'[r] = snapshot[r],
         response'[r] = response[r], policies' = policies, quiet'[r] => quiet[r]
  PROVE  CallInv(r)'
  BY DEF CallInv, Allowed, PermittedNow

LEMMA DecidedSlot ==
  ASSUME TypeOK, NEW r \in Requests, pending'[r] = {}
  PROVE  CallInv(r)'
  BY DEF CallInv

(* The call of request r moves, and with it nothing but this call.         *)
LEMMA WebhookStepInv ==
  ASSUME IInv, NEW r \in Requests, WebhookStep(r)
  PROVE  CallInv(r)'
<1> SUFFICES ASSUME NEW req \in pending[r]
             PROVE  /\ status'[r] # "idle" => Examined(req) /\ deployment'[r] = {req.new}
                    /\ quiet[r] /\ status'[r] = "observed" =>
                         snapshot'[r] = Listing(policies, req.new.namespace)
                    /\ quiet[r] /\ status'[r] = "answered" /\ "allowed" \in response'[r] =>
                         PermittedNow(req.new)
  BY DEF WebhookStep, clusterVars, CallInv, Allowed, PermittedNow, Hook!Observe, Hook!Rule,
         Hook!Respond, Hook!StoreUnavailable, Hook!Fail
<1>1. CASE Hook!Observe(r)
  <2>1. deployment[r] = {req.new} /\ Examined(req)
    BY <1>1 DEF IInv, CallInv, Hook!Observe
  <2>2. snapshot'[r] = Listing(policies, req.new.namespace)
    BY <1>1, <2>1, SameStore DEF Hook!Observe, IInv, TypeOK
  <2> QED  BY <1>1, <2>1, <2>2 DEF Hook!Observe, IInv, TypeOK
<1>2. ASSUME NEW answer \in {"allowed", "internalError", "notAcceptable"}, Hook!Rule(r, answer)
      PROVE  /\ status'[r] = "answered" /\ Examined(req) /\ deployment'[r] = {req.new}
             /\ quiet[r] /\ "allowed" \in response'[r] => PermittedNow(req.new)
  <2>1. deployment[r] = {req.new} /\ Examined(req)
    BY <1>2 DEF IInv, CallInv, Hook!Rule
  <2>2. Hook!Permitted(snapshot[r], req.new, answer)
    BY <1>2, <2>1 DEF Hook!Rule
  <2>3. quiet[r] => snapshot[r] = Listing(policies, req.new.namespace)
    BY <1>2 DEF IInv, CallInv, Hook!Rule
  <2>4. status'[r] = "answered" /\ response'[r] = {answer} /\ deployment' = deployment
    BY <1>2 DEF Hook!Rule, Hook!Respond, IInv, TypeOK
  <2> QED  BY <2>1, <2>2, <2>3, <2>4 DEF PermittedNow
<1>3. CASE Hook!StoreUnavailable(r)
  BY <1>3 DEF Hook!StoreUnavailable, Hook!Respond, IInv, TypeOK, CallInv
<1>4. CASE Hook!Fail({r})
  BY <1>4 DEF Hook!Fail, IInv, TypeOK, CallInv
<1> QED  BY <1>1, <1>2, <1>3, <1>4 DEF WebhookStep

LEMMA StepInv == IInv /\ [Next]_vars => IInv'
<1> SUFFICES ASSUME IInv, [Next]_vars, NEW s \in Requests
             PROVE  CallInv(s)'
  BY TypeStep DEF IInv
<1> USE DEF IInv
<1>1. CASE WebhookUp \/ UNCHANGED vars
  BY <1>1, OtherSlot DEF WebhookUp, hookVars, clusterVars, vars
<1>2. CASE WebhookDown
  BY <1>2 DEF WebhookDown, Hook!Fail, TypeOK, CallInv, Allowed
<1>3. CASE ChangePolicies
  BY <1>3 DEF ChangePolicies, Hook!ChangePolicies, TypeOK, CallInv
<1>4. ASSUME NEW d \in Deployments, DeleteDeployment(d)
      PROVE  CallInv(s)'
  BY <1>4, OtherSlot DEF DeleteDeployment, hookVars
<1>5. ASSUME NEW r \in Requests, NEW req \in Writes, Send(r, req)
      PROVE  CallInv(s)'
  <2>1. CASE s = r
    BY <1>5, <2>1 DEF Send, hookVars, TypeOK, CallInv, Allowed
  <2>2. CASE s # r
    BY <1>5, <2>2, OtherSlot DEF Send, hookVars, TypeOK
  <2> QED  BY <2>1, <2>2
<1>6. ASSUME NEW r \in Requests, Pass(r) \/ CallFails(r) \/ Timeout(r)
      PROVE  CallInv(s)'
  <2>1. Decided(r) /\ UNCHANGED hookVars
    BY <1>6 DEF Pass, CallFails, Timeout, Commit, Refuse
  <2>2. CASE s = r
    BY <2>1, <2>2, DecidedSlot DEF Decided, TypeOK
  <2>3. CASE s # r
    BY <2>1, <2>3, OtherSlot DEF Decided, hookVars, TypeOK
  <2> QED  BY <2>2, <2>3
<1>7. ASSUME NEW r \in Requests, CallWebhook(r)
      PROVE  CallInv(s)'
  <2>1. PICK req \in pending[r] : Examined(req) /\ Hook!Receive(r, req.new)
    BY <1>7 DEF CallWebhook
  <2>2. CASE s = r
    <3>1. \A q \in pending[r] : q = req
      BY <2>1 DEF TypeOK, Opt
    <3>2. /\ status'[r] = "received" /\ deployment'[r] = {req.new} /\ pending' = pending
      BY <1>7, <2>1 DEF CallWebhook, Hook!Receive, TypeOK, clusterVars
    <3> QED  BY <2>1, <2>2, <3>1, <3>2 DEF CallInv, Allowed, Examined
  <2>3. CASE s # r
    BY <1>7, <2>1, <2>3, OtherSlot DEF CallWebhook, Hook!Receive, TypeOK, clusterVars
  <2> QED  BY <2>2, <2>3
<1>8. ASSUME NEW r \in Requests, Decide(r)
      PROVE  CallInv(s)'
  <2>1. Decided(r) /\ Hook!Complete(r)
    BY <1>8 DEF Decide, Commit, Refuse
  <2>2. CASE s = r
    BY <2>1, <2>2, DecidedSlot DEF Decided, TypeOK
  <2>3. CASE s # r
    BY <2>1, <2>3, OtherSlot DEF Decided, Hook!Complete, TypeOK
  <2> QED  BY <2>2, <2>3
<1>9. ASSUME NEW r \in Requests, WebhookStep(r)
      PROVE  CallInv(s)'
  <2>1. CASE s = r
    BY <1>9, <2>1, WebhookStepInv
  <2>2. CASE s # r
    BY <1>9, <2>2, OtherSlot
       DEF WebhookStep, clusterVars, TypeOK, Hook!Observe, Hook!Rule, Hook!Respond,
           Hook!StoreUnavailable, Hook!Fail
  <2> QED  BY <2>1, <2>2
<1>10. ASSUME NEW r \in Requests, AbandonedCallEnds(r)
       PROVE  CallInv(s)'
  <2>1. CASE s = r
    BY <1>10, <2>1, DecidedSlot DEF AbandonedCallEnds, clusterVars
  <2>2. CASE s # r
    BY <1>10, <2>2, OtherSlot DEF AbandonedCallEnds, Hook!Complete, clusterVars, TypeOK
  <2> QED  BY <2>1, <2>2
<1> QED
  BY <1>1, <1>2, <1>3, <1>4, <1>5, <1>6, <1>7, <1>8, <1>9, <1>10 DEF Next, Handle

(* A pending request whose webhook call is under way is a request that the *)
(* rules cover, and what the call has found for it is in force.            *)
THEOREM Invariance == Spec => []IInv
<1>1. Init => IInv
  BY SomeIsOpt, SameStore DEF Init, Hook!Init, TypeOK, IInv, CallInv
<1> QED  BY <1>1, StepInv, PTL DEF Spec

-----------------------------------------------------------------------------

(* The steps that can end request r.                                       *)
LEMMA EndOfRequest ==
  ASSUME TypeOK, [Next]_vars, NEW r \in Requests, pending[r] # {}, pending'[r] = {}
  PROVE  Pass(r) \/ CallFails(r) \/ Decide(r) \/ Timeout(r)
<1>1. ~(UNCHANGED pending)
  OBVIOUS
<1>2. PICK q \in Requests : \/ \E req \in Writes : Send(q, req)
                            \/ Pass(q) \/ CallFails(q) \/ Decide(q) \/ Timeout(q)
  BY <1>1 DEF Next, Handle, vars, clusterVars, WebhookUp, WebhookDown, ChangePolicies,
              DeleteDeployment, CallWebhook, WebhookStep, AbandonedCallEnds
<1>3. q = r
  <2>1. \A x \in Requests : x # q => pending'[x] = pending[x]
    BY <1>2 DEF Send, Pass, CallFails, Decide, Timeout, Commit, Refuse, Decided, TypeOK
  <2> QED  BY <2>1
<1> QED  BY <1>2, <1>3 DEF Send

(* A covered Deployment gets into the cluster with an answer that came in  *)
(* time, which nothing but the policies in force has decided.              *)
LEMMA CoveredStep ==
  ASSUME IInv, [Next]_vars, NEW r \in Requests, NEW req \in pending[r],
         GetsWritten(r, req), Examined(req), quiet[r]
  PROVE  PermittedNow(req.new)
<1>1. pending[r] # {} /\ pending'[r] = {} /\ req.new \in stored' \ stored
  BY DEF GetsWritten
<1>2. \A q \in pending[r] : q = req
  BY DEF IInv, TypeOK, Opt
<1>3. ~Pass(r)
  BY <1>2 DEF Pass
<1>4. ~CallFails(r) /\ ~Timeout(r)
  BY <1>1 DEF CallFails, Timeout, Refuse
<1>5. Decide(r)
  BY <1>1, <1>3, <1>4, EndOfRequest DEF IInv
<1>6. Allowed(r)
  BY <1>1, <1>5 DEF Decide, Refuse, Allowed
<1> QED  BY <1>6 DEF IInv, CallInv

(* A single policy is the judge in both builds.                            *)
LEMMA LoneJudge ==
  ASSUME TypeOK, LonePolicies, NEW d \in Deployments,
         NEW judge \in Hook!SharedJudges(Listing(policies, d.namespace), d)
  PROVE  judge \in Hook!DocumentedJudges(Listing(policies, d.namespace), d)
<1> DEFINE S == Listing(policies, d.namespace)
<1>1. \A p \in S : p = judge
  <2>1. judge \in S
    BY DEF Hook!SharedJudges
  <2>2. ASSUME NEW p \in S
        PROVE  p = judge
    <3>1. p \in Policies /\ judge \in Policies /\ p.key = judge.key
      BY <2>1, <2>2 DEF Listing, LonePolicies, Policies
    <3>2. p.spec \in policies[p.key] /\ judge.spec \in policies[p.key]
      BY <2>1, <2>2, <3>1 DEF Listing
    <3>3. policies[p.key] \in Opt(PolicySpecs)
      BY <3>1 DEF TypeOK, Stores, Policies
    <3>4. p.spec = judge.spec
      BY <3>2, <3>3 DEF Opt
    <3> QED  BY <3>1, <3>4 DEF Policies
  <2> QED  BY <2>2
<1>2. Hook!Broken(S) = {} /\ Hook!Selecting(S, d) # {} /\ judge \in S
  BY DEF Hook!SharedJudges
<1>3. judge \in Hook!Selecting(S, d) /\ \A q \in Hook!Selecting(S, d) : q = judge
  BY <1>1, <1>2 DEF Hook!Selecting
<1>4. judge.spec.weight \in Int
  BY <1>2, PolicySpecsAssumption DEF Listing, Policies, PolicySpec
<1> QED  BY <1>2, <1>3, <1>4 DEF Hook!DocumentedJudges

(* types.go:88-90, where the webhook was built with a loop variable for    *)
(* each iteration or no namespace has two policies: whatever becomes of    *)
(* the webhook and its answers, a request the rules cover puts only        *)
(* Deployments into the cluster that adhere to the policies in force.      *)
THEOREM CoveredWritesAdhere ==
  ASSUME LoopVarPerIteration \/ LonePolicies
  PROVE  Spec => ExaminedAreAdhering
<1>1. ASSUME IInv, [Next]_vars, NEW r \in Requests, NEW req \in pending[r],
             GetsWritten(r, req), Examined(req), quiet[r]
      PROVE  AdheresNow(req.new)
  <2>1. PermittedNow(req.new)
    BY <1>1, CoveredStep
  <2>2. req.new \in Deployments
    BY <1>1, WritesAssumption DEF IInv, TypeOK, Opt, WriteRequest
  <2>3. Hook!Judges(Listing(policies, req.new.namespace), req.new)
          \subseteq Hook!DocumentedJudges(Listing(policies, req.new.namespace), req.new)
    BY <1>1, <2>2, LoneJudge DEF IInv, Hook!Judges
  <2> QED
    BY <2>1, <2>3 DEF PermittedNow, AdheresNow, Hook!Permitted, Hook!Accepted, Hook!Ruled
<1>2. IInv /\ [Next]_vars =>
        [\A r \in Requests : \A req \in pending[r] :
           GetsWritten(r, req) /\ Examined(req) /\ quiet[r] => AdheresNow(req.new)]_vars
  BY <1>1
<1> QED  BY <1>2, Invariance, PTL DEF Spec, ExaminedAreAdhering

(* However the webhook was built and however many policies a namespace     *)
(* has: a Deployment that some policy in force selects gets into the       *)
(* cluster, while no policy changes, only past a policy of its namespace   *)
(* that is in force, that could be read, and that finds no error in it.    *)
THEOREM CoveredWritesAreJudged ==
  Spec => [][\A r \in Requests : \A req \in pending[r] :
               /\ GetsWritten(r, req) /\ Examined(req) /\ quiet[r]
               /\ \E p \in Listing(policies, req.new.namespace) : Selects(p.spec, req.new)
               => \E p \in Listing(policies, req.new.namespace) :
                    /\ ~InvalidSelector(p.spec.selector)
                    /\ DeploymentErrors(req.new, p.spec) = {}
                    /\ ~ValidationPanics(req.new, p.spec)]_vars
<1>1. ASSUME IInv, [Next]_vars, NEW r \in Requests, NEW req \in pending[r],
             GetsWritten(r, req), Examined(req), quiet[r],
             NEW s \in Listing(policies, req.new.namespace), Selects(s.spec, req.new)
      PROVE  \E p \in Listing(policies, req.new.namespace) :
               /\ ~InvalidSelector(p.spec.selector)
               /\ DeploymentErrors(req.new, p.spec) = {}
               /\ ~ValidationPanics(req.new, p.spec)
  <2> DEFINE S == Listing(policies, req.new.namespace)
  <2>1. Hook!Ruled(S, req.new, Hook!Judges(S, req.new), "allowed")
    BY <1>1, CoveredStep DEF PermittedNow, Hook!Permitted
  <2>2. ~(Hook!Broken(S) = {} /\ Hook!Selecting(S, req.new) = {})
    BY <1>1, SameSelection DEF Hook!Selecting
  <2>3. PICK judge \in Hook!Judges(S, req.new) :
          "allowed" = Hook!Verdict(req.new, judge.spec) /\ ~Hook!ValidationPanics(req.new, judge.spec)
    BY <2>1, <2>2 DEF Hook!Ruled
  <2>4. judge \in S /\ judge \notin Hook!Broken(S)
    BY <2>3, LoopVarAssumption
       DEF Hook!Judges, Hook!DocumentedJudges, Hook!SharedJudges, Hook!Selecting
  <2>5. ~InvalidSelector(judge.spec.selector)
    BY <2>4, SameSelection DEF Hook!Broken
  <2>6. DeploymentErrors(req.new, judge.spec) = {} /\ ~ValidationPanics(req.new, judge.spec)
    BY <2>3, SameVerdict DEF Verdict
  <2> QED  BY <2>4, <2>5, <2>6
<1>2. IInv /\ [Next]_vars =>
        [\A r \in Requests : \A req \in pending[r] :
           /\ GetsWritten(r, req) /\ Examined(req) /\ quiet[r]
           /\ \E p \in Listing(policies, req.new.namespace) : Selects(p.spec, req.new)
           => \E p \in Listing(policies, req.new.namespace) :
                /\ ~InvalidSelector(p.spec.selector)
                /\ DeploymentErrors(req.new, p.spec) = {}
                /\ ~ValidationPanics(req.new, p.spec)]_vars
  BY <1>1
<1> QED  BY <1>2, Invariance, PTL DEF Spec

(* A write of the webhook's own Deployment never waits for the webhook, so *)
(* it succeeds in every state of the cluster.                              *)
THEOREM OutageCanEnd == Spec => WebhookCanComeBack
<1>1. ASSUME IInv, [Next]_vars, NEW r \in Requests, NEW req \in pending[r],
             req.new = WebhookDeployment, pending'[r] = {}, req.old \subseteq stored
      PROVE  WebhookDeployment \in stored'
  <2> USE <1>1
  <2>1. ~Examined(req)
    BY WebhookDeploymentAssumption DEF Examined, Enforced, UnvalidatedNamespaces
  <2>2. \A q \in pending[r] : q = req
    BY DEF IInv, TypeOK, Opt
  <2>3. status[r] = "idle"
    BY <2>1 DEF IInv, CallInv
  <2>4. ~CallFails(r) /\ ~Timeout(r) /\ ~Decide(r)
    BY <2>1, <2>2, <2>3 DEF CallFails, Timeout, Decide, Hook!Complete
  <2>5. Pass(r)
    BY <2>4, EndOfRequest DEF IInv
  <2> QED  BY <2>2, <2>5 DEF Pass, Commit
<1>2. IInv /\ [Next]_vars =>
        [\A r \in Requests : \A req \in pending[r] :
           /\ req.new = WebhookDeployment
           /\ pending'[r] = {}
           /\ req.old \subseteq stored
           => WebhookDeployment \in stored']_vars
  BY <1>1
<1> QED  BY <1>2, Invariance, PTL DEF Spec, WebhookCanComeBack

-----------------------------------------------------------------------------

(* A request that reaches no rule of the configuration never waits for the *)
(* webhook and is never turned away because of it: it ends with its object *)
(* in the cluster, unless what it updates has changed meanwhile.           *)
THEOREM UncoveredAreWritten ==
  Spec => [][\A r \in Requests : \A req \in pending[r] :
               ~Examined(req) /\ pending'[r] = {} /\ req.old \subseteq stored => req.new \in stored']_vars
<1>1. ASSUME IInv, [Next]_vars, NEW r \in Requests, NEW req \in pending[r],
             ~Examined(req), pending'[r] = {}, req.old \subseteq stored
      PROVE  req.new \in stored'
  <2> USE <1>1
  <2>1. \A q \in pending[r] : q = req
    BY DEF IInv, TypeOK, Opt
  <2>2. status[r] = "idle"
    BY DEF IInv, CallInv
  <2>3. ~CallFails(r) /\ ~Timeout(r) /\ ~Decide(r)
    BY <2>1, <2>2 DEF CallFails, Timeout, Decide, Hook!Complete
  <2>4. Pass(r)
    BY <2>3, EndOfRequest DEF IInv
  <2> QED  BY <2>1, <2>4 DEF Pass, Commit
<1>2. IInv /\ [Next]_vars =>
        [\A r \in Requests : \A req \in pending[r] :
           ~Examined(req) /\ pending'[r] = {} /\ req.old \subseteq stored => req.new \in stored']_vars
  BY <1>1
<1> QED  BY <1>2, Invariance, PTL DEF Spec

(* Nothing gets past admission: a Deployment is in the cluster only by the *)
(* end of a request for it, one that no rule covers or that the webhook    *)
(* has allowed with an answer that came in time.                           *)
THEOREM EveryWriteIsDecided ==
  Spec => [][\A d \in stored' \ stored :
               \E r \in Requests : \E req \in pending[r] :
                 req.new = d /\ pending'[r] = {} /\ (Examined(req) => Allowed(r))]_vars
<1>1. ASSUME IInv, [Next]_vars, NEW d \in stored' \ stored
      PROVE  \E r \in Requests : \E req \in pending[r] :
               req.new = d /\ pending'[r] = {} /\ (Examined(req) => Allowed(r))
  <2> USE <1>1
  <2>1. PICK r \in Requests : Commit(r) /\ (Pass(r) \/ (Decide(r) /\ Allowed(r)))
    <3>1. stored' # stored
      OBVIOUS
    <3>2. ~WebhookUp /\ ~WebhookDown /\ ~ChangePolicies /\ ~(\E e \in Deployments : DeleteDeployment(e))
      BY <3>1 DEF WebhookUp, WebhookDown, ChangePolicies, DeleteDeployment
    <3>3. PICK r \in Requests : Pass(r) \/ Decide(r)
      BY <3>1, <3>2 DEF Next, Handle, vars, clusterVars, Send, CallWebhook, CallFails, Timeout, Refuse,
                        WebhookStep, AbandonedCallEnds
    <3> QED  BY <3>1, <3>3 DEF Pass, Decide, Refuse, Allowed
  <2>2. PICK req \in pending[r] : stored' = (stored \ req.old) \cup {req.new}
    BY <2>1 DEF Commit
  <2>3. req.new = d /\ pending'[r] = {}
    BY <2>1, <2>2 DEF Commit, Decided, IInv, TypeOK
  <2>4. \A q \in pending[r] : q = req
    BY DEF IInv, TypeOK, Opt
  <2>5. Examined(req) => Allowed(r)
    BY <2>1, <2>4 DEF Pass
  <2> QED  BY <2>3, <2>5
<1>2. IInv /\ [Next]_vars =>
        [\A d \in stored' \ stored :
           \E r \in Requests : \E req \in pending[r] :
             req.new = d /\ pending'[r] = {} /\ (Examined(req) => Allowed(r))]_vars
  BY <1>1 DEF vars, clusterVars
<1> QED  BY <1>2, Invariance, PTL DEF Spec

=============================================================================
