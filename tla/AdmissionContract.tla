-------------------------- MODULE AdmissionContract --------------------------
(***************************************************************************)
(* What a caller can rely on, without the webhook's loop: the answer to a  *)
(* call is the verdict of one policy its namespace held at some moment     *)
(* between the call and its answer.  Which policy may be the judge depends *)
(* on the language the webhook was built with: with a loop variable for    *)
(* each iteration it is the one types.go promises, the heaviest of those   *)
(* that select the Deployment; with a shared one it is whichever policy    *)
(* was listed last, as soon as any of them selects the Deployment.  A call *)
(* may fail at any time, and never allows anything then.                   *)
(***************************************************************************)
EXTENDS PolicyStore

CONSTANTS
  Requests,
  LoopVarPerIteration   \* every iteration of the webhook's loop has a dhap of its own

VARIABLES
  policies,     \* the store, which users change at will
  status,       \* of each call
  deployment,   \* the Deployment of each call, once it is known
  snapshot,     \* the policies a call is decided by
  response      \* of each call, once there is one

contractVars == <<policies, status, deployment, snapshot, response>>

Init ==
  /\ policies \in Stores
  /\ status = [r \in Requests |-> "idle"]
  /\ deployment = [r \in Requests |-> {}]
  /\ snapshot = [r \in Requests |-> {}]
  /\ response = [r \in Requests |-> {}]

ChangePolicies ==
  /\ policies' \in Stores
  /\ UNCHANGED <<status, deployment, snapshot, response>>

Receive(r, d) ==
  /\ status[r] = "idle"
  /\ status' = [status EXCEPT ![r] = "received"]
  /\ deployment' = [deployment EXCEPT ![r] = {d}]
  /\ UNCHANGED <<policies, snapshot, response>>

Observe(r) ==
  /\ status[r] = "received"
  /\ status' = [status EXCEPT ![r] = "observed"]
  /\ \E d \in deployment[r] :
       snapshot' = [snapshot EXCEPT ![r] = Listing(policies, d.namespace)]
  /\ UNCHANGED <<policies, deployment, response>>

Broken(S) == {p \in S : InvalidSelector(p.spec.selector)}

Selecting(S, d) == {p \in S \ Broken(S) : Selects(p.spec, d)}

(* The policies with the highest weight; several when weights are equal.   *)
(* A policy whose selector cannot be read must stop a decision that it     *)
(* could have overruled.                                                   *)
DocumentedJudges(S, d) ==
  {p \in Selecting(S, d) :
     /\ \A q \in Selecting(S, d) : q.spec.weight <= p.spec.weight
     /\ \A q \in Broken(S) : q.spec.weight < p.spec.weight}

(* A pointer to a shared loop variable ends up at the last policy of the   *)
(* list, and a List may return them in any order.  Nothing ever outweighs  *)
(* the policy at hand then, so the loop reads every selector.              *)
SharedJudges(S, d) ==
  {p \in S : Broken(S) = {} /\ Selecting(S, d) # {}}

(* A policy whose selector cannot be read may stop every decision.         *)
Ruled(S, d, judges, answer) ==
  \/ answer = "internalError" /\ Broken(S) # {}
  \/ answer = "allowed" /\ Broken(S) = {} /\ Selecting(S, d) = {}
  \/ \E judge \in judges :
       answer = Verdict(d, judge.spec) /\ ~ValidationPanics(d, judge.spec)

Judges(S, d) ==
  IF LoopVarPerIteration THEN DocumentedJudges(S, d) ELSE SharedJudges(S, d)

Permitted(S, d, answer) == Ruled(S, d, Judges(S, d), answer)

(* types.go's rule lets the Deployment through, whatever the build.        *)
Accepted(S, d) == Ruled(S, d, DocumentedJudges(S, d), "allowed")

Respond(r, answer) ==
  /\ status' = [status EXCEPT ![r] = "answered"]
  /\ response' = [response EXCEPT ![r] = {answer}]
  /\ UNCHANGED <<policies, deployment, snapshot>>

Rule(r, answer) ==
  /\ status[r] = "observed"
  /\ \E d \in deployment[r] : Permitted(snapshot[r], d, answer)
  /\ Respond(r, answer)

Undecodable(r) == status[r] = "idle" /\ Respond(r, "badRequest")

StoreUnavailable(r) == status[r] = "received" /\ Respond(r, "internalError")

(* The calls in R end without an answer.                                   *)
Fail(R) ==
  /\ \A r \in R : status[r] # "idle"
  /\ status' = [r \in Requests |-> IF r \in R THEN "failed" ELSE status[r]]
  /\ UNCHANGED <<policies, deployment, snapshot, response>>

Complete(r) ==
  /\ status[r] \in {"answered", "failed"}
  /\ status' = [status EXCEPT ![r] = "idle"]
  /\ deployment' = [deployment EXCEPT ![r] = {}]
  /\ snapshot' = [snapshot EXCEPT ![r] = {}]
  /\ response' = [response EXCEPT ![r] = {}]
  /\ UNCHANGED policies

Next ==
  \/ ChangePolicies
  \/ \E R \in SUBSET Requests : Fail(R)
  \/ \E r \in Requests :
       \/ \E d \in Deployments : Receive(r, d)
       \/ Observe(r)
       \/ \E answer \in {"allowed", "internalError", "notAcceptable"} : Rule(r, answer)
       \/ Undecodable(r) \/ StoreUnavailable(r) \/ Complete(r)

Spec == Init /\ [][Next]_contractVars

=============================================================================
