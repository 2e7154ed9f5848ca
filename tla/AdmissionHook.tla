---------------------------- MODULE AdmissionHook ----------------------------
(***************************************************************************)
(* internal/webhooks/high_availability.go: the admission hook of one       *)
(* webhook process, with the calls it serves, the policy store it lists    *)
(* and the users who change that store meanwhile.                          *)
(*                                                                         *)
(* Every HTTP request runs Validate in a goroutine of its own.  A call     *)
(* reads shared state twice, the crdClient field and the policy list, and  *)
(* works on its private copy from there on; its steps interleave with      *)
(* other calls, with policy changes, with Initialize and with the exit of  *)
(* the process.                                                            *)
(*                                                                         *)
(* The loop at lines 71-101 keeps "&dhap", a pointer to its own loop       *)
(* variable.  Before Go 1.22 all iterations share one variable, so the     *)
(* pointer kept in hap follows the loop and ends up at the last item.      *)
(* LoopVarPerIteration says which language the process was built with; the *)
(* Dockerfile and .travis.yml build it with FALSE.                         *)
(***************************************************************************)
EXTENDS PolicyStore, Sequences, Functions

CONSTANTS
  Requests,             \* the calls that may be under way at once
  LoopVarPerIteration   \* every loop iteration has a dhap of its own

ASSUME LoopVarAssumption == LoopVarPerIteration \in BOOLEAN

Phases == {"idle", "list", "select", "answered", "panicked", "lost"}
Responses == {"allowed", "badRequest", "internalError", "notAcceptable"}

VARIABLES
  policies,    \* the policy stored under each key, if any
  serving,     \* the process runs and accepts requests
  crdClient,   \* the hook's crdClient field is set
  pc,          \* how far each call is
  dpl,         \* the Deployment each call has decoded
  items,       \* hapList.Items of each call
  dhap,        \* how many items the loop of each call has loaded into dhap
  hap,         \* the iteration whose &dhap was assigned to hap, if any
  resp,        \* the response of each call, once it has one
  inForce      \* history: the policies stored unchanged since the call began

callVars == <<pc, dpl, items, dhap, hap, resp>>
vars == <<policies, serving, crdClient, callVars, inForce>>

(* A policy through the pointer taken in iteration h, read while the       *)
(* loop's dhap holds item i.                                               *)
Pointee(s, h, i) == s[IF LoopVarPerIteration THEN h ELSE i].spec

(* hap, read in the iteration that holds item i, or after the last one.    *)
Chosen(r, i) == {Pointee(items[r], h, i) : h \in hap[r]}

Judge(r) == Chosen(r, dhap[r])

-----------------------------------------------------------------------------

Init ==
  /\ policies \in Stores
  /\ serving = FALSE
  /\ crdClient = FALSE
  /\ pc = [r \in Requests |-> "idle"]
  /\ dpl = [r \in Requests |-> {}]
  /\ items = [r \in Requests |-> <<>>]
  /\ dhap = [r \in Requests |-> 0]
  /\ hap = [r \in Requests |-> {}]
  /\ resp = [r \in Requests |-> {}]
  /\ inForce = [r \in Requests |-> {}]

(* The process and the hook's crdClient.                                   *)

(* generic-admission-server listens before it runs the post-start hooks    *)
(* that call Initialize.                                                   *)
Start ==
  /\ ~serving
  /\ serving' = TRUE
  /\ UNCHANGED <<policies, crdClient, callVars, inForce>>

(* The assignment of h.crdClient is not synchronised with its readers.  A  *)
(* torn read yields a nil interface or a nil *Clientset, and both panic in *)
(* Barbossa(), as a read from before the assignment does.                  *)
Initialize ==
  /\ serving
  /\ ~crdClient
  /\ crdClient' = TRUE
  /\ UNCHANGED <<policies, serving, callVars, inForce>>

ProcessExit ==
  /\ serving' = FALSE
  /\ crdClient' = FALSE
  /\ pc' = [r \in Requests |-> IF pc[r] = "idle" THEN "idle" ELSE "lost"]
  /\ UNCHANGED <<policies, dpl, items, dhap, hap, resp, inForce>>

(* A post-start hook that returns an error ends the process.               *)
InitializeFails == serving /\ ~crdClient /\ ProcessExit

Crash == serving /\ ProcessExit

(* Users change the policies; nothing but the API server sees them do so.  *)
WritePolicy(k, s) ==
  /\ policies' = [policies EXCEPT ![k] = {s}]
  /\ inForce' = [r \in Requests |-> {p \in inForce[r] : p.spec \in policies'[p.key]}]
  /\ UNCHANGED <<serving, crdClient, callVars>>

DeletePolicy(k) ==
  /\ policies[k] # {}
  /\ policies' = [policies EXCEPT ![k] = {}]
  /\ inForce' = [r \in Requests |-> {p \in inForce[r] : p.key # k}]
  /\ UNCHANGED <<serving, crdClient, callVars>>

-----------------------------------------------------------------------------
(* One call of Validate.                                                   *)

Answer(r, response) ==
  /\ pc' = [pc EXCEPT ![r] = "answered"]
  /\ resp' = [resp EXCEPT ![r] = {response}]

Validate(r, d) ==
  /\ serving
  /\ pc[r] = "idle"
  /\ pc' = [pc EXCEPT ![r] = "list"]
  /\ dpl' = [dpl EXCEPT ![r] = {d}]
  /\ inForce' = [inForce EXCEPT ![r] = Listing(policies, d.namespace)]
  /\ UNCHANGED <<policies, serving, crdClient, items, dhap, hap, resp>>

(* json.Unmarshal fails.                                                   *)
RejectUndecodable(r) ==
  /\ serving
  /\ pc[r] = "idle"
  /\ Answer(r, "badRequest")
  /\ UNCHANGED <<policies, serving, crdClient, dpl, items, dhap, hap, inForce>>

ListPolicies(r) ==
  /\ pc[r] = "list"
  /\ crdClient
  /\ \E d \in dpl[r] :
       LET listing == Listing(policies, d.namespace)
       IN  \E order \in Surjection(1..Cardinality(listing), listing) :
             items' = [items EXCEPT ![r] = order]
  /\ pc' = [pc EXCEPT ![r] = "select"]
  /\ UNCHANGED <<policies, serving, crdClient, dpl, dhap, hap, resp, inForce>>

(* Mutant: without a list, the Deployment is let through.                  *)
ListFailsOpen(r) ==
  /\ pc[r] = "list"
  /\ crdClient
  /\ Answer(r, "allowed")
  /\ UNCHANGED <<policies, serving, crdClient, dpl, items, dhap, hap, inForce>>

ListFails(r) ==
  /\ pc[r] = "list"
  /\ crdClient
  /\ Answer(r, "internalError")
  /\ UNCHANGED <<policies, serving, crdClient, dpl, items, dhap, hap, inForce>>

(* Mutant: before Initialize has run there is nothing to validate against. *)
ListOnNilClientAllows(r) ==
  /\ pc[r] = "list"
  /\ ~crdClient
  /\ Answer(r, "allowed")
  /\ UNCHANGED <<policies, serving, crdClient, dpl, items, dhap, hap, inForce>>

(* Mutant: the call waits for a client that may never come.                *)
ListOnNilClientWaits(r) ==
  /\ pc[r] = "list"
  /\ ~crdClient
  /\ UNCHANGED vars

(* The call comes in before Initialize has run.                            *)
ListOnNilClient(r) ==
  /\ pc[r] = "list"
  /\ ~crdClient
  /\ pc' = [pc EXCEPT ![r] = "panicked"]
  /\ UNCHANGED <<policies, serving, crdClient, dpl, items, dhap, hap, resp, inForce>>

(* The body of the loop, for the next item.                                *)

NextItem(r) == dhap[r] + 1

LoopRuns(r) == pc[r] = "select" /\ dhap[r] < Len(items[r])

(* Mutant: the comparison is the wrong way round.                          *)
OutweighedReversed(r) ==
  \E chosen \in Chosen(r, NextItem(r)) : chosen.weight < items[r][NextItem(r)].spec.weight

Outweighed(r) ==
  \E chosen \in Chosen(r, NextItem(r)) : chosen.weight > items[r][NextItem(r)].spec.weight

SkipOutweighed(r) ==
  /\ LoopRuns(r)
  /\ Outweighed(r)
  /\ dhap' = [dhap EXCEPT ![r] = NextItem(r)]
  /\ UNCHANGED <<policies, serving, crdClient, pc, dpl, items, hap, resp, inForce>>

(* Mutant: a policy whose selector cannot be read is passed over.          *)
RejectSelectorContinues(r) ==
  /\ LoopRuns(r)
  /\ ~Outweighed(r)
  /\ InvalidSelector(items[r][NextItem(r)].spec.selector)
  /\ dhap' = [dhap EXCEPT ![r] = NextItem(r)]
  /\ UNCHANGED <<policies, serving, crdClient, pc, dpl, items, hap, resp, inForce>>

RejectSelector(r) ==
  /\ LoopRuns(r)
  /\ ~Outweighed(r)
  /\ InvalidSelector(items[r][NextItem(r)].spec.selector)
  /\ Answer(r, "internalError")
  /\ UNCHANGED <<policies, serving, crdClient, dpl, items, dhap, hap, inForce>>

(* Mutant: every matching policy is kept, not the last one.                *)
ConsiderPolicyCollects(r) ==
  /\ LoopRuns(r)
  /\ ~Outweighed(r)
  /\ ~InvalidSelector(items[r][NextItem(r)].spec.selector)
  /\ dhap' = [dhap EXCEPT ![r] = NextItem(r)]
  /\ \E d \in dpl[r] :
       hap' = [hap EXCEPT ![r] = IF Selects(items[r][NextItem(r)].spec, d)
                                 THEN @ \cup {NextItem(r)} ELSE @]
  /\ UNCHANGED <<policies, serving, crdClient, pc, dpl, items, resp, inForce>>

(* Mutant: the selector is not matched against the Deployment.             *)
ConsiderPolicyUnmatched(r) ==
  /\ LoopRuns(r)
  /\ ~Outweighed(r)
  /\ ~InvalidSelector(items[r][NextItem(r)].spec.selector)
  /\ dhap' = [dhap EXCEPT ![r] = NextItem(r)]
  /\ hap' = [hap EXCEPT ![r] = {NextItem(r)}]
  /\ UNCHANGED <<policies, serving, crdClient, pc, dpl, items, resp, inForce>>

ConsiderPolicy(r) ==
  /\ LoopRuns(r)
  /\ ~Outweighed(r)
  /\ ~InvalidSelector(items[r][NextItem(r)].spec.selector)
  /\ dhap' = [dhap EXCEPT ![r] = NextItem(r)]
  /\ \E d \in dpl[r] :
       hap' = [hap EXCEPT ![r] = IF Selects(items[r][NextItem(r)].spec, d)
                                 THEN {NextItem(r)} ELSE @]
  /\ UNCHANGED <<policies, serving, crdClient, pc, dpl, items, resp, inForce>>

(* Mutant: the loop stops before the last item.                            *)
LoopEndedEarly(r) == pc[r] = "select" /\ dhap[r] + 1 >= Len(items[r])

LoopEnded(r) == pc[r] = "select" /\ dhap[r] = Len(items[r])

AllowUnselected(r) ==
  /\ LoopEnded(r)
  /\ hap[r] = {}
  /\ Answer(r, "allowed")
  /\ UNCHANGED <<policies, serving, crdClient, dpl, items, dhap, hap, inForce>>

JudgeDeployment(r) ==
  /\ LoopEnded(r)
  /\ \E d \in dpl[r], judge \in Judge(r) :
       ~ValidationPanics(d, judge) /\ Answer(r, Verdict(d, judge))
  /\ UNCHANGED <<policies, serving, crdClient, dpl, items, dhap, hap, inForce>>

(* ValidateDeployment dereferences nil.                                    *)
JudgePanics(r) ==
  /\ LoopEnded(r)
  /\ \E d \in dpl[r], judge \in Judge(r) : ValidationPanics(d, judge)
  /\ pc' = [pc EXCEPT ![r] = "panicked"]
  /\ UNCHANGED <<policies, serving, crdClient, dpl, items, dhap, hap, resp, inForce>>

(* The caller learns the response, or that there is none: the server turns *)
(* a panic into an HTTP 500, and a lost call into a broken connection.     *)
Complete(r) ==
  /\ pc[r] \in {"answered", "panicked", "lost"}
  /\ pc' = [pc EXCEPT ![r] = "idle"]
  /\ dpl' = [dpl EXCEPT ![r] = {}]
  /\ items' = [items EXCEPT ![r] = <<>>]
  /\ dhap' = [dhap EXCEPT ![r] = 0]
  /\ hap' = [hap EXCEPT ![r] = {}]
  /\ resp' = [resp EXCEPT ![r] = {}]
  /\ inForce' = [inForce EXCEPT ![r] = {}]
  /\ UNCHANGED <<policies, serving, crdClient>>

(* What the call's goroutine does once it has the Deployment.              *)
Step(r) ==
  \/ ListPolicies(r) \/ ListFails(r) \/ ListOnNilClient(r)
  \/ SkipOutweighed(r) \/ RejectSelector(r) \/ ConsiderPolicy(r)
  \/ AllowUnselected(r) \/ JudgeDeployment(r) \/ JudgePanics(r)

Next ==
  \/ Start \/ Initialize \/ InitializeFails \/ Crash
  \/ \E k \in PolicyKeys : DeletePolicy(k) \/ \E s \in PolicySpecs : WritePolicy(k, s)
  \/ \E r \in Requests :
       \/ RejectUndecodable(r)
       \/ \E d \in Deployments : Validate(r, d)
       \/ Step(r)
       \/ Complete(r)

Spec == Init /\ [][Next]_vars

(* The goroutine of a call keeps running, and the API server answers List  *)
(* or the connection breaks: the client sets no timeout of its own.        *)
Fairness == \A r \in Requests : WF_vars(Step(r)) /\ WF_vars(Complete(r))

FairSpec == Spec /\ Fairness

-----------------------------------------------------------------------------
(* Invariants *)

(* The variables hold values of the code's types.                          *)
TypeOK ==
  /\ policies \in Stores
  /\ serving \in BOOLEAN
  /\ crdClient \in BOOLEAN
  /\ pc \in [Requests -> Phases]
  /\ dpl \in [Requests -> Opt(Deployments)]
  /\ items \in [Requests -> Seq(Policies)]
  /\ dhap \in [Requests -> Nat]
  /\ hap \in [Requests -> Opt(Nat)]
  /\ resp \in [Requests -> Opt(Responses)]
  /\ inForce \in [Requests -> SUBSET Policies]

Answered(r, response) == pc[r] = "answered" /\ response \in resp[r]

(* ValidateDeployment has run and returned.                                *)
Judged(r) ==
  hap[r] # {} /\ (Answered(r, "allowed") \/ Answered(r, "notAcceptable"))

(* A call that overtakes Initialize, or that a crash and a restart leave   *)
(* behind, never allows a Deployment: the process that allows one has set  *)
(* its client and is still running.                                        *)
NothingAllowedUninitialized ==
  \A r \in Requests : Answered(r, "allowed") => serving /\ crdClient

(* Whatever users do to the store meanwhile: when some policy selected the *)
(* Deployment and stayed as it was from the moment the call came in, then  *)
(* the Deployment is allowed only because a policy of its namespace was    *)
(* applied to it and found no error.  No shuffling of the list, no other   *)
(* policy and no late change lets it through unjudged.                     *)
NeverAllowedUnjudged ==
  \A r \in Requests : \A d \in dpl[r] :
    Answered(r, "allowed") /\ (\E p \in inForce[r] : Selects(p.spec, d)) =>
      \E p \in Range(items[r]) :
        /\ d.namespace \in {"", p.key.namespace}
        /\ DeploymentErrors(d, p.spec) = {}
        /\ ~ValidationPanics(d, p.spec)

(* A Deployment is turned away as not acceptable only over errors against  *)
(* a policy of its own namespace, and only when some listed policy selects *)
(* it: a Deployment no policy selects is ignored (lines 103-108).          *)
DenialIsExplained ==
  \A r \in Requests : \A d \in dpl[r] :
    Answered(r, "notAcceptable") =>
      /\ \E p \in Range(items[r]) : Selects(p.spec, d)
      /\ \E p \in Range(items[r]) :
           /\ d.namespace \in {"", p.key.namespace}
           /\ DeploymentErrors(d, p.spec) # {}

(* A policy whose selector cannot be read fails the call (lines 81-94)     *)
(* unless a heavier policy decides it.  One that was in force all along is *)
(* never passed over in favour of a policy it might have outweighed.       *)
BrokenSelectorFailsClosed ==
  \A r \in Requests :
    Answered(r, "allowed") \/ Answered(r, "notAcceptable") =>
      \A p \in inForce[r] :
        InvalidSelector(p.spec.selector) =>
          \E judge \in Judge(r) : p.spec.weight < judge.weight

(* types.go:13-15: "If a resource has multiple policies that target it,    *)
(* the policy with the highest weight will be used to validate that        *)
(* resource."  Holds when every iteration has a dhap of its own.           *)
HighestWeightWins ==
  \A r \in Requests : \A d \in dpl[r] :
    Judged(r) =>
      \A judge \in Judge(r), p \in Range(items[r]) :
        Selects(p.spec, d) => p.spec.weight <= judge.weight

(* types.go:18-19: the selector selects the Deployments "which fall under  *)
(* this Policy for validation", so the policy a Deployment is validated by *)
(* selects it.  Holds when every iteration has a dhap of its own.          *)
JudgeSelectsDeployment ==
  \A r \in Requests : \A d \in dpl[r] :
    Judged(r) => \A judge \in Judge(r) : Selects(judge, d)

-----------------------------------------------------------------------------
(* Every call that has come in ends, in an answer, in a panic or in a      *)
(* broken connection, whatever users do and however often the process      *)
(* exits.                                                                  *)
EveryCallEnds == \A r \in Requests : (pc[r] # "idle") ~> (pc[r] = "idle")

-----------------------------------------------------------------------------
(* The hook implements the contract, with a dhap for each iteration as     *)
(* with a shared one.                                                      *)

StatusOf(phase) ==
  CASE phase = "idle" -> "idle"
    [] phase = "list" -> "received"
    [] phase = "select" -> "observed"
    [] phase = "answered" -> "answered"
    [] phase \in {"panicked", "lost"} -> "failed"

ContractStatus == [r \in Requests |-> StatusOf(pc[r])]

Contract == INSTANCE AdmissionContract
  WITH status <- ContractStatus,
       deployment <- dpl,
       snapshot <- [r \in Requests |-> Range(items[r])],
       response <- resp

(* Every answer is one that the contract gives, for the language of the    *)
(* build, from the policies stored at one moment of the call: types.go's   *)
(* rule with a dhap for each iteration, the verdict of some policy of the  *)
(* list with a shared one.                                                 *)
ContractSpec == Contract!Spec

=============================================================================
