----------------------------- MODULE PolicyApi -----------------------------
(***************************************************************************)
(* What HighAvailabilityPolicyInterface promises its callers, whoever      *)
(* implements it: a call takes effect at one moment between its start and  *)
(* its return, on the policies it addresses and no others, and its answer  *)
(* tells what that effect was.  PolicyClient and FakeClient implement it.  *)
(***************************************************************************)
EXTENDS Optional

CONSTANTS
  Callers,      \* goroutines that use the interface
  Keys,         \* namespace and name of the policies
  Operations    \* the calls they may make: a method and its arguments

VARIABLES
  policies,     \* the label of each policy there is
  call,         \* of each caller, the operation under way
  outcome       \* of each caller, the answer to it, once there is one

apiVars == <<policies, call, outcome>>

Init ==
  /\ policies \in [Keys -> Opt({o.body.label : o \in Operations})]
  /\ call = [c \in Callers |-> {}]
  /\ outcome = [c \in Callers |-> {}]

(* Any operation may come next; as this specification is only compared     *)
(* with others, it reads the one that does from their steps.               *)
Invoke(c) ==
  /\ call[c] = {}
  /\ \E o \in call'[c] : o \in Operations /\ call' = [call EXCEPT ![c] = {o}]
  /\ UNCHANGED <<policies, outcome>>

(* The policies an operation is about: those of its namespace, and of its  *)
(* name if it has one, with a label it selects.                            *)
Addressed(o) ==
  {k \in Keys : /\ o.namespace = "" \/ k.namespace = o.namespace
                /\ o.name = "" \/ k.name = o.name
                /\ \E l \in policies[k] : l \in o.labels}

Contents(ks) == {p \in [key : ks, label : UNION {policies[k] : k \in ks}] : p.label \in policies[p.key]}

Answer(c, kind, objects) == outcome' = [outcome EXCEPT ![c] = {[kind |-> kind, objects |-> objects]}]

Read(c, o) ==
  /\ o.method = "List" \/ (o.method = "Get" /\ Addressed(o) # {})
  /\ Answer(c, "ok", Contents(Addressed(o)))
  /\ UNCHANGED policies

Put(c, o) ==
  /\ \/ o.method = "Create" /\ policies[o.body.key] = {}
     \/ o.method \in {"Update", "Patch"} /\ policies[o.body.key] # {}
  /\ policies' = [policies EXCEPT ![o.body.key] = {o.body.label}]
  /\ Answer(c, "ok", {[key |-> o.body.key, label |-> o.body.label]})

Remove(c, ks, kind) ==
  /\ policies' = [k \in Keys |-> IF k \in ks THEN {} ELSE policies[k]]
  /\ Answer(c, kind, {})

Erase(c, o) ==
  \/ /\ o.method = "DeleteCollection" \/ (o.method = "Delete" /\ Addressed(o) # {})
     /\ Remove(c, Addressed(o), "ok")
  \/ /\ o.method = "DeleteCollection"
     /\ \E ks \in SUBSET Addressed(o) : Remove(c, ks, "failed")

(* An error that says why nothing has been done.                           *)
Excused(o, kind) ==
  \/ kind = "busy"
  \/ kind = "conflict" /\ o.method = "Update"
  \/ kind = "notFound" /\ o.method \notin {"List", "Create", "DeleteCollection"} /\ Addressed(o) = {}
  \/ kind = "alreadyExists" /\ o.method = "Create" /\ policies[o.body.key] # {}

Reject(c, o) ==
  /\ \E kind \in {"busy", "conflict", "notFound", "alreadyExists"} :
       Excused(o, kind) /\ Answer(c, kind, {})
  /\ UNCHANGED policies

Perform(c) ==
  /\ outcome[c] = {}
  /\ \E o \in call[c] : Read(c, o) \/ Put(c, o) \/ Erase(c, o) \/ Reject(c, o)
  /\ UNCHANGED call

(* The connection breaks, before or after the call has taken effect.       *)
Lose(c) ==
  /\ call[c] # {}
  /\ Answer(c, "lost", {})
  /\ UNCHANGED <<policies, call>>

Return(c) ==
  /\ outcome[c] # {}
  /\ call' = [call EXCEPT ![c] = {}]
  /\ outcome' = [outcome EXCEPT ![c] = {}]
  /\ UNCHANGED policies

Next == \E c \in Callers : Invoke(c) \/ Perform(c) \/ Lose(c) \/ Return(c)

Spec == Init /\ [][Next]_apiVars

=============================================================================
