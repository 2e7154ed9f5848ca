------------------------- MODULE AdmissionHookProofs -------------------------
(***************************************************************************)
(* Proofs about the admission hook, for any number of calls, policies and  *)
(* Deployments, and for both meanings of the loop variable.                *)
(*                                                                         *)
(* The inductive invariant IInv is TypeOK and, for every call, the parts   *)
(* of CallInv: which variables are set in which phase (Shape), what the    *)
(* listed items and the history have to do with the store (Fresh), what    *)
(* the loop knows of the items it has visited (LoopInv) and what an answer *)
(* rests on (Grounds).  With it, the hook implements AdmissionContract;    *)
(* then what decides in each build, what a panic comes from, and why calls *)
(* come to an end.                                                         *)
(***************************************************************************)
EXTENDS AdmissionHook, FiniteSetTheorems, SequenceTheorems, TLAPS

(* The call has its list and has not failed.                               *)
Weighing(r) ==
  pc[r] = "select" \/ Answered(r, "allowed") \/ Answered(r, "notAcceptable")

Shape(r) ==
  /\ pc[r] \in {"idle", "list"} =>
       items[r] = <<>> /\ dhap[r] = 0 /\ hap[r] = {} /\ resp[r] = {}
  /\ pc[r] = "select" => resp[r] = {}
  /\ pc[r] \in {"list", "select"} => dpl[r] # {}
  /\ dhap[r] <= Len(items[r])
  /\ hap[r] \subseteq 1..dhap[r]
  /\ Weighing(r) => serving /\ crdClient

InNamespace(d, p) == d.namespace = "" \/ p.key.namespace = d.namespace

Fresh(r) ==
  /\ \A p \in inForce[r] : p.spec \in policies[p.key]
  /\ pc[r] = "list" => \A d \in dpl[r], p \in inForce[r] : InNamespace(d, p)
  /\ Weighing(r) => inForce[r] \subseteq Range(items[r])
  /\ \A d \in dpl[r], p \in Range(items[r]) : InNamespace(d, p)
  /\ \A p, q \in Range(items[r]) : p.key = q.key => p = q

IsBroken(p) == InvalidSelector(p.spec.selector)

(* i ranges over the items the loop has visited, h is where hap points.    *)
LoopInv(r) ==
  /\ hap[r] = {} => \A i \in 1..dhap[r] : ~IsBroken(items[r][i])
  /\ hap[r] = {} => \A i \in 1..dhap[r], d \in dpl[r] : ~Selects(items[r][i].spec, d)
  /\ \A h \in hap[r], d \in dpl[r] : Selects(items[r][h].spec, d)
  /\ ~LoopVarPerIteration => \A i \in 1..dhap[r] : ~IsBroken(items[r][i])
  /\ LoopVarPerIteration =>
       \A h \in hap[r], i \in 1..dhap[r] :
         /\ IsBroken(items[r][i]) => items[r][i].spec.weight < items[r][h].spec.weight
         /\ \A d \in dpl[r] : Selects(items[r][i].spec, d) =>
              items[r][i].spec.weight <= items[r][h].spec.weight

Grounds(r) ==
  /\ Answered(r, "allowed") \/ Answered(r, "notAcceptable") => dhap[r] = Len(items[r])
  /\ Answered(r, "allowed") =>
       \/ hap[r] = {}
       \/ \A d \in dpl[r] : \E judge \in Judge(r) :
            DeploymentErrors(d, judge) = {} /\ ~ValidationPanics(d, judge)
  /\ Answered(r, "notAcceptable") =>
       /\ hap[r] # {}
       /\ \A d \in dpl[r] : \E judge \in Judge(r) :
            DeploymentErrors(d, judge) # {} /\ ~ValidationPanics(d, judge)

CallInv(r) == Shape(r) /\ Fresh(r) /\ LoopInv(r) /\ Grounds(r)

IInv == (crdClient => serving) /\ \A r \in Requests : CallInv(r)

-----------------------------------------------------------------------------
(* Facts about lists and pointers.                                         *)

LEMMA SomeIsOpt ==
  ASSUME NEW S, NEW x \in S
  PROVE  {x} \in Opt(S) /\ {} \in Opt(S)
  BY DEF Opt

LEMMA OptSubset ==
  ASSUME NEW S, NEW o \in Opt(S)
  PROVE  o \subseteq S /\ \A x \in o : o = {x}
  BY DEF Opt

(* A store has finitely many policies: at most one for each key.           *)
LEMMA ListingFinite ==
  ASSUME NEW store \in Stores, NEW ns
  PROVE  /\ Listing(store, ns) \in SUBSET Policies
         /\ Cardinality(Listing(store, ns)) \in Nat
         /\ \A p, q \in Listing(store, ns) : p.key = q.key => p = q
<1> DEFINE L == Listing(store, ns)
           key == [p \in L |-> p.key]
<1>1. L \subseteq Policies
  BY DEF Listing
<1>2. key \in [L -> PolicyKeys]
  BY <1>1 DEF Policies
<1>3. ASSUME NEW p \in L, NEW q \in L, p.key = q.key
      PROVE  p = q
  <2>1. p.spec \in store[p.key] /\ q.spec \in store[p.key]
    BY <1>3 DEF Listing
  <2>2. store[p.key] \in Opt(PolicySpecs)
    BY <1>1 DEF Stores, Policies
  <2>3. p.spec = q.spec
    BY <2>1, <2>2, OptSubset
  <2> QED  BY <1>1, <1>3, <2>3 DEF Policies
<1>4. key \in Injection(L, PolicyKeys)
  BY <1>2, <1>3 DEF Injection, IsInjective
<1>5. IsFiniteSet(L)
  BY <1>4, FS_Injection, PolicyKeysAssumption
<1> QED
  BY <1>1, <1>3, <1>5, FS_CardinalityType

(* The ways List may order its result.                                     *)
LEMMA OrderIsSequence ==
  ASSUME NEW S \in SUBSET Policies, Cardinality(S) \in Nat,
         NEW order \in Surjection(1..Cardinality(S), S)
  PROVE  order \in Seq(Policies) /\ Range(order) = S /\ Len(order) \in Nat
<1>1. order \in [1..Cardinality(S) -> S] /\ \A p \in S : \E i \in 1..Cardinality(S) : order[i] = p
  BY DEF Surjection
<1>2. order \in Seq(S)
  BY <1>1, SeqDef
<1>3. order \in Seq(Policies)
  BY <1>2, SeqMonotonic
<1>4. Range(order) = S
  BY <1>1 DEF Range
<1> QED
  BY <1>3, <1>4, LenProperties

-----------------------------------------------------------------------------

(* The variables always hold values of the code's types.                   *)
THEOREM TypeCorrect == Spec => []TypeOK
<1>1. Init => TypeOK
  <2>1. \A S : {} \in Opt(S)
    BY DEF Opt
  <2>2. <<>> \in Seq(Policies)
    BY EmptySeq
  <2> SUFFICES ASSUME Init PROVE TypeOK
    OBVIOUS
  <2>3. pc \in [Requests -> Phases]
    BY DEF Init, Phases
  <2>4. /\ dpl \in [Requests -> Opt(Deployments)]
        /\ hap \in [Requests -> Opt(Nat)]
        /\ resp \in [Requests -> Opt(Responses)]
    BY <2>1 DEF Init
  <2>5. items \in [Requests -> Seq(Policies)]
    BY <2>2 DEF Init
  <2> QED  BY <2>3, <2>4, <2>5 DEF Init, TypeOK
<1>2. TypeOK /\ [Next]_vars => TypeOK'
  <2> SUFFICES ASSUME TypeOK, [Next]_vars
               PROVE  TypeOK'
    OBVIOUS
  <2> USE DEF TypeOK
  <2>0. \A S : {} \in Opt(S) /\ \A x \in S : {x} \in Opt(S)
    BY DEF Opt
  <2>a. \A r \in Requests, phase \in Phases : [pc EXCEPT ![r] = phase] \in [Requests -> Phases]
    OBVIOUS
  <2>b. \A r \in Requests, answer \in Responses : Answer(r, answer) =>
          pc' \in [Requests -> Phases] /\ resp' \in [Requests -> Opt(Responses)]
    BY <2>0 DEF Answer, Phases
  <2>c. /\ Phases = {"idle", "list", "select", "answered", "panicked", "lost"}
        /\ Responses = {"allowed", "badRequest", "internalError", "notAcceptable"}
    BY DEF Phases, Responses
  <2>1. CASE Start
    BY <2>1 DEF Start, callVars
  <2>2. CASE Initialize
    BY <2>2 DEF Initialize, callVars
  <2>3. CASE InitializeFails \/ Crash
    BY <2>3, <2>c DEF InitializeFails, Crash, ProcessExit
  <2>4. ASSUME NEW k \in PolicyKeys, DeletePolicy(k)
        PROVE  TypeOK'
    BY <2>0, <2>4 DEF DeletePolicy, callVars, Stores
  <2>5. ASSUME NEW k \in PolicyKeys, NEW s \in PolicySpecs, WritePolicy(k, s)
        PROVE  TypeOK'
    BY <2>0, <2>5 DEF WritePolicy, callVars, Stores
  <2>6. ASSUME NEW r \in Requests, RejectUndecodable(r)
        PROVE  TypeOK'
    BY <2>b, <2>c, <2>6 DEF RejectUndecodable
  <2>7. ASSUME NEW r \in Requests, NEW d \in Deployments, Validate(r, d)
        PROVE  TypeOK'
    <3>1. Listing(policies, d.namespace) \in SUBSET Policies
      BY DEF Listing
    <3> QED  BY <2>0, <2>a, <2>c, <2>7, <3>1 DEF Validate
  <2>8. ASSUME NEW r \in Requests, ListPolicies(r)
        PROVE  TypeOK'
    <3>1. PICK order \in Seq(Policies) : items' = [items EXCEPT ![r] = order]
      BY <2>8, ListingFinite, OrderIsSequence DEF ListPolicies
    <3> QED  BY <2>a, <2>c, <2>8, <3>1 DEF ListPolicies
  <2>9. ASSUME NEW r \in Requests, ListFails(r) \/ RejectSelector(r) \/ AllowUnselected(r)
        PROVE  TypeOK'
    BY <2>b, <2>c, <2>9 DEF ListFails, RejectSelector, AllowUnselected
  <2>10. ASSUME NEW r \in Requests, ListOnNilClient(r) \/ JudgePanics(r)
         PROVE  TypeOK'
    BY <2>a, <2>c, <2>10 DEF ListOnNilClient, JudgePanics
  <2>11. ASSUME NEW r \in Requests, SkipOutweighed(r)
         PROVE  TypeOK'
    BY <2>11 DEF SkipOutweighed, NextItem
  <2>12. ASSUME NEW r \in Requests, ConsiderPolicy(r)
         PROVE  TypeOK'
    <3>1. NextItem(r) \in Nat
      BY DEF NextItem
    <3>2. {NextItem(r)} \in Opt(Nat)
      BY <2>0, <3>1
    <3>3. PICK d \in dpl[r] :
            hap' = [hap EXCEPT ![r] = IF Selects(items[r][NextItem(r)].spec, d)
                                      THEN {NextItem(r)} ELSE @]
      BY <2>12 DEF ConsiderPolicy
    <3>4. hap' \in [Requests -> Opt(Nat)]
      BY <3>2, <3>3
    <3> QED  BY <2>12, <3>1, <3>4 DEF ConsiderPolicy
  <2>13. ASSUME NEW r \in Requests, JudgeDeployment(r)
         PROVE  TypeOK'
    <3>1. \A d, spec : Verdict(d, spec) \in Responses
      BY <2>c DEF Verdict
    <3> QED  BY <2>b, <2>13, <3>1 DEF JudgeDeployment
  <2>14. ASSUME NEW r \in Requests, Complete(r)
         PROVE  TypeOK'
    BY <2>0, <2>a, <2>c, <2>14, EmptySeq DEF Complete
  <2>15. CASE UNCHANGED vars
    BY <2>15 DEF vars, callVars
  <2> QED
    BY <2>1, <2>2, <2>3, <2>4, <2>5, <2>6, <2>7, <2>8, <2>9, <2>10, <2>11, <2>12, <2>13,
       <2>14, <2>15 DEF Next, Step
<1> QED  BY <1>1, <1>2, PTL DEF Spec

-----------------------------------------------------------------------------
(* The parts of CallInv, action by action.                                 *)

SameCall(r) ==
  /\ pc'[r] = pc[r] /\ dpl'[r] = dpl[r] /\ items'[r] = items[r]
  /\ dhap'[r] = dhap[r] /\ hap'[r] = hap[r] /\ resp'[r] = resp[r]

(* A step that leaves a call alone, and only removes what is no longer     *)
(* stored from its history, preserves its invariant.                       *)
LEMMA OtherCall ==
  ASSUME NEW r \in Requests, CallInv(r), SameCall(r),
         inForce'[r] \subseteq inForce[r],
         \A p \in inForce'[r] : p.spec \in policies'[p.key],
         Weighing(r) => serving' /\ crdClient'
  PROVE  CallInv(r)'
<1> USE DEF CallInv, SameCall, Weighing, Answered
<1>1. Shape(r)'
  BY DEF Shape
<1>2. Fresh(r)'
  BY DEF Fresh, InNamespace
<1>3. LoopInv(r)'
  BY DEF LoopInv, IsBroken
<1>4. Grounds(r)'
  <2>1. Judge(r)' = Judge(r)
    BY DEF Judge, Chosen, Pointee
  <2> QED  BY <2>1 DEF Grounds
<1> QED  BY <1>1, <1>2, <1>3, <1>4

(* Calls that are not weighing policies have little to keep.               *)
LEMMA NotWeighing ==
  ASSUME NEW r \in Requests, Shape(r)', Fresh(r)', LoopInv(r)',
         pc'[r] \in {"idle", "list", "select", "panicked", "lost"}
  PROVE  CallInv(r)'
  BY DEF CallInv, Grounds, Answered

LEMMA EmptyLoopInv ==
  ASSUME NEW r \in Requests, hap[r] = {}, dhap[r] = 0
  PROVE  LoopInv(r)
  BY DEF LoopInv

(* The exit of the process loses every call under way.                     *)
LEMMA ExitStep ==
  ASSUME TypeOK, NEW r \in Requests, CallInv(r), ProcessExit
  PROVE  CallInv(r)'
<1> USE DEF TypeOK, CallInv, ProcessExit, Answered
<1>1. pc'[r] \in {"idle", "lost"} /\ (pc'[r] = "idle" => pc[r] = "idle")
  OBVIOUS
<1>2. Shape(r)'
  BY <1>1 DEF Shape, Weighing
<1>3. Fresh(r)'
  BY <1>1 DEF Fresh, InNamespace, Weighing
<1>4. LoopInv(r)'
  BY DEF LoopInv, IsBroken
<1> QED  BY <1>1, <1>2, <1>3, <1>4, NotWeighing

LEMMA ReceiveStep ==
  ASSUME TypeOK, NEW r \in Requests, CallInv(r), NEW d \in Deployments, Validate(r, d)
  PROVE  CallInv(r)'
<1> USE DEF TypeOK, CallInv, Answered
<1>1. /\ pc'[r] = "list" /\ items'[r] = <<>> /\ dhap'[r] = 0 /\ hap'[r] = {} /\ resp'[r] = {}
      /\ dpl'[r] = {d} /\ inForce'[r] = Listing(policies, d.namespace) /\ policies' = policies
  BY DEF Validate, Shape
<1>2. Shape(r)'
  BY <1>1, EmptySeq DEF Shape, Weighing
<1>3. Fresh(r)'
  <2>1. Range(items'[r]) = {}
    BY <1>1 DEF Range
  <2>2. \A p \in Listing(policies, d.namespace) :
          p.spec \in policies[p.key] /\ InNamespace(d, p)
    BY DEF Listing, InNamespace
  <2>3. ~Weighing(r)'
    BY <1>1 DEF Weighing
  <2> QED  BY <1>1, <2>1, <2>2, <2>3 DEF Fresh, InNamespace
<1>4. LoopInv(r)'
  BY <1>1 DEF LoopInv
<1> QED  BY <1>1, <1>2, <1>3, <1>4, NotWeighing

(* List returns: the items are the policies stored now, which include the  *)
(* ones in force since the call came in.                                   *)
LEMMA ListStep ==
  ASSUME TypeOK, crdClient => serving, NEW r \in Requests, CallInv(r), ListPolicies(r)
  PROVE  CallInv(r)'
<1> USE DEF TypeOK, CallInv, Answered
<1>1. PICK d \in dpl[r] :
        \E order \in Surjection(1..Cardinality(Listing(policies, d.namespace)),
                                 Listing(policies, d.namespace)) :
          items' = [items EXCEPT ![r] = order]
  BY DEF ListPolicies
<1>2. /\ items'[r] \in Seq(Policies)
      /\ Range(items'[r]) = Listing(policies, d.namespace)
      /\ Len(items'[r]) \in Nat
  BY <1>1, ListingFinite, OrderIsSequence
<1>3. /\ pc'[r] = "select" /\ dhap'[r] = 0 /\ hap'[r] = {} /\ resp'[r] = {}
      /\ dpl'[r] = dpl[r] /\ inForce'[r] = inForce[r] /\ policies' = policies
      /\ serving' /\ crdClient'
  BY DEF ListPolicies, Shape
<1>4. dpl[r] = {d}
  BY OptSubset
<1>5. Shape(r)'
  BY <1>2, <1>3 DEF Shape, Weighing
<1>6. Fresh(r)'
  <2>1. inForce[r] \subseteq Listing(policies, d.namespace)
    BY DEF ListPolicies, Fresh, Listing, InNamespace
  <2>2. \A p \in Listing(policies, d.namespace) : InNamespace(d, p)
    BY DEF Listing, InNamespace
  <2>3. /\ \A p \in inForce'[r] : p.spec \in policies'[p.key]
        /\ inForce'[r] \subseteq Range(items'[r])
        /\ \A e \in dpl'[r], p \in Range(items'[r]) : InNamespace(e, p)
        /\ \A p, q \in Range(items'[r]) : p.key = q.key => p = q
    BY <1>2, <1>3, <1>4, <2>1, <2>2, ListingFinite DEF Fresh
  <2> QED  BY <1>3, <2>3 DEF Fresh, InNamespace
<1>7. LoopInv(r)'
  BY <1>3 DEF LoopInv
<1> QED  BY <1>3, <1>5, <1>6, <1>7, NotWeighing

(* An answer given before the list, or for a selector that cannot be read, *)
(* or a panic: nothing has been decided.                                   *)
LEMMA UndecidedStep ==
  ASSUME TypeOK, NEW r \in Requests, CallInv(r),
         \/ RejectUndecodable(r) \/ ListFails(r) \/ ListOnNilClient(r)
         \/ RejectSelector(r) \/ JudgePanics(r)
  PROVE  CallInv(r)'
<1> USE DEF TypeOK, CallInv
<1>1. /\ dpl'[r] = dpl[r] /\ items'[r] = items[r] /\ dhap'[r] = dhap[r] /\ hap'[r] = hap[r]
      /\ inForce'[r] = inForce[r] /\ policies' = policies
      /\ \/ pc'[r] = "answered" /\ resp'[r] \in {{"badRequest"}, {"internalError"}}
         \/ pc'[r] = "panicked"
  BY DEF RejectUndecodable, ListFails, ListOnNilClient, RejectSelector, JudgePanics, Answer
<1>2. ~Weighing(r)' /\ ~Answered(r, "allowed")' /\ ~Answered(r, "notAcceptable")'
  BY <1>1 DEF Weighing, Answered
<1>3. Shape(r)'
  BY <1>1, <1>2 DEF Shape
<1>4. Fresh(r)'
  BY <1>1, <1>2 DEF Fresh, InNamespace
<1>5. LoopInv(r)'
  BY <1>1 DEF LoopInv, IsBroken
<1>6. Grounds(r)'
  BY <1>2 DEF Grounds
<1> QED  BY <1>3, <1>4, <1>5, <1>6

-----------------------------------------------------------------------------
(* The loop.                                                               *)

(* One iteration over an item that is skipped or considered: the facts     *)
(* about the earlier items carry over, the new item is accounted for.      *)
LEMMA LoopStep ==
  ASSUME TypeOK, NEW r \in Requests, CallInv(r), SkipOutweighed(r) \/ ConsiderPolicy(r)
  PROVE  CallInv(r)'
<1> USE DEF TypeOK, CallInv
<1> DEFINE n == dhap[r] + 1
           it == items[r]
<1>1. /\ pc'[r] = "select" /\ dpl'[r] = dpl[r] /\ items'[r] = it /\ dhap'[r] = n
      /\ resp'[r] = resp[r] /\ inForce'[r] = inForce[r] /\ policies' = policies
      /\ serving' = serving /\ crdClient' = crdClient
      /\ pc[r] = "select" /\ dhap[r] < Len(it)
  BY DEF SkipOutweighed, ConsiderPolicy, NextItem, LoopRuns
<1>2. /\ dhap[r] \in Nat /\ n \in 1..Len(it) /\ Len(it) \in Nat
      /\ 1..n = 1..dhap[r] \cup {n}
  BY <1>1, LenProperties
<1>3. ASSUME NEW i \in 1..Len(it)
      PROVE  it[i].spec.weight \in Int
  <2>1. it[i] \in Policies
    BY ElementOfSeq
  <2>2. it[i].spec \in PolicySpec
    BY <2>1, PolicySpecsAssumption DEF Policies
  <2> QED  BY <2>2 DEF PolicySpec
<1>4. hap[r] \subseteq 1..dhap[r] /\ \A h \in hap[r] : hap[r] = {h}
  BY OptSubset DEF Shape
<1>5. \A d \in dpl[r] : dpl[r] = {d}
  BY OptSubset
<1>6. CASE SkipOutweighed(r)
  <2>1. hap'[r] = hap[r]
    BY <1>6 DEF SkipOutweighed
  <2>2. PICK h \in hap[r] : Pointee(it, h, n).weight > it[n].spec.weight
    BY <1>6 DEF SkipOutweighed, Outweighed, Chosen, NextItem
  <2>3. LoopVarPerIteration /\ it[h].spec.weight > it[n].spec.weight
    BY <1>2, <1>3, <2>2 DEF Pointee
  <2>4. Shape(r)'
    BY <1>1, <1>2, <1>4, <2>1 DEF Shape, Weighing, Answered
  <2>5. Fresh(r)'
    BY <1>1 DEF Fresh, InNamespace, Weighing, Answered
  <2>6. LoopInv(r)'
    <3>1. \A i \in 1..n :
            /\ IsBroken(it[i]) => it[i].spec.weight < it[h].spec.weight
            /\ \A d \in dpl[r] : Selects(it[i].spec, d) =>
                 it[i].spec.weight <= it[h].spec.weight
      <4>1. it[n].spec.weight < it[h].spec.weight
        BY <1>2, <1>3, <1>4, <2>3
      <4>2. it[n].spec.weight <= it[h].spec.weight
        BY <1>2, <1>3, <1>4, <4>1
      <4> QED  BY <1>2, <2>3, <4>1, <4>2 DEF LoopInv
    <3>2. hap[r] = {h}
      BY <1>4
    <3> QED  BY <1>1, <2>1, <2>3, <3>1, <3>2 DEF LoopInv, IsBroken
  <2> QED  BY <1>1, <2>4, <2>5, <2>6, NotWeighing
<1>7. CASE ConsiderPolicy(r)
  <2>1. ~IsBroken(it[n]) /\ ~Outweighed(r)
    BY <1>7 DEF ConsiderPolicy, NextItem, IsBroken
  <2>2. PICK d \in dpl[r] : hap'[r] = IF Selects(it[n].spec, d) THEN {n} ELSE hap[r]
    BY <1>7 DEF ConsiderPolicy, NextItem
  <2>3. dpl[r] = {d}
    BY <1>5
  <2>4. Shape(r)'
    BY <1>1, <1>2, <1>4, <2>2 DEF Shape, Weighing, Answered
  <2>5. Fresh(r)'
    BY <1>1 DEF Fresh, InNamespace, Weighing, Answered
  <2>6. CASE Selects(it[n].spec, d)
    <3>1. hap'[r] = {n}
      BY <2>2, <2>6
    <3>2. ASSUME LoopVarPerIteration, NEW h \in hap[r]
          PROVE  it[h].spec.weight <= it[n].spec.weight
      <4>1. ~(it[h].spec.weight > it[n].spec.weight)
        BY <2>1, <3>2 DEF Outweighed, Chosen, Pointee, NextItem
      <4> QED  BY <1>2, <1>3, <1>4, <4>1
    <3>3. ASSUME LoopVarPerIteration, NEW i \in 1..n
          PROVE  /\ IsBroken(it[i]) => it[i].spec.weight < it[n].spec.weight
                 /\ Selects(it[i].spec, d) => it[i].spec.weight <= it[n].spec.weight
      <4>1. CASE i = n
        BY <1>2, <1>3, <2>1, <4>1
      <4>2. CASE i # n
        <5>1. i \in 1..dhap[r] /\ it[i].spec.weight \in Int /\ it[n].spec.weight \in Int
          BY <1>2, <1>3, <4>2
        <5>2. CASE hap[r] = {}
          BY <2>3, <5>1, <5>2 DEF LoopInv
        <5>3. CASE hap[r] # {}
          <6>1. PICK h \in hap[r] : TRUE
            BY <5>3
          <6>2. it[h].spec.weight \in Int /\ it[h].spec.weight <= it[n].spec.weight
            BY <1>2, <1>3, <1>4, <3>2, <3>3
          <6>3. /\ IsBroken(it[i]) => it[i].spec.weight < it[h].spec.weight
                /\ Selects(it[i].spec, d) => it[i].spec.weight <= it[h].spec.weight
            BY <3>3, <5>1 DEF LoopInv
          <6> QED  BY <5>1, <6>2, <6>3
        <5> QED  BY <5>2, <5>3
      <4> QED  BY <4>1, <4>2
    <3>4. ~LoopVarPerIteration => \A i \in 1..n : ~IsBroken(it[i])
      BY <1>2, <2>1 DEF LoopInv
    <3>5. LoopInv(r)'
      BY <1>1, <2>3, <2>6, <3>1, <3>3, <3>4 DEF LoopInv, IsBroken
    <3> QED  BY <1>1, <2>4, <2>5, <3>5, NotWeighing
  <2>7. CASE ~Selects(it[n].spec, d)
    <3>1. hap'[r] = hap[r]
      BY <2>2, <2>7
    <3>2. LoopInv(r)'
      BY <1>1, <1>2, <2>1, <2>3, <2>7, <3>1 DEF LoopInv, IsBroken
    <3> QED  BY <1>1, <2>4, <2>5, <3>2, NotWeighing
  <2> QED  BY <2>6, <2>7
<1> QED  BY <1>6, <1>7

(* The call ends with an answer about the Deployment.                      *)
LEMMA AnswerStep ==
  ASSUME TypeOK, NEW r \in Requests, CallInv(r), AllowUnselected(r) \/ JudgeDeployment(r)
  PROVE  CallInv(r)'
<1> USE DEF TypeOK, CallInv
<1>1. /\ dpl'[r] = dpl[r] /\ items'[r] = items[r] /\ dhap'[r] = dhap[r] /\ hap'[r] = hap[r]
      /\ inForce'[r] = inForce[r] /\ policies' = policies
      /\ serving' = serving /\ crdClient' = crdClient
      /\ pc[r] = "select" /\ dhap[r] = Len(items[r]) /\ pc'[r] = "answered"
  BY DEF AllowUnselected, JudgeDeployment, Answer, LoopEnded
<1>2. Shape(r)'
  BY <1>1 DEF Shape, Weighing
<1>3. Fresh(r)'
  BY <1>1 DEF Fresh, InNamespace, Weighing
<1>4. LoopInv(r)'
  BY <1>1 DEF LoopInv, IsBroken
<1>5. Judge(r)' = Judge(r)
  BY <1>1 DEF Judge, Chosen, Pointee
<1>6. CASE AllowUnselected(r)
  <2>1. hap[r] = {} /\ resp'[r] = {"allowed"}
    BY <1>6 DEF AllowUnselected, Answer
  <2>2. Grounds(r)'
    BY <1>1, <2>1 DEF Grounds, Answered
  <2> QED  BY <1>2, <1>3, <1>4, <2>2
<1>7. CASE JudgeDeployment(r)
  <2>1. PICK d \in dpl[r], judge \in Judge(r) :
          ~ValidationPanics(d, judge) /\ resp'[r] = {Verdict(d, judge)}
    BY <1>7 DEF JudgeDeployment, Answer
  <2>2. dpl[r] = {d}
    BY OptSubset
  <2>3. hap[r] # {}
    BY <2>1 DEF Judge, Chosen
  <2>4. Grounds(r)'
    <3>1. CASE DeploymentErrors(d, judge) = {}
      <4>1. resp'[r] = {"allowed"}
        BY <2>1, <3>1 DEF Verdict
      <4> QED  BY <1>1, <1>5, <2>1, <2>2, <3>1, <4>1 DEF Grounds, Answered
    <3>2. CASE DeploymentErrors(d, judge) # {}
      <4>1. resp'[r] = {"notAcceptable"}
        BY <2>1, <3>2 DEF Verdict
      <4> QED  BY <1>1, <1>5, <2>1, <2>2, <2>3, <3>2, <4>1 DEF Grounds, Answered
    <3> QED  BY <3>1, <3>2
  <2> QED  BY <1>2, <1>3, <1>4, <2>4
<1> QED  BY <1>6, <1>7

LEMMA CompleteStep ==
  ASSUME TypeOK, NEW r \in Requests, Complete(r)
  PROVE  CallInv(r)'
<1> USE DEF TypeOK
<1>1. /\ pc'[r] = "idle" /\ dpl'[r] = {} /\ items'[r] = <<>> /\ dhap'[r] = 0
      /\ hap'[r] = {} /\ resp'[r] = {} /\ inForce'[r] = {}
  BY DEF Complete
<1>2. Range(items'[r]) = {}
  BY <1>1 DEF Range
<1>3. Shape(r)' /\ Fresh(r)' /\ LoopInv(r)'
  BY <1>1, <1>2, EmptySeq DEF Shape, Fresh, LoopInv, Weighing, Answered
<1> QED  BY <1>1, <1>3, NotWeighing

-----------------------------------------------------------------------------

LEMMA IInvInit == Init => IInv
<1> SUFFICES ASSUME Init
             PROVE  IInv
  OBVIOUS
<1>1. ASSUME NEW r \in Requests
      PROVE  CallInv(r)
  <2>1. /\ pc[r] = "idle" /\ dpl[r] = {} /\ items[r] = <<>> /\ dhap[r] = 0
        /\ hap[r] = {} /\ resp[r] = {} /\ inForce[r] = {}
    BY DEF Init
  <2>2. Range(items[r]) = {}
    BY <2>1 DEF Range
  <2> QED
    BY <2>1, <2>2, EmptySeq DEF CallInv, Shape, Fresh, LoopInv, Grounds, Weighing, Answered
<1> QED  BY <1>1 DEF Init, IInv

LEMMA IInvStep == TypeOK /\ IInv /\ [Next]_vars => IInv'
<1> SUFFICES ASSUME TypeOK, IInv, [Next]_vars
             PROVE  IInv'
  OBVIOUS
<1> USE DEF TypeOK, IInv
<1>0. \A r \in Requests : \A p \in inForce[r] : p.spec \in policies[p.key]
  BY DEF CallInv, Fresh
<1>1. CASE Start \/ Initialize
  <2>1. ASSUME NEW r \in Requests
        PROVE  CallInv(r)'
    BY <1>0, <1>1, OtherCall
       DEF Start, Initialize, callVars, SameCall, CallInv, Shape
  <2> QED  BY <1>1, <2>1 DEF Start, Initialize
<1>2. CASE InitializeFails \/ Crash
  BY <1>2, ExitStep DEF InitializeFails, Crash, ProcessExit
<1>3. ASSUME NEW k \in PolicyKeys, DeletePolicy(k)
      PROVE  IInv'
  <2>1. ASSUME NEW r \in Requests
        PROVE  CallInv(r)'
    <3>1. inForce'[r] = {p \in inForce[r] : p.key # k}
      BY <1>3 DEF DeletePolicy
    <3>2. inForce'[r] \subseteq inForce[r] /\ \A p \in inForce'[r] : p.spec \in policies'[p.key]
      BY <1>0, <1>3, <3>1 DEF DeletePolicy, Stores, Policies
    <3> QED
      BY <1>3, <3>2, OtherCall DEF DeletePolicy, callVars, SameCall, CallInv, Shape
  <2> QED  BY <1>3, <2>1 DEF DeletePolicy
<1>4. ASSUME NEW k \in PolicyKeys, NEW s \in PolicySpecs, WritePolicy(k, s)
      PROVE  IInv'
  <2>1. ASSUME NEW r \in Requests
        PROVE  CallInv(r)'
    <3>1. inForce'[r] = {p \in inForce[r] : p.spec \in policies'[p.key]}
      BY <1>4 DEF WritePolicy
    <3> QED
      BY <1>4, <3>1, OtherCall DEF WritePolicy, callVars, SameCall, CallInv, Shape
  <2> QED  BY <1>4, <2>1 DEF WritePolicy
<1>5. ASSUME NEW q \in Requests,
             RejectUndecodable(q) \/ Step(q) \/ Complete(q) \/ \E d \in Deployments : Validate(q, d)
      PROVE  IInv'
  <2>1. policies' = policies /\ serving' = serving /\ crdClient' = crdClient
    BY <1>5 DEF RejectUndecodable, Step, Complete, Validate, ListPolicies, ListFails,
                ListOnNilClient, SkipOutweighed, RejectSelector, ConsiderPolicy,
                AllowUnselected, JudgeDeployment, JudgePanics
  <2>2. CallInv(q)'
    BY <1>5, ReceiveStep, ListStep, UndecidedStep, LoopStep, AnswerStep, CompleteStep DEF Step
  <2>3. ASSUME NEW r \in Requests, r # q
        PROVE  CallInv(r)'
    <3>1. SameCall(r) /\ inForce'[r] = inForce[r]
      BY <1>5, <2>3 DEF SameCall, RejectUndecodable, Step, Complete, Validate, ListPolicies,
                ListFails, ListOnNilClient, SkipOutweighed, RejectSelector, ConsiderPolicy,
                AllowUnselected, JudgeDeployment, JudgePanics, Answer
    <3> QED
      BY <1>0, <2>1, <3>1, OtherCall DEF CallInv, Shape
  <2> QED  BY <2>1, <2>2, <2>3
<1>6. CASE UNCHANGED vars
  <2>1. ASSUME NEW r \in Requests
        PROVE  CallInv(r)'
    BY <1>0, <1>6, OtherCall DEF vars, callVars, SameCall, CallInv, Shape
  <2> QED  BY <1>6, <2>1 DEF vars
<1> QED
  BY <1>1, <1>2, <1>3, <1>4, <1>5, <1>6 DEF Next

-----------------------------------------------------------------------------
(* What the invariant says of an answer.                                   *)

(* The judge is one of the listed policies.                                *)
LEMMA JudgeIsListed ==
  ASSUME TypeOK, NEW r \in Requests, CallInv(r), NEW judge \in Judge(r)
  PROVE  /\ \E p \in Range(items[r]) : p.spec = judge
         /\ LoopVarPerIteration => \A h \in hap[r] : judge = items[r][h].spec
<1> USE DEF TypeOK, CallInv
<1>1. PICK h \in hap[r] : judge = Pointee(items[r], h, dhap[r])
  BY DEF Judge, Chosen
<1>2. h \in 1..dhap[r] /\ dhap[r] <= Len(items[r]) /\ hap[r] = {h}
  BY OptSubset DEF Shape
<1>3. h \in 1..Len(items[r]) /\ dhap[r] \in 1..Len(items[r]) /\ DOMAIN items[r] = 1..Len(items[r])
  BY <1>2, LenProperties
<1> QED  BY <1>1, <1>2, <1>3 DEF Pointee, Range

(* When a Deployment is allowed or turned away, the loop has visited every *)
(* listed policy, and the list holds every policy in force.                *)
LEMMA AllVisited ==
  ASSUME TypeOK, NEW r \in Requests, CallInv(r),
         Answered(r, "allowed") \/ Answered(r, "notAcceptable")
  PROVE  /\ \A p \in Range(items[r]) : \E i \in 1..dhap[r] : p = items[r][i]
         /\ \A i \in 1..dhap[r] : items[r][i] \in Range(items[r])
         /\ inForce[r] \subseteq Range(items[r])
<1>1. dhap[r] = Len(items[r]) /\ DOMAIN items[r] = 1..Len(items[r])
  BY LenProperties DEF TypeOK, CallInv, Grounds
<1>2. inForce[r] \subseteq Range(items[r])
  BY DEF CallInv, Fresh, Weighing
<1> QED  BY <1>1, <1>2 DEF Range

LEMMA Consequences ==
  ASSUME TypeOK, IInv
  PROVE  /\ NothingAllowedUninitialized
         /\ NeverAllowedUnjudged
         /\ DenialIsExplained
         /\ BrokenSelectorFailsClosed
<1>1. NothingAllowedUninitialized
  BY DEF IInv, CallInv, Shape, Weighing, NothingAllowedUninitialized
<1>2. NeverAllowedUnjudged
  <2> SUFFICES ASSUME NEW r \in Requests, NEW d \in dpl[r], Answered(r, "allowed"),
                      NEW p \in inForce[r], Selects(p.spec, d)
               PROVE  \E q \in Range(items[r]) :
                        /\ d.namespace \in {"", q.key.namespace}
                        /\ DeploymentErrors(d, q.spec) = {}
                        /\ ~ValidationPanics(d, q.spec)
    BY DEF NeverAllowedUnjudged
  <2> USE DEF IInv
  <2>1. hap[r] # {}
    BY AllVisited DEF CallInv, LoopInv
  <2>2. PICK judge \in Judge(r) : DeploymentErrors(d, judge) = {} /\ ~ValidationPanics(d, judge)
    BY <2>1 DEF CallInv, Grounds
  <2>3. PICK q \in Range(items[r]) : q.spec = judge
    BY JudgeIsListed
  <2>4. InNamespace(d, q)
    BY <2>3 DEF CallInv, Fresh
  <2>5. d.namespace \in {"", q.key.namespace}
    BY <2>4 DEF InNamespace
  <2> QED  BY <2>2, <2>3, <2>5
<1>3. DenialIsExplained
  <2> SUFFICES ASSUME NEW r \in Requests, NEW d \in dpl[r], Answered(r, "notAcceptable")
               PROVE  /\ \E p \in Range(items[r]) : Selects(p.spec, d)
                      /\ \E p \in Range(items[r]) :
                           /\ d.namespace \in {"", p.key.namespace}
                           /\ DeploymentErrors(d, p.spec) # {}
    BY DEF DenialIsExplained
  <2> USE DEF IInv
  <2>1. PICK h \in hap[r] : h \in 1..dhap[r] /\ Selects(items[r][h].spec, d)
    BY DEF CallInv, Grounds, LoopInv, Shape
  <2>2. PICK judge \in Judge(r) : DeploymentErrors(d, judge) # {}
    BY DEF CallInv, Grounds
  <2>3. PICK q \in Range(items[r]) : q.spec = judge
    BY JudgeIsListed
  <2>4. InNamespace(d, q)
    BY <2>3 DEF CallInv, Fresh
  <2>5. d.namespace \in {"", q.key.namespace}
    BY <2>4 DEF InNamespace
  <2> QED  BY <2>1, <2>2, <2>3, <2>5, AllVisited
<1>4. BrokenSelectorFailsClosed
  <2> SUFFICES ASSUME NEW r \in Requests,
                      Answered(r, "allowed") \/ Answered(r, "notAcceptable"),
                      NEW p \in inForce[r], IsBroken(p)
               PROVE  \E judge \in Judge(r) : p.spec.weight < judge.weight
    BY DEF BrokenSelectorFailsClosed, IsBroken
  <2> USE DEF IInv
  <2>1. PICK i \in 1..dhap[r] : p = items[r][i]
    BY AllVisited
  <2>2. LoopVarPerIteration /\ hap[r] # {}
    BY <2>1 DEF CallInv, LoopInv
  <2>3. PICK h \in hap[r] : TRUE
    BY <2>2
  <2>4. p.spec.weight < items[r][h].spec.weight
    BY <2>1, <2>2, <2>3 DEF CallInv, LoopInv
  <2>5. items[r][h].spec \in Judge(r)
    BY <2>2, <2>3 DEF Judge, Chosen, Pointee
  <2> QED  BY <2>4, <2>5
<1> QED  BY <1>1, <1>2, <1>3, <1>4

THEOREM Invariance == Spec => [](TypeOK /\ IInv)
  BY IInvInit, IInvStep, TypeCorrect, PTL DEF Spec

(* A process that has not set its client, or is a new one, allows nothing. *)
THEOREM UninitializedAllowsNothing == Spec => []NothingAllowedUninitialized
  BY Invariance, Consequences, PTL

(* A Deployment that a policy selected throughout the call is allowed only *)
(* over a policy it satisfies.                                             *)
THEOREM AllowedAreJudged == Spec => []NeverAllowedUnjudged
  BY Invariance, Consequences, PTL

(* A denial rests on errors against a listed policy of the namespace, and  *)
(* on a listed policy that selects the Deployment.                         *)
THEOREM DenialsAreExplained == Spec => []DenialIsExplained
  BY Invariance, Consequences, PTL

(* A policy with an unreadable selector stops every verdict that it might  *)
(* have overruled.                                                         *)
THEOREM BrokenSelectorsFailClosed == Spec => []BrokenSelectorFailsClosed
  BY Invariance, Consequences, PTL

LEMMA ListedArePolicies ==
  ASSUME TypeOK, NEW r \in Requests
  PROVE  Range(items[r]) \subseteq Policies
  BY LenProperties, ElementOfSeq DEF Range, TypeOK

(* Where no namespace has two policies, the judge is all that was listed.  *)
LEMMA LoneListing ==
  ASSUME TypeOK, IInv, LonePolicies, NEW r \in Requests, NEW d \in dpl[r],
         NEW judge \in Judge(r), NEW p \in Range(items[r])
  PROVE  p.spec = judge
<1> USE DEF TypeOK, IInv, CallInv
<1>1. \A q \in Range(items[r]) : q.key.namespace = d.namespace
  <2>1. d \in Deployments
    BY OptSubset
  <2>2. \A q \in Range(items[r]) : InNamespace(d, q)
    BY DEF Fresh
  <2>3. d.namespace # ""
    BY <2>1 DEF LonePolicies
  <2> QED  BY <2>2, <2>3 DEF InNamespace
<1>2. \A q \in Range(items[r]) : q = p
  <2>1. \A q \in Range(items[r]) : q.key = p.key
    BY <1>1, ListedArePolicies DEF LonePolicies, Policies
  <2> QED  BY <2>1 DEF Fresh
<1>3. PICK q \in Range(items[r]) : q.spec = judge
  BY JudgeIsListed
<1> QED  BY <1>2, <1>3

(* types.go:13-15, with a loop variable for each iteration or where no     *)
(* namespace has two policies: the judge is the heaviest of the policies   *)
(* that select the Deployment, and is one of them.                         *)
THEOREM DocumentedChoice ==
  ASSUME LoopVarPerIteration \/ LonePolicies
  PROVE  Spec => [](HighestWeightWins /\ JudgeSelectsDeployment)
<1>1. TypeOK /\ IInv => HighestWeightWins /\ JudgeSelectsDeployment
  <2> SUFFICES ASSUME TypeOK, IInv, NEW r \in Requests, NEW d \in dpl[r], Judged(r),
                      NEW judge \in Judge(r)
               PROVE  /\ \A p \in Range(items[r]) :
                           Selects(p.spec, d) => p.spec.weight <= judge.weight
                      /\ Selects(judge, d)
    BY DEF HighestWeightWins, JudgeSelectsDeployment
  <2> USE DEF IInv
  <2>1. PICK h \in hap[r] : judge = items[r][h].spec
    <3>1. PICK h \in hap[r] : items[r][h] \in Range(items[r])
      BY AllVisited DEF Judged, CallInv, Shape
    <3> QED  BY <3>1, JudgeIsListed, LoneListing
  <2>2. Selects(judge, d)
    BY <2>1 DEF CallInv, LoopInv
  <2>3. CASE LoopVarPerIteration
    BY <2>1, <2>2, <2>3, AllVisited DEF CallInv, LoopInv, Judged
  <2>4. CASE LonePolicies
    <3>1. \A p \in Range(items[r]) : p.spec = judge
      BY <2>4, LoneListing
    <3>2. PICK p \in Range(items[r]) : p.spec = judge
      BY JudgeIsListed DEF CallInv
    <3>3. judge.weight \in Int
      BY <3>2, ListedArePolicies, PolicySpecsAssumption DEF Policies, PolicySpec
    <3> QED  BY <2>2, <3>1, <3>3
  <2> QED  BY <2>3, <2>4
<1> QED  BY <1>1, Invariance, PTL

-----------------------------------------------------------------------------
(* What decides when namespaces have many policies, in both builds.        *)

Decided(r) == Answered(r, "allowed") \/ Answered(r, "notAcceptable")

LastListed(r) == items[r][Len(items[r])].spec

(* The judge of a decided call gives its answer; without one, no listed    *)
(* policy selects the Deployment.                                          *)
LEMMA AnswerIsVerdict ==
  ASSUME TypeOK, NEW r \in Requests, CallInv(r), Decided(r), NEW d \in dpl[r]
  PROVE  \/ hap[r] = {} /\ resp[r] = {"allowed"} /\ \A p \in Range(items[r]) : ~Selects(p.spec, d)
         \/ \E h \in hap[r] :
              /\ h \in 1..Len(items[r]) /\ dhap[r] = Len(items[r]) /\ items[r][h] \in Range(items[r])
              /\ Selects(items[r][h].spec, d)
              /\ ~ValidationPanics(d, Pointee(items[r], h, dhap[r]))
              /\ resp[r] = {Verdict(d, Pointee(items[r], h, dhap[r]))}
<1> USE DEF TypeOK, CallInv
<1>1. /\ dhap[r] = Len(items[r])
      /\ \A p \in Range(items[r]) : \E i \in 1..dhap[r] : p = items[r][i]
      /\ \A i \in 1..dhap[r] : items[r][i] \in Range(items[r])
  BY AllVisited DEF Decided, Grounds
<1>2. \A answer \in resp[r] : resp[r] = {answer}
  BY OptSubset
<1>3. CASE hap[r] = {}
  <2>1. resp[r] = {"allowed"}
    BY <1>2, <1>3 DEF Decided, Grounds, Answered
  <2> QED  BY <1>1, <1>3, <2>1 DEF LoopInv
<1>4. CASE hap[r] # {}
  <2>1. PICK h \in hap[r] : hap[r] = {h}
    BY <1>4, OptSubset
  <2>2. h \in 1..dhap[r] /\ Selects(items[r][h].spec, d)
    BY DEF Shape, LoopInv
  <2>3. \A judge \in Judge(r) : judge = Pointee(items[r], h, dhap[r])
    BY <2>1 DEF Judge, Chosen
  <2>4. CASE Answered(r, "allowed")
    <3>1. resp[r] = {"allowed"}
      BY <1>2, <2>4 DEF Answered
    <3>2. /\ DeploymentErrors(d, Pointee(items[r], h, dhap[r])) = {}
          /\ ~ValidationPanics(d, Pointee(items[r], h, dhap[r]))
      BY <1>4, <2>3, <2>4 DEF Grounds
    <3> QED  BY <1>1, <2>2, <3>1, <3>2 DEF Verdict
  <2>5. CASE Answered(r, "notAcceptable")
    <3>1. resp[r] = {"notAcceptable"}
      BY <1>2, <2>5 DEF Answered
    <3>2. /\ DeploymentErrors(d, Pointee(items[r], h, dhap[r])) # {}
          /\ ~ValidationPanics(d, Pointee(items[r], h, dhap[r]))
      BY <2>3, <2>5 DEF Grounds
    <3> QED  BY <1>1, <2>2, <3>1, <3>2 DEF Verdict
  <2> QED  BY <2>4, <2>5 DEF Decided
<1> QED  BY <1>3, <1>4

(* The shipped build, exactly: a Deployment that some listed policy        *)
(* selects is judged by the policy that List returned last, whatever it    *)
(* weighs and whether it selects the Deployment; no listed policy had a    *)
(* selector that cannot be read; every other Deployment is allowed.        *)
LastListedDecides ==
  \A r \in Requests : \A d \in dpl[r] :
    Decided(r) =>
      /\ \A p \in Range(items[r]) : ~InvalidSelector(p.spec.selector)
      /\ (\E p \in Range(items[r]) : Selects(p.spec, d)) =>
           ~ValidationPanics(d, LastListed(r)) /\ resp[r] = {Verdict(d, LastListed(r))}
      /\ (\A p \in Range(items[r]) : ~Selects(p.spec, d)) => resp[r] = {"allowed"}

(* So decides the shipped build, for any policies in any order.            *)
THEOREM ShippedChoice ==
  ASSUME ~LoopVarPerIteration
  PROVE  Spec => []LastListedDecides
<1>1. TypeOK /\ IInv => LastListedDecides
  <2> SUFFICES ASSUME TypeOK, IInv, NEW r \in Requests, NEW d \in dpl[r], Decided(r)
               PROVE  /\ \A p \in Range(items[r]) : ~InvalidSelector(p.spec.selector)
                      /\ (\E p \in Range(items[r]) : Selects(p.spec, d)) =>
                           ~ValidationPanics(d, LastListed(r)) /\ resp[r] = {Verdict(d, LastListed(r))}
                      /\ (\A p \in Range(items[r]) : ~Selects(p.spec, d)) => resp[r] = {"allowed"}
    BY DEF LastListedDecides
  <2>1. CallInv(r)
    BY DEF IInv
  <2>2. \A p \in Range(items[r]) : ~InvalidSelector(p.spec.selector)
    BY <2>1, AllVisited DEF Decided, CallInv, LoopInv, IsBroken
  <2>3. CASE hap[r] = {} /\ resp[r] = {"allowed"} /\ \A p \in Range(items[r]) : ~Selects(p.spec, d)
    BY <2>2, <2>3
  <2>4. CASE \E h \in hap[r] :
              /\ h \in 1..Len(items[r]) /\ dhap[r] = Len(items[r]) /\ items[r][h] \in Range(items[r])
              /\ Selects(items[r][h].spec, d)
              /\ ~ValidationPanics(d, Pointee(items[r], h, dhap[r]))
              /\ resp[r] = {Verdict(d, Pointee(items[r], h, dhap[r]))}
    BY <2>2, <2>4 DEF Pointee, LastListed
  <2> QED  BY <2>1, <2>3, <2>4, AnswerIsVerdict
<1> QED  BY <1>1, Invariance, PTL

(* No two policies that select the Deployment weigh the same.              *)
NoTies(S, d) ==
  \A p, q \in S : Selects(p.spec, d) /\ Selects(q.spec, d) /\ p.spec.weight = q.spec.weight => p = q

(* The order in which List returns the policies does not matter: two calls *)
(* about the same Deployment that have found the same policies, of which   *)
(* no two that select it weigh the same, do not decide differently.        *)
OrderDoesNotMatter ==
  \A r, q \in Requests : \A d \in dpl[r] \cap dpl[q] :
    Decided(r) /\ Decided(q) /\ Range(items[r]) = Range(items[q]) /\ NoTies(Range(items[r]), d)
      => resp[r] = resp[q]

(* So it is with a loop variable for each iteration; the shipped build     *)
(* decides by the order, as ShippedChoice says.                            *)
THEOREM ChoiceIsDeterminate ==
  ASSUME LoopVarPerIteration
  PROVE  Spec => []OrderDoesNotMatter
<1>1. TypeOK /\ IInv => OrderDoesNotMatter
  <2> SUFFICES ASSUME TypeOK, IInv, NEW r \in Requests, NEW q \in Requests, NEW d \in dpl[r], d \in dpl[q],
                      Decided(r), Decided(q), Range(items[r]) = Range(items[q]), NoTies(Range(items[r]), d)
               PROVE  resp[r] = resp[q]
    BY DEF OrderDoesNotMatter
  <2>1. CallInv(r) /\ CallInv(q)
    BY DEF IInv
  <2> DEFINE Heaviest(s) ==
        \E p \in Range(items[s]) :
          /\ Selects(p.spec, d) /\ resp[s] = {Verdict(d, p.spec)} /\ p.spec.weight \in Int
          /\ \A o \in Range(items[s]) : Selects(o.spec, d) => o.spec.weight <= p.spec.weight
  <2>2. ASSUME NEW s \in {r, q}
        PROVE  \/ resp[s] = {"allowed"} /\ \A p \in Range(items[s]) : ~Selects(p.spec, d)
               \/ Heaviest(s)
    <3>1. s \in Requests /\ CallInv(s) /\ Decided(s) /\ d \in dpl[s]
      BY <2>1
    <3>2. ASSUME NEW h \in hap[s], h \in 1..Len(items[s]), dhap[s] = Len(items[s]), items[s][h] \in Range(items[s]),
                 Selects(items[s][h].spec, d), resp[s] = {Verdict(d, Pointee(items[s], h, dhap[s]))}
          PROVE  Heaviest(s)
      <4>1. resp[s] = {Verdict(d, items[s][h].spec)}
        BY <3>2 DEF Pointee
      <4>2. items[s][h].spec.weight \in Int
        <5>1. items[s] \in Seq(Policies)
          BY <3>1 DEF TypeOK
        <5>2. items[s][h] \in Policies
          BY <3>2, <5>1, ElementOfSeq
        <5> QED  BY <5>2, PolicySpecsAssumption DEF Policies, PolicySpec
      <4>3. ASSUME NEW o \in Range(items[s]), Selects(o.spec, d)
            PROVE  o.spec.weight <= items[s][h].spec.weight
        <5>1. PICK i \in 1..dhap[s] : o = items[s][i]
          BY <3>1, AllVisited DEF Decided
        <5> QED  BY <3>1, <4>3, <5>1 DEF CallInv, LoopInv
      <4> QED  BY <3>2, <4>1, <4>2, <4>3
    <3> HIDE DEF Heaviest
    <3> QED  BY <3>1, <3>2, AnswerIsVerdict
  <2>3. CASE Heaviest(r) /\ Heaviest(q)
    <3>1. PICK p \in Range(items[r]) :
            /\ Selects(p.spec, d) /\ resp[r] = {Verdict(d, p.spec)} /\ p.spec.weight \in Int
            /\ \A o \in Range(items[r]) : Selects(o.spec, d) => o.spec.weight <= p.spec.weight
      BY <2>3
    <3>2. PICK o \in Range(items[r]) :
            /\ Selects(o.spec, d) /\ resp[q] = {Verdict(d, o.spec)} /\ o.spec.weight \in Int
            /\ \A x \in Range(items[r]) : Selects(x.spec, d) => x.spec.weight <= o.spec.weight
      BY <2>3
    <3>3. p.spec.weight = o.spec.weight
      <4>1. p.spec.weight <= o.spec.weight /\ o.spec.weight <= p.spec.weight
        BY <3>1, <3>2
      <4> QED  BY <3>1, <3>2, <4>1
    <3> QED  BY <3>1, <3>2, <3>3 DEF NoTies
  <2>4. CASE ~(Heaviest(r) /\ Heaviest(q))
    <3>1. resp[r] = {"allowed"} /\ \A p \in Range(items[r]) : ~Selects(p.spec, d)
      BY <2>2, <2>4
    <3>2. ~Heaviest(q)
      BY <3>1
    <3> QED  BY <2>2, <3>1, <3>2
  <2> QED  BY <2>3, <2>4
<1> QED  BY <1>1, Invariance, PTL

-----------------------------------------------------------------------------
(* What makes a call panic.                                                *)

(* A step from a state with the invariant that makes a call panic.         *)
LEMMA PanicStep ==
  ASSUME TypeOK, IInv, [Next]_vars, NEW r \in Requests, pc[r] # "panicked", pc'[r] = "panicked"
  PROVE  ~crdClient \/ \E d \in dpl[r], p \in Range(items[r]) : ValidationPanics(d, p.spec)
<1> USE DEF TypeOK
<1>1. ~UNCHANGED pc
  OBVIOUS
<1>2. PICK q \in Requests :
        RejectUndecodable(q) \/ Step(q) \/ Complete(q) \/ \E d \in Deployments : Validate(q, d)
  BY <1>1 DEF Next, vars, callVars, Start, Initialize, InitializeFails, Crash, ProcessExit, DeletePolicy, WritePolicy
<1>3. ListOnNilClient(q) \/ JudgePanics(q)
  BY <1>2 DEF RejectUndecodable, Step, Complete, Validate, ListPolicies, ListFails, SkipOutweighed, RejectSelector,
              ConsiderPolicy, AllowUnselected, JudgeDeployment, Answer
<1>4. q = r
  BY <1>3 DEF ListOnNilClient, JudgePanics
<1>5. CASE ListOnNilClient(r)
  BY <1>5 DEF ListOnNilClient
<1>6. CASE JudgePanics(r)
  <2>1. PICK d \in dpl[r], judge \in Judge(r) : ValidationPanics(d, judge)
    BY <1>6 DEF JudgePanics
  <2>2. \E p \in Range(items[r]) : p.spec = judge
    BY JudgeIsListed DEF IInv
  <2> QED  BY <2>1, <2>2
<1> QED  BY <1>3, <1>4, <1>5, <1>6

(* A call panics only when it overtakes Initialize or when a listed policy *)
(* and the Deployment make ValidateDeployment dereference nil: neither the *)
(* loop nor any interleaving of calls, users and exits does.               *)
THEOREM PanicsAreExplained ==
  Spec => [][\A r \in Requests :
               pc[r] # "panicked" /\ pc'[r] = "panicked" =>
                 ~crdClient \/ \E d \in dpl[r], p \in Range(items[r]) : ValidationPanics(d, p.spec)]_vars
<1>1. TypeOK /\ IInv /\ [Next]_vars =>
        [\A r \in Requests :
           pc[r] # "panicked" /\ pc'[r] = "panicked" =>
             ~crdClient \/ \E d \in dpl[r], p \in Range(items[r]) : ValidationPanics(d, p.spec)]_vars
  BY PanicStep
<1> QED  BY <1>1, Invariance, PTL DEF Spec

(* The optional blocks that ValidateDeployment takes for given: the API    *)
(* server fills in those of a Deployment, users may leave out a policy's.  *)
BlocksPresent ==
  /\ \A spec \in PolicySpecs : \A s \in spec.strategy : s.type = RollingUpdateType => s.rollingUpdate # {}
  /\ \A d \in Deployments : \A ru \in d.strategy.rollingUpdate : ru.maxSurge # {} /\ ru.maxUnavailable # {}

LEMMA PresentBlocksDoNotPanic ==
  ASSUME BlocksPresent, NEW d \in Deployments, NEW spec \in PolicySpecs
  PROVE  ~ValidationPanics(d, spec)
<1> SUFFICES ASSUME BoundsRead(d, spec)
             PROVE  ~SurgePanics(d, spec) /\ ~UnavailablePanics(d, spec)
  BY DEF ValidationPanics
<1>1. PICK s \in spec.strategy : s.type = RollingUpdateType
  BY DEF BoundsRead, RollingUpdateCompared
<1>2. s.rollingUpdate # {}
  BY <1>1 DEF BlocksPresent
<1>3. PolicyRollingUpdates(spec) # {}
  BY <1>2 DEF PolicyRollingUpdates
<1>4. \A ru \in d.strategy.rollingUpdate : ru.maxSurge # {} /\ ru.maxUnavailable # {}
  BY DEF BlocksPresent
<1> QED  BY <1>3, <1>4 DEF SurgePanics, UnavailablePanics

(* Where every policy with a rolling update has its block, a process that  *)
(* has been initialized does not panic.                                    *)
THEOREM InitializedDoesNotPanic ==
  ASSUME BlocksPresent
  PROVE  Spec => [][\A r \in Requests : pc[r] # "panicked" /\ pc'[r] = "panicked" => ~crdClient]_vars
<1>1. ASSUME TypeOK, IInv, [Next]_vars, NEW r \in Requests, pc[r] # "panicked", pc'[r] = "panicked"
      PROVE  ~crdClient
  <2>1. ASSUME NEW d \in dpl[r], NEW p \in Range(items[r])
        PROVE  ~ValidationPanics(d, p.spec)
    <3>1. d \in Deployments
      BY <1>1, OptSubset DEF TypeOK
    <3>2. items[r] \in Seq(Policies)
      BY <1>1 DEF TypeOK
    <3>3. PICK i \in DOMAIN items[r] : p = items[r][i]
      BY DEF Range
    <3>4. p \in Policies
      BY <3>2, <3>3, LenProperties, ElementOfSeq
    <3> QED  BY <3>1, <3>4, PresentBlocksDoNotPanic DEF Policies
  <2> QED  BY <1>1, <2>1, PanicStep
<1>2. TypeOK /\ IInv /\ [Next]_vars =>
        [\A r \in Requests : pc[r] # "panicked" /\ pc'[r] = "panicked" => ~crdClient]_vars
  BY <1>1
<1> QED  BY <1>2, Invariance, PTL DEF Spec

-----------------------------------------------------------------------------
(* Calls come to an end: the safety part of EveryCallEnds.                 *)

(* A call in the loop has an item for its next iteration, or has had all   *)
(* of them and allows or judges the Deployment it still has: the guards of *)
(* some step of the call are true.                                         *)
LoopGoesOn ==
  \A r \in Requests :
    pc[r] = "select" =>
      dpl[r] # {} /\ (LoopRuns(r) \/ (LoopEnded(r) /\ (hap[r] = {} \/ Judge(r) # {})))

(* A call is left alone, gets its list and begins the loop, has one item   *)
(* more of the same list behind it, or is over.                            *)
Progress(r) ==
  \/ pc'[r] = pc[r] /\ dhap'[r] = dhap[r] /\ items'[r] = items[r]
  \/ pc[r] = "list" /\ pc'[r] = "select" /\ dhap'[r] = 0
  \/ /\ pc[r] = "select" /\ pc'[r] = "select"
     /\ items'[r] = items[r]
     /\ dhap'[r] = dhap[r] + 1 /\ dhap[r] + 1 <= Len(items[r])
  \/ pc'[r] \in {"answered", "panicked", "lost"}

(* No call is left in the loop without a step to take, whatever the list   *)
(* and its policies are and however it has come to them.                   *)
THEOREM LoopIsNotStuck == Spec => []LoopGoesOn
<1>1. ASSUME TypeOK, IInv, NEW r \in Requests, pc[r] = "select"
      PROVE  dpl[r] # {} /\ (LoopRuns(r) \/ (LoopEnded(r) /\ (hap[r] = {} \/ Judge(r) # {})))
  <2>1. dpl[r] # {}
    BY <1>1 DEF IInv, CallInv, Shape
  <2>2. dhap[r] \in Nat /\ Len(items[r]) \in Nat /\ dhap[r] <= Len(items[r])
    BY <1>1, LenProperties DEF IInv, CallInv, Shape, TypeOK
  <2>3. \A h \in hap[r] : Pointee(items[r], h, dhap[r]) \in Judge(r)
    BY DEF Judge, Chosen
  <2>4. LoopRuns(r) \/ LoopEnded(r)
    BY <1>1, <2>2 DEF LoopRuns, LoopEnded
  <2> QED  BY <2>1, <2>3, <2>4
<1>2. TypeOK /\ IInv => LoopGoesOn
  BY <1>1 DEF LoopGoesOn
<1> QED  BY <1>2, Invariance, PTL

LEMMA ProgressStep ==
  ASSUME TypeOK, IInv, [Next]_vars, NEW r \in Requests, pc[r] \in {"list", "select"}
  PROVE  Progress(r)
<1> USE DEF TypeOK
<1>1. CASE UNCHANGED <<pc, dhap, items>>
  BY <1>1 DEF Progress
<1>2. CASE InitializeFails \/ Crash
  BY <1>2 DEF InitializeFails, Crash, ProcessExit, Progress
<1>3. ASSUME NEW q \in Requests,
             \/ RejectUndecodable(q) \/ ListFails(q) \/ ListOnNilClient(q) \/ RejectSelector(q)
             \/ AllowUnselected(q) \/ JudgeDeployment(q) \/ JudgePanics(q)
      PROVE  Progress(r)
  <2>1. /\ dhap' = dhap /\ items' = items
        /\ pc' = [pc EXCEPT ![q] = "answered"] \/ pc' = [pc EXCEPT ![q] = "panicked"]
    BY <1>3 DEF RejectUndecodable, ListFails, ListOnNilClient, RejectSelector, AllowUnselected,
                JudgeDeployment, JudgePanics, Answer
  <2> QED  BY <2>1 DEF Progress
<1>4. ASSUME NEW q \in Requests, (\E d \in Deployments : Validate(q, d)) \/ Complete(q)
      PROVE  Progress(r)
  <2>1. q # r
    BY <1>4 DEF Validate, Complete
  <2>2. pc'[r] = pc[r]
    BY <1>4, <2>1 DEF Validate, Complete
  <2>3. dhap'[r] = dhap[r] /\ items'[r] = items[r]
    BY <1>4, <2>1 DEF Validate, Complete
  <2> QED  BY <2>2, <2>3 DEF Progress
<1>5. ASSUME NEW q \in Requests, ListPolicies(q)
      PROVE  Progress(r)
  <2>1. PICK order : items' = [items EXCEPT ![q] = order]
    BY <1>5 DEF ListPolicies
  <2>2. pc' = [pc EXCEPT ![q] = "select"] /\ dhap' = dhap /\ pc[q] = "list"
    BY <1>5 DEF ListPolicies
  <2>3. CASE q = r
    <3>1. dhap[r] = 0
      BY <2>2, <2>3 DEF IInv, CallInv, Shape
    <3> QED  BY <2>2, <2>3, <3>1 DEF Progress
  <2>4. CASE q # r
    BY <2>1, <2>2, <2>4 DEF Progress
  <2> QED  BY <2>3, <2>4
<1>6. ASSUME NEW q \in Requests, SkipOutweighed(q) \/ ConsiderPolicy(q)
      PROVE  Progress(r)
  <2>1. /\ dhap' = [dhap EXCEPT ![q] = dhap[q] + 1] /\ pc' = pc /\ items' = items
        /\ pc[q] = "select" /\ dhap[q] < Len(items[q])
    BY <1>6 DEF SkipOutweighed, ConsiderPolicy, LoopRuns, NextItem
  <2>2. dhap[q] \in Nat /\ Len(items[q]) \in Nat
    BY LenProperties
  <2>3. dhap[q] + 1 <= Len(items[q])
    BY <2>1, <2>2
  <2> QED  BY <2>1, <2>3 DEF Progress
<1> QED
  BY <1>1, <1>2, <1>3, <1>4, <1>5, <1>6
     DEF Next, Step, vars, callVars, Start, Initialize, DeletePolicy, WritePolicy

(* With LoopIsNotStuck, why every call ends: from its list on it has one   *)
(* step for each item left and one more, and no user, no other call and no *)
(* restart gives it others.                                                *)
THEOREM CallsProgress ==
  Spec => [][\A r \in Requests : pc[r] \in {"list", "select"} => Progress(r)]_vars
<1>1. TypeOK /\ IInv /\ [Next]_vars =>
        [\A r \in Requests : pc[r] \in {"list", "select"} => Progress(r)]_vars
  BY ProgressStep
<1> QED  BY <1>1, Invariance, PTL DEF Spec

-----------------------------------------------------------------------------
(* The hook implements AdmissionContract when every iteration of its loop  *)
(* has a variable of its own, or when no call ever lists two policies:     *)
(* each of its steps is a step of the contract, or changes nothing the     *)
(* contract speaks of.                                                     *)

Snapshot == [r \in Requests |-> Range(items[r])]

contractState == <<policies, ContractStatus, dpl, Snapshot, resp>>

-----------------------------------------------------------------------------
(* Both modules extend PolicyStore, so the contract has its own copy of    *)
(* every operator.  The copies are equal.                                  *)

LEMMA SameSelection ==
  /\ \A sel : Contract!InvalidSelector(sel) <=> InvalidSelector(sel)
  /\ \A spec, d : Contract!Selects(spec, d) <=> Selects(spec, d)
  /\ \A store, ns : Contract!Listing(store, ns) = Listing(store, ns)
  /\ Contract!Stores = Stores
<1>1. \A sel : Contract!InvalidSelector(sel) <=> InvalidSelector(sel)
  BY DEF Contract!InvalidSelector, InvalidSelector,
         Contract!WellFormedRequirement, WellFormedRequirement
<1>2. \A spec, d : Contract!Selects(spec, d) <=> Selects(spec, d)
  BY DEF Contract!Selects, Selects, Contract!Matches, Matches, Contract!Satisfies, Satisfies
<1>3. \A store, ns : Contract!Listing(store, ns) = Listing(store, ns)
  BY DEF Contract!Listing, Listing, Contract!Policies, Policies
<1>4. Contract!Stores = Stores
  BY DEF Contract!Stores, Stores, Contract!Opt, Opt
<1> QED  BY <1>1, <1>2, <1>3, <1>4

LEMMA SameVerdict ==
  /\ \A d, spec : Contract!Verdict(d, spec) = Verdict(d, spec)
  /\ \A d, spec : Contract!ValidationPanics(d, spec) <=> ValidationPanics(d, spec)
<1> USE DEF Contract!AppendIf, AppendIf, Contract!Invalid, Invalid,
            Contract!IsMalformed, IsMalformed, Contract!RoundedUp, RoundedUp,
            Contract!CeilPercent, CeilPercent, Contract!RollingUpdateType, RollingUpdateType,
            Contract!RollingUpdateCompared, RollingUpdateCompared,
            Contract!PolicyRollingUpdates, PolicyRollingUpdates,
            Contract!BoundsRead, BoundsRead
<1>1. \A d, p : Contract!ReplicaCountErrors(d, p) = ReplicaCountErrors(d, p)
  BY DEF Contract!ReplicaCountErrors, ReplicaCountErrors
<1>2. \A d, p : Contract!StrategyShapeErrors(d, p) = StrategyShapeErrors(d, p)
  BY DEF Contract!StrategyShapeErrors, StrategyShapeErrors
<1>3. \A d, p : Contract!SurgeBoundErrors(d, p) = SurgeBoundErrors(d, p)
  BY DEF Contract!SurgeBoundErrors, SurgeBoundErrors,
         Contract!MaxSurgeErrors, MaxSurgeErrors
<1>4. \A d, p : Contract!UnavailableBoundErrors(d, p) = UnavailableBoundErrors(d, p)
  BY DEF Contract!UnavailableBoundErrors, UnavailableBoundErrors,
         Contract!MaxUnavailableErrors, MaxUnavailableErrors
<1>5. \A d, p : Contract!ResourceErrors(d, p) = ResourceErrors(d, p)
  BY DEF Contract!ResourceErrors, ResourceErrors, Contract!ContainerErrors, ContainerErrors,
         Contract!Missing, Missing, Contract!RequiredIn, RequiredIn
<1>6. \A d, p : Contract!DeploymentErrors(d, p) = DeploymentErrors(d, p)
  BY <1>1, <1>2, <1>3, <1>4, <1>5
     DEF Contract!DeploymentErrors, DeploymentErrors, Contract!UpdateStrategyErrors,
         UpdateStrategyErrors, Contract!BoundErrors, BoundErrors
<1>7. \A d, p : Contract!Verdict(d, p) = Verdict(d, p)
  BY <1>6 DEF Contract!Verdict, Verdict
<1>8. \A d, p : Contract!ValidationPanics(d, p) <=> ValidationPanics(d, p)
  BY DEF Contract!ValidationPanics, ValidationPanics, Contract!SurgePanics, SurgePanics,
         Contract!UnavailablePanics, UnavailablePanics
<1> QED  BY <1>7, <1>8

-----------------------------------------------------------------------------

LEMMA InitImplements == Init => Contract!Init
<1> SUFFICES ASSUME Init
             PROVE  Contract!Init
  OBVIOUS
<1>1. ContractStatus = [r \in Requests |-> "idle"]
  BY DEF Init, ContractStatus, StatusOf
<1>2. Range(<<>>) = {}
  BY DEF Range
<1>3. Snapshot = [r \in Requests |-> {}]
  BY <1>2 DEF Init, Snapshot
<1>4. policies \in Stores /\ dpl = [r \in Requests |-> {}] /\ resp = [r \in Requests |-> {}]
  BY DEF Init
<1> QED  BY <1>1, <1>3, <1>4, SameSelection DEF Contract!Init, Snapshot

(* What the loop has found when it ends is what the contract asks for.     *)
LEMMA ChoicePermitted ==
  ASSUME TypeOK, IInv, NEW r \in Requests, LoopEnded(r), NEW d \in dpl[r]
  PROVE  /\ hap[r] = {} => /\ Contract!Broken(Range(items[r])) = {}
                           /\ Contract!Selecting(Range(items[r]), d) = {}
         /\ \A judge \in Judge(r) :
              \E p \in Contract!Judges(Range(items[r]), d) : p.spec = judge
<1> DEFINE S == Range(items[r])
<1> USE DEF TypeOK, IInv, CallInv
<1>1. /\ \A p \in S : \E i \in 1..dhap[r] : p = items[r][i]
      /\ \A i \in 1..dhap[r] : items[r][i] \in S
  BY LenProperties DEF LoopEnded, Range
<1>2. ASSUME hap[r] = {}
      PROVE  Contract!Broken(S) = {} /\ Contract!Selecting(S, d) = {}
  <2>1. ASSUME NEW p \in S
        PROVE  ~IsBroken(p) /\ ~Selects(p.spec, d)
    <3>1. PICK i \in 1..dhap[r] : p = items[r][i]
      BY <1>1
    <3> QED  BY <1>2, <3>1 DEF LoopInv
  <2> QED  BY <2>1, SameSelection DEF Contract!Broken, Contract!Selecting, IsBroken
<1>3. ASSUME LoopVarPerIteration, NEW judge \in Judge(r)
      PROVE  \E p \in Contract!Judges(S, d) : p.spec = judge
  <2>1. PICK h \in hap[r] : judge = items[r][h].spec
    BY <1>3, JudgeIsListed DEF Judge, Chosen
  <2>2. h \in 1..dhap[r] /\ Selects(items[r][h].spec, d)
    BY DEF Shape, LoopInv
  <2>3. items[r][h].spec.weight \in Int
    <3>1. items[r] \in Seq(Policies) /\ h \in 1..Len(items[r])
      BY <2>2 DEF LoopEnded
    <3>2. items[r][h] \in Policies
      BY <3>1, ElementOfSeq
    <3> QED  BY <3>2, PolicySpecsAssumption DEF Policies, PolicySpec
  <2>4. ASSUME NEW p \in S
        PROVE  /\ IsBroken(p) => p.spec.weight < judge.weight
               /\ Selects(p.spec, d) => p.spec.weight <= judge.weight
    <3>1. PICK i \in 1..dhap[r] : p = items[r][i]
      BY <1>1
    <3> QED  BY <1>3, <2>1, <3>1 DEF LoopInv
  <2>5. items[r][h] \in S /\ ~IsBroken(items[r][h])
    BY <1>1, <2>1, <2>2, <2>4, <2>3
  <2>6. \A q \in Contract!Broken(S) : q.spec.weight < judge.weight
    <3>1. \A q \in Contract!Broken(S) : q \in S /\ IsBroken(q)
      BY SameSelection DEF Contract!Broken, IsBroken
    <3> QED  BY <2>4, <3>1
  <2>7. \A q \in Contract!Selecting(S, d) : q \in S /\ Selects(q.spec, d)
    BY SameSelection DEF Contract!Selecting
  <2>8. items[r][h] \in Contract!Selecting(S, d)
    BY <2>2, <2>5, SameSelection DEF Contract!Selecting, Contract!Broken, IsBroken
  <2>9. items[r][h] \in Contract!DocumentedJudges(S, d)
    BY <2>1, <2>4, <2>6, <2>7, <2>8 DEF Contract!DocumentedJudges
  <2> QED  BY <1>3, <2>1, <2>9 DEF Contract!Judges
<1>4. ASSUME ~LoopVarPerIteration, NEW judge \in Judge(r)
      PROVE  \E p \in Contract!Judges(S, d) : p.spec = judge
  <2>1. PICK h \in hap[r] : h \in 1..dhap[r] /\ Selects(items[r][h].spec, d)
    BY <1>4 DEF Judge, Chosen, Shape, LoopInv
  <2>2. PICK p \in S : p.spec = judge
    BY <1>4, JudgeIsListed
  <2>3. \A q \in S : ~IsBroken(q)
    BY <1>1, <1>4 DEF LoopInv
  <2>4. Contract!Broken(S) = {}
    BY <2>3, SameSelection DEF Contract!Broken, IsBroken
  <2>5. items[r][h] \in Contract!Selecting(S, d)
    BY <1>1, <2>1, <2>4, SameSelection DEF Contract!Selecting
  <2>6. p \in Contract!SharedJudges(S, d)
    BY <2>2, <2>4, <2>5 DEF Contract!SharedJudges
  <2> QED  BY <1>4, <2>2, <2>6 DEF Contract!Judges
<1> QED  BY <1>2, <1>3, <1>4, LoopVarAssumption

-----------------------------------------------------------------------------
(* Every step of the hook is a step of the contract or a stutter.          *)

(* What one call's change of phase does to the contract's variables.       *)
LEMMA StatusStep ==
  ASSUME TypeOK, NEW r \in Requests, NEW phase \in Phases, pc' = [pc EXCEPT ![r] = phase]
  PROVE  /\ ContractStatus[r] = StatusOf(pc[r])
         /\ ContractStatus' = [ContractStatus EXCEPT ![r] = StatusOf(phase)]
  BY DEF TypeOK, ContractStatus

LEMMA StepImplements ==
  ASSUME TypeOK, IInv, NEW r \in Requests, Step(r)
  PROVE  Contract!Next \/ UNCHANGED contractState
<1> USE DEF TypeOK
<1> HIDE DEF ContractStatus
<1>0. Phases = {"idle", "list", "select", "answered", "panicked", "lost"}
  BY DEF Phases
<1>1. CASE ListPolicies(r)
  <2>1. /\ ContractStatus[r] = "received"
        /\ ContractStatus' = [ContractStatus EXCEPT ![r] = "observed"]
    BY <1>0, <1>1, StatusStep DEF ListPolicies, StatusOf
  <2>2. PICK d \in dpl[r] :
          \E order \in Surjection(1..Cardinality(Listing(policies, d.namespace)),
                                   Listing(policies, d.namespace)) :
            items' = [items EXCEPT ![r] = order]
    BY <1>1 DEF ListPolicies
  <2>3. Range(items'[r]) = Listing(policies, d.namespace)
    BY <2>2, ListingFinite, OrderIsSequence
  <2>4. Snapshot' = [Snapshot EXCEPT ![r] = Listing(policies, d.namespace)]
    BY <2>2, <2>3 DEF Snapshot
  <2>5. Contract!Observe(r)
    BY <1>1, <2>1, <2>4, SameSelection DEF ListPolicies, Contract!Observe, Snapshot
  <2> QED  BY <2>5 DEF Contract!Next
<1>2. CASE ListFails(r)
  <2>1. /\ ContractStatus[r] = "received"
        /\ ContractStatus' = [ContractStatus EXCEPT ![r] = "answered"]
    BY <1>0, <1>2, StatusStep DEF ListFails, Answer, StatusOf
  <2>2. Contract!StoreUnavailable(r)
    BY <1>2, <2>1 DEF ListFails, Answer, Contract!StoreUnavailable, Contract!Respond
  <2> QED  BY <2>2 DEF Contract!Next
<1>3. CASE ListOnNilClient(r) \/ JudgePanics(r)
  <2>1. /\ ContractStatus[r] # "idle"
        /\ ContractStatus' = [ContractStatus EXCEPT ![r] = "failed"]
    BY <1>0, <1>3, StatusStep DEF ListOnNilClient, JudgePanics, LoopEnded, StatusOf
  <2>2. Contract!Fail({r})
    BY <1>3, <2>1 DEF ListOnNilClient, JudgePanics, Contract!Fail, ContractStatus
  <2> QED  BY <2>2 DEF Contract!Next
<1>4. CASE SkipOutweighed(r) \/ ConsiderPolicy(r)
  <2>1. UNCHANGED <<policies, pc, dpl, items, resp>>
    BY <1>4 DEF SkipOutweighed, ConsiderPolicy
  <2> QED  BY <2>1 DEF contractState, ContractStatus, Snapshot
<1>5. ASSUME LoopRuns(r) \/ LoopEnded(r),
             NEW answer \in {"allowed", "internalError", "notAcceptable"}, Answer(r, answer),
             UNCHANGED <<policies, dpl, items>>,
             NEW d \in dpl[r], Contract!Permitted(Range(items[r]), d, answer)
      PROVE  Contract!Next
  <2>1. /\ ContractStatus[r] = "observed"
        /\ ContractStatus' = [ContractStatus EXCEPT ![r] = "answered"]
    BY <1>0, <1>5, StatusStep DEF LoopRuns, LoopEnded, Answer, StatusOf
  <2>2. Snapshot[r] = Range(items[r]) /\ Snapshot' = Snapshot
    BY <1>5 DEF Snapshot
  <2>3. Contract!Rule(r, answer)
    BY <1>5, <2>1, <2>2 DEF Answer, Contract!Rule, Contract!Respond, Snapshot
  <2> QED  BY <2>3 DEF Contract!Next
<1>6. CASE AllowUnselected(r)
  <2>1. PICK d \in dpl[r] : TRUE
    BY <1>6 DEF IInv, CallInv, Shape, AllowUnselected, LoopEnded
  <2>2. Contract!Permitted(Range(items[r]), d, "allowed")
    BY <1>6, <2>1, ChoicePermitted DEF AllowUnselected, Contract!Permitted, Contract!Ruled
  <2> QED  BY <1>5, <1>6, <2>2 DEF AllowUnselected
<1>7. CASE JudgeDeployment(r)
  <2>1. PICK d \in dpl[r], judge \in Judge(r) :
          ~ValidationPanics(d, judge) /\ Answer(r, Verdict(d, judge))
    BY <1>7 DEF JudgeDeployment
  <2>2. Verdict(d, judge) \in {"allowed", "internalError", "notAcceptable"}
    BY DEF Verdict
  <2>3. PICK p \in Contract!Judges(Range(items[r]), d) : p.spec = judge
    BY <1>7, ChoicePermitted DEF JudgeDeployment
  <2>4. Contract!Permitted(Range(items[r]), d, Verdict(d, judge))
    BY <2>1, <2>3, SameVerdict DEF Contract!Permitted, Contract!Ruled
  <2> QED  BY <1>5, <1>7, <2>1, <2>2, <2>4 DEF JudgeDeployment
<1>8. CASE RejectSelector(r)
  <2>1. PICK d \in dpl[r] : TRUE
    BY <1>8 DEF IInv, CallInv, Shape, RejectSelector, LoopRuns
  <2>2. NextItem(r) \in DOMAIN items[r] /\ items[r][NextItem(r)] \in Range(items[r])
    BY <1>8, LenProperties DEF RejectSelector, LoopRuns, NextItem, Range
  <2>3. Contract!Permitted(Range(items[r]), d, "internalError")
    BY <1>8, <2>2, SameSelection DEF RejectSelector, Contract!Permitted, Contract!Ruled, Contract!Broken
  <2> QED  BY <1>5, <1>8, <2>3 DEF RejectSelector
<1> QED  BY <1>1, <1>2, <1>3, <1>4, <1>6, <1>7, <1>8 DEF Step

LEMMA NextImplements ==
  ASSUME TypeOK, IInv, [Next]_vars
  PROVE  Contract!Next \/ UNCHANGED contractState
<1> USE DEF TypeOK
<1>0. Phases = {"idle", "list", "select", "answered", "panicked", "lost"}
  BY DEF Phases
<1>1. CASE Start \/ Initialize \/ UNCHANGED vars
  <2>1. UNCHANGED <<policies, pc, dpl, items, resp>>
    BY <1>1 DEF Start, Initialize, vars, callVars
  <2> QED  BY <2>1 DEF contractState, ContractStatus, Snapshot
<1>2. CASE InitializeFails \/ Crash
  <2> DEFINE R == {r \in Requests : pc[r] # "idle"}
  <2>1. ProcessExit
    BY <1>2 DEF InitializeFails, Crash
  <2>2. \A r \in R : ContractStatus[r] # "idle"
    BY <1>0 DEF ContractStatus, StatusOf
  <2>3. ContractStatus' = [r \in Requests |-> IF r \in R THEN "failed" ELSE ContractStatus[r]]
    BY <2>1 DEF ProcessExit, ContractStatus, StatusOf
  <2>4. Contract!Fail(R)
    BY <2>1, <2>2, <2>3 DEF ProcessExit, Contract!Fail
  <2>5. R \in SUBSET Requests
    OBVIOUS
  <2> QED  BY <2>4, <2>5 DEF Contract!Next
<1>3. ASSUME NEW k \in PolicyKeys, DeletePolicy(k) \/ \E s \in PolicySpecs : WritePolicy(k, s)
      PROVE  Contract!Next
  <2>1. UNCHANGED <<pc, dpl, items, resp>>
    BY <1>3 DEF DeletePolicy, WritePolicy, callVars
  <2>2. \A o \in {{}} \cup {{s} : s \in PolicySpecs} : o \in Opt(PolicySpecs)
    BY DEF Opt
  <2>3. policies' \in Stores
    BY <1>3, <2>2 DEF DeletePolicy, WritePolicy, Stores
  <2>4. Contract!ChangePolicies
    BY <2>1, <2>3, SameSelection DEF Contract!ChangePolicies, ContractStatus
  <2> QED  BY <2>4 DEF Contract!Next
<1>4. ASSUME NEW r \in Requests, RejectUndecodable(r)
      PROVE  Contract!Next
  <2>1. /\ ContractStatus[r] = "idle"
        /\ ContractStatus' = [ContractStatus EXCEPT ![r] = "answered"]
    BY <1>0, <1>4, StatusStep DEF RejectUndecodable, Answer, StatusOf
  <2>2. Contract!Undecodable(r)
    BY <1>4, <2>1 DEF RejectUndecodable, Answer, Contract!Undecodable, Contract!Respond
  <2> QED  BY <2>2 DEF Contract!Next
<1>5. ASSUME NEW r \in Requests, NEW d \in Deployments, Validate(r, d)
      PROVE  Contract!Next
  <2>1. /\ ContractStatus[r] = "idle"
        /\ ContractStatus' = [ContractStatus EXCEPT ![r] = "received"]
    BY <1>0, <1>5, StatusStep DEF Validate, StatusOf
  <2>2. Contract!Receive(r, d)
    BY <1>5, <2>1 DEF Validate, Contract!Receive
  <2> QED  BY <2>2 DEF Contract!Next
<1>6. ASSUME NEW r \in Requests, Complete(r)
      PROVE  Contract!Next
  <2>1. /\ ContractStatus[r] \in {"answered", "failed"}
        /\ ContractStatus' = [ContractStatus EXCEPT ![r] = "idle"]
    BY <1>0, <1>6, StatusStep DEF Complete, StatusOf
  <2>2. Range(<<>>) = {}
    BY DEF Range
  <2>3. Snapshot' = [Snapshot EXCEPT ![r] = {}]
    BY <1>6, <2>2 DEF Complete, Snapshot
  <2>4. Contract!Complete(r)
    BY <1>6, <2>1, <2>3 DEF Complete, Contract!Complete, Snapshot
  <2> QED  BY <2>4 DEF Contract!Next
<1> QED
  BY <1>1, <1>2, <1>3, <1>4, <1>5, <1>6, StepImplements DEF Next

(* However it was built, the hook gives only the answers that the contract *)
(* permits its build for the policies stored at one moment of the call,    *)
(* whatever interleaves with it.  With a loop variable for each iteration  *)
(* that is types.go's rule; with a shared one it is the verdict of some    *)
(* policy of the list, when one of them selects the Deployment and every   *)
(* selector can be read.                                                   *)
THEOREM HookImplementsContract == Spec => ContractSpec
<1>1. Spec => [](TypeOK /\ IInv)
  BY Invariance
<1>2. Init => Contract!Init
  BY InitImplements
<1>3. TypeOK /\ IInv /\ [Next]_vars => [Contract!Next]_(Contract!contractVars)
  BY NextImplements DEF contractState, Snapshot, Contract!contractVars
<1> QED
  BY <1>1, <1>2, <1>3, PTL DEF Spec, ContractSpec, Contract!Spec

=============================================================================
