---------------------- MODULE ValidateDeploymentProofs ----------------------
(***************************************************************************)
(* Proofs about one call of ValidateDeployment, for all Deployments and    *)
(* policies: what it returns, that it accepts the Deployments that adhere  *)
(* to the policy and no others, and what these do in the cluster.          *)
(*                                                                         *)
(* The invariant IInv says, for every validator that may run next, what    *)
(* the error list holds and what is known not to have panicked; in the     *)
(* resource loop it says that the list and the errors of the unvisited     *)
(* containers are together the errors of the whole call.  By               *)
(* SummaryCorrect only DeploymentErrors is left to look at after that.     *)
(***************************************************************************)
EXTENDS ValidateDeployment, TLAPS

(* Every validator appends values of the code's error type.                *)
LEMMA ErrorsTyped ==
  ASSUME NEW d \in Deployment, NEW p \in PolicySpec
  PROVE  /\ ReplicaCountErrors(d, p) \subseteq FieldError
         /\ StrategyShapeErrors(d, p) \subseteq FieldError
         /\ SurgeBoundErrors(d, p) \subseteq FieldError
         /\ UnavailableBoundErrors(d, p) \subseteq FieldError
         /\ \A c \in d.containers : ContainerErrors(c, p) \subseteq FieldError
<1>0. ASSUME NEW path \in FieldPaths, NEW detail \in Details
      PROVE  Invalid(path, detail) \in FieldError
  BY DEF Invalid, FieldError
<1> USE DEF FieldPaths, Details
<1>1. ReplicaCountErrors(d, p) \subseteq FieldError
  BY <1>0 DEF ReplicaCountErrors, AppendIf
<1>2. StrategyShapeErrors(d, p) \subseteq FieldError
  BY <1>0 DEF StrategyShapeErrors, AppendIf
<1>3. SurgeBoundErrors(d, p) \subseteq FieldError
  <2>1. ASSUME NEW s, NEW h, NEW n PROVE MaxSurgeErrors(s, h, n) \subseteq FieldError
    BY <1>0 DEF MaxSurgeErrors, AppendIf
  <2> QED  BY <2>1 DEF SurgeBoundErrors
<1>4. UnavailableBoundErrors(d, p) \subseteq FieldError
  <2>1. ASSUME NEW u, NEW b, NEW n PROVE MaxUnavailableErrors(u, b, n) \subseteq FieldError
    BY <1>0 DEF MaxUnavailableErrors, AppendIf
  <2> QED  BY <2>1 DEF UnavailableBoundErrors
<1>5. ASSUME NEW c \in d.containers
      PROVE  ContainerErrors(c, p) \subseteq FieldError
  <2>1. c.name \in STRING
    BY DEF Deployment, Container
  <2>2. \A res \in p.resources : /\ RequiredIn(res.requests) \subseteq STRING
                                 /\ RequiredIn(res.limits) \subseteq STRING
    BY DEF PolicySpec, PolicyResources, ResourceList, RequiredIn, Opt
  <2>3. \A n \in STRING : /\ Missing(c, "requests", n) \in FieldError
                          /\ Missing(c, "limits", n) \in FieldError
    BY <1>0, <2>1 DEF Missing
  <2>4. ASSUME NEW res \in p.resources
        PROVE  /\ {Missing(c, "requests", n) : n \in RequiredIn(res.requests) \ c.requests} \subseteq FieldError
               /\ {Missing(c, "limits", n) : n \in RequiredIn(res.limits) \ c.limits} \subseteq FieldError
    BY <2>2, <2>3
  <2> QED  BY <2>4 DEF ContainerErrors
<1> QED  BY <1>1, <1>2, <1>3, <1>4, <1>5

-----------------------------------------------------------------------------

(* The variables always hold values of the code's types.                   *)
THEOREM TypeCorrect == Spec => []TypeOK
<1>1. Init => TypeOK
  BY DEF Init, TypeOK, Steps
<1>2. TypeOK /\ [Next]_vars => TypeOK'
  <2> SUFFICES ASSUME TypeOK, [Next]_vars
               PROVE  TypeOK'
    OBVIOUS
  <2> USE DEF TypeOK, Steps
  <2>0. dpl \in Deployment /\ hap \in PolicySpec
    BY DeploymentsAssumption, PolicySpecsAssumption
  <2>1. CASE ValidateReplicaCount
    BY <2>0, <2>1, ErrorsTyped DEF ValidateReplicaCount
  <2>2. CASE ValidateUpdateStrategy
    BY <2>0, <2>2, ErrorsTyped DEF ValidateUpdateStrategy
  <2>3. CASE ValidateMaxSurge
    <3>1. Invalid(<<"maxSurge">>, "invalid value") \in FieldError
      BY DEF Invalid, FieldError, FieldPaths, Details
    <3> QED  BY <2>0, <2>3, <3>1, ErrorsTyped DEF ValidateMaxSurge
  <2>4. CASE ValidateMaxUnavailable
    BY <2>0, <2>4, ErrorsTyped DEF ValidateMaxUnavailable
  <2>5. CASE NilDereference
    BY <2>5 DEF NilDereference
  <2>6. CASE ValidateResourceRequirements
    BY <2>6 DEF ValidateResourceRequirements
  <2>7. ASSUME NEW c \in dpl.containers, VisitContainer(c)
        PROVE  TypeOK'
    BY <2>0, <2>7, ErrorsTyped DEF VisitContainer
  <2>8. CASE Return
    BY <2>8 DEF Return
  <2>9. CASE UNCHANGED vars
    BY <2>9 DEF vars
  <2> QED
    BY <2>1, <2>2, <2>3, <2>4, <2>5, <2>6, <2>7, <2>8, <2>9 DEF Next
<1> QED  BY <1>1, <1>2, PTL DEF Spec

-----------------------------------------------------------------------------

(* The errors appended once validateUpdateStrategy has tested the shape.   *)
ErrorsBeforeBounds == ReplicaCountErrors(dpl, hap) \cup StrategyShapeErrors(dpl, hap)

ErrorsBeforeResources == ReplicaCountErrors(dpl, hap) \cup UpdateStrategyErrors(dpl, hap)

Outstanding == UNION {ContainerErrors(c, hap) : c \in unvisited}

IInv ==
  /\ pc = "replicas" => el = {}
  /\ pc = "strategy" => el = ReplicaCountErrors(dpl, hap)
  /\ pc = "maxSurge" => BoundsRead(dpl, hap) /\ el = ErrorsBeforeBounds
  /\ pc = "maxUnavailable" =>
       /\ BoundsRead(dpl, hap)
       /\ ~SurgePanics(dpl, hap)
       /\ PolicyRollingUpdates(hap) # {} =>
            el = ErrorsBeforeBounds \cup SurgeBoundErrors(dpl, hap)
  /\ pc = "resources" => ~ValidationPanics(dpl, hap) /\ el = ErrorsBeforeResources
  /\ pc = "containers" =>
       ~ValidationPanics(dpl, hap) /\ el \cup Outstanding = DeploymentErrors(dpl, hap)
  /\ SummaryIsExact

LEMMA IInvInit == Init => IInv
  BY DEF Init, IInv, SummaryIsExact, Returned

(* One step of the call, validator by validator.                           *)
LEMMA IInvStep == TypeOK /\ IInv /\ [Next]_vars => IInv'
<1> SUFFICES ASSUME TypeOK, IInv, [Next]_vars
             PROVE  IInv'
  OBVIOUS
<1> USE DEF IInv, SummaryIsExact, Returned
<1>1. CASE ValidateReplicaCount
  BY <1>1 DEF ValidateReplicaCount
<1>2. CASE ValidateUpdateStrategy
  <2>1. CASE BoundsRead(dpl, hap)
    BY <1>2, <2>1 DEF ValidateUpdateStrategy, ErrorsBeforeBounds
  <2>2. CASE ~BoundsRead(dpl, hap)
    BY <1>2, <2>2 DEF ValidateUpdateStrategy, ErrorsBeforeResources, UpdateStrategyErrors,
                      BoundErrors, ValidationPanics
  <2> QED  BY <2>1, <2>2
<1>3. CASE ValidateMaxSurge
  BY <1>3 DEF ValidateMaxSurge, ErrorsBeforeBounds
<1>4. CASE ValidateMaxUnavailable
  <2>1. PolicyRollingUpdates(hap) # {}
    BY <1>4 DEF ValidateMaxUnavailable, UnavailablePanics
  <2>2. el' = ErrorsBeforeResources
    BY <1>4, <2>1 DEF ValidateMaxUnavailable, ErrorsBeforeBounds, ErrorsBeforeResources,
                      UpdateStrategyErrors, BoundErrors
  <2>3. ~ValidationPanics(dpl, hap)
    BY <1>4 DEF ValidateMaxUnavailable, ValidationPanics
  <2> QED
    BY <1>4, <2>2, <2>3 DEF ValidateMaxUnavailable, ErrorsBeforeResources
<1>5. CASE NilDereference
  BY <1>5 DEF NilDereference, ValidationPanics
<1>6. CASE ValidateResourceRequirements
  <2>1. Outstanding' = ResourceErrors(dpl, hap)
    <3>1. hap.resources = {} => \A c : ContainerErrors(c, hap) = {}
      BY DEF ContainerErrors
    <3> QED
      BY <1>6, <3>1 DEF ValidateResourceRequirements, Outstanding, ResourceErrors
  <2>2. (el \cup Outstanding)' = DeploymentErrors(dpl, hap)
    BY <1>6, <2>1 DEF ValidateResourceRequirements, ErrorsBeforeResources, DeploymentErrors
  <2> QED
    BY <1>6, <2>2 DEF ValidateResourceRequirements
<1>7. ASSUME NEW c \in dpl.containers, VisitContainer(c)
      PROVE  IInv'
  <2>1. el' \cup Outstanding' = el \cup Outstanding
    BY <1>7 DEF VisitContainer, Outstanding
  <2> QED
    BY <1>7, <2>1 DEF VisitContainer
<1>8. CASE Return
  <2>1. Outstanding = {}
    BY <1>8 DEF Return, Outstanding
  <2> QED
    BY <1>8, <2>1 DEF Return
<1>9. CASE UNCHANGED vars
  BY <1>9 DEF vars, ErrorsBeforeBounds, ErrorsBeforeResources, Outstanding
<1> QED
  BY <1>1, <1>2, <1>3, <1>4, <1>5, <1>6, <1>7, <1>8, <1>9 DEF Next

(* ValidateDeployment returns exactly DeploymentErrors, and panics exactly *)
(* when ValidationPanics holds, for all Deployments and policies.          *)
THEOREM SummaryCorrect == Spec => []SummaryIsExact
<1>1. IInv => SummaryIsExact
  BY DEF IInv
<1> QED  BY IInvInit, IInvStep, TypeCorrect, <1>1, PTL DEF Spec


-----------------------------------------------------------------------------
(* Rounding.                                                               *)

LEMMA RoundedType ==
  ASSUME NEW v \in IntOrString, NEW n \in Int
  PROVE  RoundedUp(v, n) \in Int /\ RoundedDown(v, n) \in Int
<1>1. v.val \in Int /\ v.val * n \in Int
  BY DEF IntOrString
<1> QED  BY <1>1 DEF RoundedUp, RoundedDown, CeilPercent, FloorPercent

LEMMA Hundredths ==
  ASSUME NEW a \in Int, NEW b \in Int, a <= b
  PROVE  /\ (a + 99) \div 100 <= (b + 99) \div 100
         /\ a \div 100 <= (a + 99) \div 100
         /\ 0 <= a => 0 <= a \div 100
         /\ 1 <= a => 1 <= (a + 99) \div 100
  BY SMT

LEMMA ProductMonotonic ==
  ASSUME NEW x \in Int, NEW y \in Int, x <= y, NEW n \in Nat
  PROVE  x * n <= y * n
<1>1. y * n = x * n + (y - x) * n
  BY SMT
<1>2. (y - x) * n >= 0
  BY SMT
<1> QED  BY <1>1, <1>2

(* The larger of two percentages is no fewer pods.                         *)
LEMMA CeilMonotonic ==
  ASSUME NEW lo \in IntOrString, NEW hi \in IntOrString, NEW n \in Nat, PercentInOrder(lo, hi)
  PROVE  RoundedUp(lo, n) <= RoundedUp(hi, n)
<1>1. lo.val \in Int /\ hi.val \in Int /\ lo.val <= hi.val
  BY DEF IntOrString, PercentInOrder
<1>2. lo.val * n <= hi.val * n /\ lo.val * n \in Int /\ hi.val * n \in Int
  BY <1>1, ProductMonotonic
<1>3. (lo.val * n + 99) \div 100 <= (hi.val * n + 99) \div 100
  BY <1>2, Hundredths
<1> QED  BY <1>3 DEF RoundedUp, CeilPercent, PercentInOrder

-----------------------------------------------------------------------------
(* When each validator is satisfied.                                       *)

LEMMA ReplicaCounts ==
  Int32 \subseteq Int
  BY SMT DEF Int32

LEMMA ReplicasSatisfied ==
  ASSUME NEW d \in Deployment, NEW p \in PolicySpec
  PROVE  ReplicaCountErrors(d, p) = {} <=>
           \A minimum \in p.replicas : \E n \in d.replicas : n >= minimum
<1>1. p.replicas \subseteq Int /\ d.replicas \subseteq Int
  BY ReplicaCounts DEF Deployment, PolicySpec, Opt
<1>2. \A x, y \in d.replicas : x = y
  BY DEF Deployment, Opt
<1>3. ReplicaCountErrors(d, p) = {} <=>
        /\ ~(p.replicas # {} /\ d.replicas = {})
        /\ ~(\E minimum \in p.replicas, n \in d.replicas : n < minimum)
  BY DEF ReplicaCountErrors, AppendIf
<1> QED  BY <1>1, <1>2, <1>3

LEMMA SurgeSatisfied ==
  ASSUME NEW s \in IntOrString, NEW hru \in PolicyRollingUpdate, NEW n \in Int
  PROVE  MaxSurgeErrors(s, hru, n) = {} <=>
           /\ Readable(s)
           /\ \A m \in hru.minSurge : Readable(m) /\ RoundedUp(m, n) <= RoundedUp(s, n)
           /\ \A m \in hru.maxSurge : Readable(m) /\ RoundedUp(s, n) <= RoundedUp(m, n)
<1>1. hru.minSurge \subseteq IntOrString /\ hru.maxSurge \subseteq IntOrString
  BY DEF PolicyRollingUpdate, Opt
<1>2. /\ RoundedUp(s, n) \in Int
      /\ \A m \in hru.minSurge \cup hru.maxSurge : RoundedUp(m, n) \in Int
  BY <1>1, RoundedType
<1>3. MaxSurgeErrors(s, hru, n) = {} <=>
        /\ ~IsMalformed(s)
        /\ ~(\E m \in hru.minSurge : IsMalformed(m))
        /\ ~(\E m \in hru.minSurge : RoundedUp(s, n) < RoundedUp(m, n))
        /\ ~(\E m \in hru.maxSurge : IsMalformed(m))
        /\ ~(\E m \in hru.maxSurge : RoundedUp(s, n) > RoundedUp(m, n))
  BY DEF MaxSurgeErrors, AppendIf
<1> QED  BY <1>2, <1>3 DEF Readable

LEMMA UnavailableSatisfied ==
  ASSUME NEW u \in IntOrString, NEW b \in IntOrString, NEW n \in Int
  PROVE  MaxUnavailableErrors(u, b, n) = {} <=>
           Readable(u) /\ Readable(b) /\ RoundedUp(u, n) <= RoundedUp(b, n)
<1>1. RoundedUp(u, n) \in Int /\ RoundedUp(b, n) \in Int
  BY RoundedType
<1>2. MaxUnavailableErrors(u, b, n) = {} <=>
        /\ ~(IsMalformed(u) \/ IsMalformed(b))
        /\ ~(RoundedUp(u, n) > RoundedUp(b, n))
  BY DEF MaxUnavailableErrors, AppendIf
<1> QED  BY <1>1, <1>2 DEF Readable

LEMMA ResourcesSatisfied ==
  ASSUME NEW d \in Deployment, NEW p \in PolicySpec
  PROVE  ResourceErrors(d, p) = {} <=>
           \A res \in p.resources, c \in d.containers :
             /\ RequiredIn(res.requests) \subseteq c.requests
             /\ RequiredIn(res.limits) \subseteq c.limits
<1>1. ASSUME NEW c \in d.containers
      PROVE  ContainerErrors(c, p) = {} <=>
               \A res \in p.resources : /\ RequiredIn(res.requests) \ c.requests = {}
                                        /\ RequiredIn(res.limits) \ c.limits = {}
  <2>1. ContainerErrors(c, p) = {} <=>
          \A res \in p.resources :
            /\ {Missing(c, "requests", n) : n \in RequiredIn(res.requests) \ c.requests} = {}
            /\ {Missing(c, "limits", n) : n \in RequiredIn(res.limits) \ c.limits} = {}
    BY DEF ContainerErrors
  <2>2. \A S, list : {Missing(c, list, n) : n \in S} = {} <=> S = {}
    OBVIOUS
  <2> QED  BY <2>1, <2>2
<1>2. ResourceErrors(d, p) = {} <=> \A c \in d.containers : ContainerErrors(c, p) = {}
  BY DEF ResourceErrors
<1>3. \A S, T : S \ T = {} <=> S \subseteq T
  OBVIOUS
<1> QED  BY <1>1, <1>2, <1>3

(* The values the bounds are compared with.                                *)
LEMMA RolloutTypes ==
  ASSUME NEW d \in Deployment, NEW p \in PolicySpec
  PROVE  /\ \A ru \in d.strategy.rollingUpdate :
              ru.maxSurge \subseteq IntOrString /\ ru.maxUnavailable \subseteq IntOrString
         /\ \A s \in p.strategy : s.rollingUpdate \subseteq PolicyRollingUpdate
         /\ \A hru \in PolicyRollingUpdates(p) :
              hru \in PolicyRollingUpdate /\ hru.maxUnavailable \subseteq IntOrString
         /\ d.replicas \subseteq Int
         /\ \A s, t \in p.strategy : s = t
         /\ \A x, y \in d.strategy.rollingUpdate : x = y
<1>1. /\ d.strategy.rollingUpdate \in Opt(DeploymentRollingUpdate)
      /\ d.replicas \in Opt(Int32) /\ p.strategy \in Opt(PolicyStrategy)
  BY DEF Deployment, PolicySpec
<1>2. \A s \in p.strategy : s.rollingUpdate \subseteq PolicyRollingUpdate
  BY <1>1 DEF PolicyStrategy, Opt
<1>3. \A hru \in PolicyRollingUpdates(p) : hru \in PolicyRollingUpdate
  BY <1>2 DEF PolicyRollingUpdates
<1>4. \A hru \in PolicyRollingUpdate : hru.maxUnavailable \subseteq IntOrString
  BY DEF PolicyRollingUpdate, Opt
<1>5. \A ru \in d.strategy.rollingUpdate :
        ru.maxSurge \subseteq IntOrString /\ ru.maxUnavailable \subseteq IntOrString
  BY <1>1 DEF DeploymentRollingUpdate, Opt
<1> QED  BY <1>1, <1>2, <1>3, <1>4, <1>5, ReplicaCounts DEF Opt

(* Once the bounds are read without a panic, no error means within bounds. *)
LEMMA BoundsSatisfied ==
  ASSUME NEW d \in Deployment, NEW p \in PolicySpec,
         BoundsRead(d, p), ~ValidationPanics(d, p)
  PROVE  BoundErrors(d, p) = {} <=>
           \A ru \in d.strategy.rollingUpdate, hru \in PolicyRollingUpdates(p), n \in d.replicas :
             WithinBounds(ru, hru, n)
<1> DEFINE RUs  == d.strategy.rollingUpdate
           HRUs == PolicyRollingUpdates(p)
<1>1. BoundErrors(d, p) = {} <=>
        SurgeBoundErrors(d, p) = {} /\ UnavailableBoundErrors(d, p) = {}
  BY DEF BoundErrors
<1>2. SurgeBoundErrors(d, p) = {} <=>
        \A ru \in RUs, hru \in HRUs, n \in d.replicas :
          \A s \in ru.maxSurge : MaxSurgeErrors(s, hru, n) = {}
  BY DEF SurgeBoundErrors
<1>3. UnavailableBoundErrors(d, p) = {} <=>
        \A ru \in RUs, hru \in HRUs, n \in d.replicas :
          \A m \in hru.maxUnavailable, u \in ru.maxUnavailable : MaxUnavailableErrors(u, m, n) = {}
  BY DEF UnavailableBoundErrors
<1>4. ASSUME NEW ru \in RUs, NEW hru \in HRUs, NEW n \in d.replicas
      PROVE  /\ n \in Int /\ hru \in PolicyRollingUpdate
             /\ ru.maxSurge \subseteq IntOrString /\ ru.maxUnavailable \subseteq IntOrString
             /\ hru.maxUnavailable \subseteq IntOrString
  BY RolloutTypes
<1>5. ASSUME NEW ru \in RUs, NEW hru \in HRUs, NEW n \in d.replicas
      PROVE  WithinBounds(ru, hru, n) <=>
               /\ \A s \in ru.maxSurge : MaxSurgeErrors(s, hru, n) = {}
               /\ \A m \in hru.maxUnavailable, u \in ru.maxUnavailable :
                    MaxUnavailableErrors(u, m, n) = {}
  <2>1. \A s \in ru.maxSurge : MaxSurgeErrors(s, hru, n) = {} <=>
           /\ Readable(s)
           /\ \A m \in hru.minSurge : Readable(m) /\ RoundedUp(m, n) <= RoundedUp(s, n)
           /\ \A m \in hru.maxSurge : Readable(m) /\ RoundedUp(s, n) <= RoundedUp(m, n)
    BY <1>4, SurgeSatisfied
  <2>2. \A m \in hru.maxUnavailable, u \in ru.maxUnavailable :
           MaxUnavailableErrors(u, m, n) = {} <=>
             Readable(u) /\ Readable(m) /\ RoundedUp(u, n) <= RoundedUp(m, n)
    BY <1>4, UnavailableSatisfied
  <2> QED  BY <2>1, <2>2 DEF WithinBounds
<1> QED  BY <1>1, <1>2, <1>3, <1>5

LEMMA StrategySatisfied ==
  ASSUME dpl \in Deployment, hap \in PolicySpec, ~ValidationPanics(dpl, hap)
  PROVE  UpdateStrategyErrors(dpl, hap) = {} <=> \A s \in hap.strategy : StrategyAdheres(s)
<1>1. CASE hap.strategy = {}
  BY <1>1 DEF UpdateStrategyErrors, StrategyShapeErrors, BoundErrors, BoundsRead, AppendIf
<1>2. ASSUME NEW s \in hap.strategy
      PROVE  UpdateStrategyErrors(dpl, hap) = {} <=> StrategyAdheres(s)
  <2>1. \A t \in hap.strategy : t = s
    BY RolloutTypes
  <2>2. PolicyRollingUpdates(hap) = s.rollingUpdate
    BY <2>1 DEF PolicyRollingUpdates
  <2>3. CASE dpl.strategy.type # s.type
    BY <2>3 DEF UpdateStrategyErrors, StrategyShapeErrors, StrategyAdheres, AppendIf
  <2>4. CASE dpl.strategy.type = s.type /\ s.type # RollingUpdateType
    BY <2>1, <2>4 DEF UpdateStrategyErrors, StrategyShapeErrors, BoundErrors, BoundsRead,
                      RollingUpdateCompared, StrategyAdheres, AppendIf
  <2>5. CASE RollingUpdateCompared(dpl, s)
    <3>1. CASE dpl.strategy.rollingUpdate = {}
      BY <2>5, <3>1 DEF UpdateStrategyErrors, StrategyShapeErrors, StrategyAdheres, AppendIf,
                        RollingUpdateCompared
    <3>2. CASE dpl.strategy.rollingUpdate # {}
      <4>1. StrategyShapeErrors(dpl, hap) = {}
        BY <2>1, <2>5, <3>2 DEF StrategyShapeErrors, AppendIf, RollingUpdateCompared
      <4>2. PICK ru \in dpl.strategy.rollingUpdate : dpl.strategy.rollingUpdate = {ru}
        BY <3>2, RolloutTypes
      <4>3. StrategyAdheres(s) <=>
              \A hru \in s.rollingUpdate, n \in dpl.replicas : WithinBounds(ru, hru, n)
        BY <2>5, <4>2 DEF StrategyAdheres, RollingUpdateCompared
      <4>4. CASE dpl.replicas = {}
        BY <4>1, <4>3, <4>4 DEF UpdateStrategyErrors, BoundErrors, BoundsRead
      <4>5. CASE dpl.replicas # {}
        <5>1. BoundsRead(dpl, hap)
          BY <2>5, <3>2, <4>5 DEF BoundsRead
        <5>2. BoundErrors(dpl, hap) = {} <=>
                \A hru \in s.rollingUpdate, n \in dpl.replicas : WithinBounds(ru, hru, n)
          BY <5>1, <4>2, <2>2, BoundsSatisfied
        <5> QED  BY <4>1, <4>3, <5>2 DEF UpdateStrategyErrors
      <4> QED  BY <4>4, <4>5
    <3> QED  BY <3>1, <3>2
  <2> QED  BY <2>3, <2>4, <2>5 DEF RollingUpdateCompared
<1> QED  BY <1>1, <1>2

(* What is known of a call that has returned.                              *)
LEMMA ReturnedFacts ==
  ASSUME TypeOK, SummaryIsExact, Returned
  PROVE  /\ dpl \in Deployment /\ hap \in PolicySpec
         /\ el = DeploymentErrors(dpl, hap) /\ ~ValidationPanics(dpl, hap)
  BY DeploymentsAssumption, PolicySpecsAssumption DEF TypeOK, SummaryIsExact

(* ValidateDeployment accepts the Deployments that adhere to the policy,   *)
(* and no others, for all Deployments and policies.                        *)
THEOREM AcceptanceIsAdherence == Spec => []AcceptedIffAdheres
<1>1. TypeOK /\ SummaryIsExact => AcceptedIffAdheres
  <2> SUFFICES ASSUME TypeOK, SummaryIsExact, Returned
               PROVE  el = {} <=> Adheres
    BY DEF AcceptedIffAdheres
  <2>1. el = {} <=> /\ ReplicaCountErrors(dpl, hap) = {}
                    /\ UpdateStrategyErrors(dpl, hap) = {}
                    /\ ResourceErrors(dpl, hap) = {}
    BY ReturnedFacts DEF DeploymentErrors
  <2> QED
    BY <2>1, ReturnedFacts, ReplicasSatisfied, StrategySatisfied, ResourcesSatisfied DEF Adheres
<1> QED  BY <1>1, TypeCorrect, SummaryCorrect, PTL

-----------------------------------------------------------------------------
(* What accepted Deployments do in the cluster.  The controller rounds     *)
(* otherwise than the validator; the lemmas on rounding say why its        *)
(* rollouts stay within what was validated.                                *)

(* A value the API server accepts, in pods.                                *)
LEMMA RoundedNonNegative ==
  ASSUME NEW v \in IntOrString, NEW n \in Nat, NonNegative(v)
  PROVE  /\ 0 <= RoundedDown(v, n) /\ RoundedDown(v, n) <= RoundedUp(v, n)
         /\ v.val > 0 /\ n > 0 => RoundedUp(v, n) >= 1
         /\ n = 0 => RoundedUp(v, n) >= 0
<1>1. v.val \in Nat
  BY DEF IntOrString, NonNegative
<1>2. CASE v.kind = "percent"
  <2>1. v.val * n \in Nat /\ (v.val > 0 /\ n > 0 => v.val * n >= 1)
    <3>1. v.val * n \in Nat
      BY <1>1, ProductMonotonic
    <3>2. v.val > 0 => 1 * n <= v.val * n
      BY <1>1, ProductMonotonic
    <3> QED  BY <1>1, <3>1, <3>2
  <2>2. /\ (v.val * n) \div 100 <= (v.val * n + 99) \div 100
        /\ 0 <= (v.val * n) \div 100
        /\ 1 <= v.val * n => 1 <= (v.val * n + 99) \div 100
        /\ (v.val * n) \div 100 \in Int /\ (v.val * n + 99) \div 100 \in Int
    BY <2>1, Hundredths
  <2> QED  BY <1>2, <2>1, <2>2 DEF RoundedUp, RoundedDown, CeilPercent, FloorPercent
<1>3. CASE v.kind # "percent"
  BY <1>1, <1>3 DEF RoundedUp, RoundedDown
<1> QED  BY <1>2, <1>3

(* Rounding down, the fallback to one pod and the cap at the replicas      *)
(* never come to more pods than rounding up.                               *)
LEMMA DownWithinRoundedUp ==
  ASSUME NEW s \in IntOrString, NEW u \in IntOrString, NEW n \in Nat,
         NonNegative(s), NonNegative(u), s.val > 0 \/ u.val > 0,
         NEW r \in Int,
         r = IF RoundedUp(s, n) = 0 /\ RoundedDown(u, n) = 0 THEN 1 ELSE RoundedDown(u, n)
  PROVE  (IF r > n THEN n ELSE r) <= RoundedUp(u, n)
<1>1. /\ RoundedUp(s, n) \in Int
      /\ RoundedUp(u, n) \in Int /\ RoundedDown(u, n) \in Int
      /\ s.val \in Int /\ u.val \in Int
  BY RoundedType DEF IntOrString
<1>2. CASE RoundedUp(s, n) = 0 /\ RoundedDown(u, n) = 0
  <2>1. n > 0 => RoundedUp(u, n) >= 1
    BY <1>1, <1>2, RoundedNonNegative
  <2>2. n = 0 => RoundedUp(u, n) >= 0
    BY RoundedNonNegative
  <2> QED  BY <1>1, <1>2, <2>1, <2>2
<1>3. CASE ~(RoundedUp(s, n) = 0 /\ RoundedDown(u, n) = 0)
  BY <1>1, <1>3, RoundedNonNegative
<1> QED  BY <1>2, <1>3

(* What is known of a rollout that a policy bounds.                        *)
LEMMA BoundedFacts ==
  ASSUME dpl \in Deployment, hap \in PolicySpec, NEW b \in BoundedRollouts
  PROVE  /\ b[1] \in dpl.strategy.rollingUpdate
         /\ b[2] \in PolicyRollingUpdates(hap)
         /\ b[3] \in dpl.replicas /\ b[3] \in Int
         /\ BoundsRead(dpl, hap)
<1>1. /\ b \in dpl.strategy.rollingUpdate \X PolicyRollingUpdates(hap) \X dpl.replicas
      /\ \E s \in hap.strategy : RollingUpdateCompared(dpl, s)
  BY DEF BoundedRollouts
<1>2. b[1] \in dpl.strategy.rollingUpdate /\ b[2] \in PolicyRollingUpdates(hap)
      /\ b[3] \in dpl.replicas
  BY <1>1
<1>3. b[3] \in Int
  BY <1>2, RolloutTypes
<1> QED  BY <1>1, <1>2, <1>3 DEF BoundsRead

(* An accepted Deployment is within the bounds of its policy.              *)
LEMMA AcceptedWithinBounds ==
  ASSUME TypeOK, SummaryIsExact, Accepted, NEW b \in BoundedRollouts
  PROVE  WithinBounds(b[1], b[2], b[3])
<1>1. BoundErrors(dpl, hap) = {}
  BY ReturnedFacts DEF Accepted, DeploymentErrors, UpdateStrategyErrors
<1> QED  BY <1>1, ReturnedFacts, BoundedFacts, BoundsSatisfied DEF Accepted

(* The one pair of values in a Deployment the API server has accepted.     *)
LEMMA ValidValues ==
  ASSUME dpl \in Deployment, ValidForKubernetes(dpl), dpl.strategy.type = RollingUpdateType,
         NEW ru \in dpl.strategy.rollingUpdate, NEW n \in dpl.replicas
  PROVE  /\ n \in Nat
         /\ ru.maxSurge \subseteq IntOrString /\ ru.maxUnavailable \subseteq IntOrString
         /\ ru.maxSurge # {} /\ ru.maxUnavailable # {}
         /\ \A s \in ru.maxSurge, u \in ru.maxUnavailable :
              NonNegative(s) /\ NonNegative(u) /\ (s.val > 0 \/ u.val > 0)
<1>1. ru.maxSurge \subseteq IntOrString /\ ru.maxUnavailable \subseteq IntOrString
  BY DEF Deployment, DeploymentRollingUpdate, Opt
<1>2. n \in Nat
  <2>1. dpl.replicas \in Opt(Int32)
    BY DEF Deployment
  <2>2. PICK m \in dpl.replicas : m >= 0
    BY DEF ValidForKubernetes
  <2>3. m = n /\ n \in Int
    BY <2>1, <2>2, ReplicaCounts DEF Opt
  <2> QED  BY <2>2, <2>3
<1>3. ru \in DeploymentRollingUpdate /\ \A x \in dpl.strategy.rollingUpdate : x = ru
  BY DEF Deployment, Opt
<1>4. /\ \A x, y \in ru.maxSurge : x = y
      /\ \A x, y \in ru.maxUnavailable : x = y
  BY <1>3 DEF DeploymentRollingUpdate, Opt
<1>5. PICK s \in ru.maxSurge, u \in ru.maxUnavailable :
        NonNegative(s) /\ NonNegative(u) /\ (s.val > 0 \/ u.val > 0)
  BY <1>3 DEF ValidForKubernetes
<1> QED  BY <1>1, <1>2, <1>4, <1>5

-----------------------------------------------------------------------------

(* The pods the controller takes down, whatever it rounds.                 *)
LEMMA PodsDownBounded ==
  ASSUME dpl \in Deployment, ValidForKubernetes(dpl), dpl.strategy.type = RollingUpdateType,
         NEW ru \in dpl.strategy.rollingUpdate, NEW n \in dpl.replicas,
         NEW down \in PodsDown(ru, n)
  PROVE  \E u \in ru.maxUnavailable : down <= RoundedUp(u, n) /\ down \in Int
<1>1. PICK s \in ru.maxSurge, u \in ru.maxUnavailable, r \in ResolvedUnavailable(ru, n) :
        /\ r = IF RoundedUp(s, n) = 0 /\ RoundedDown(u, n) = 0 THEN 1 ELSE RoundedDown(u, n)
        /\ down = IF r > n THEN n ELSE r
  BY DEF PodsDown, ResolvedUnavailable
<1>2. /\ n \in Nat /\ s \in IntOrString /\ u \in IntOrString
      /\ NonNegative(s) /\ NonNegative(u) /\ (s.val > 0 \/ u.val > 0)
  BY ValidValues
<1>3. r \in Int
  BY <1>1, <1>2, RoundedType
<1>4. down <= RoundedUp(u, n)
  BY <1>1, <1>2, <1>3, DownWithinRoundedUp
<1> QED  BY <1>1, <1>2, <1>3, <1>4

(* An accepted Deployment never has more pods down in a rollout than the   *)
(* policy's bound, in pods, allows.                                        *)
THEOREM RolloutsStayWithinPolicy == Spec => []RolloutStaysWithinPolicy
<1>1. TypeOK /\ SummaryIsExact => RolloutStaysWithinPolicy
  <2> SUFFICES ASSUME TypeOK, SummaryIsExact, Accepted, ValidForKubernetes(dpl),
                      NEW b \in BoundedRollouts, NEW bound \in b[2].maxUnavailable,
                      NEW down \in PodsDown(b[1], b[3])
               PROVE  down <= RoundedUp(bound, b[3])
    BY DEF RolloutStaysWithinPolicy
  <2>1. dpl \in Deployment /\ hap \in PolicySpec
    BY ReturnedFacts DEF Accepted
  <2>2. /\ b[1] \in dpl.strategy.rollingUpdate /\ b[2] \in PolicyRollingUpdates(hap)
        /\ b[3] \in dpl.replicas /\ b[3] \in Int /\ BoundsRead(dpl, hap)
    BY <2>1, BoundedFacts
  <2>3. dpl.strategy.type = RollingUpdateType
    BY <2>2 DEF BoundsRead, RollingUpdateCompared
  <2>4. PICK u \in b[1].maxUnavailable : down <= RoundedUp(u, b[3]) /\ down \in Int
    BY <2>1, <2>2, <2>3, PodsDownBounded
  <2>5. RoundedUp(u, b[3]) <= RoundedUp(bound, b[3])
    BY AcceptedWithinBounds DEF WithinBounds
  <2>6. RoundedUp(u, b[3]) \in Int /\ RoundedUp(bound, b[3]) \in Int
    <3>1. u \in IntOrString /\ bound \in IntOrString
      BY <2>1, <2>2, RolloutTypes
    <3> QED  BY <2>2, <3>1, RoundedType
  <2> QED  BY <2>4, <2>5, <2>6
<1> QED  BY <1>1, TypeCorrect, SummaryCorrect, PTL

-----------------------------------------------------------------------------

(* What a Deployment must be like for the default policy to accept it.     *)
LEMMA DefaultPolicyFacts ==
  ASSUME hap = DefaultPolicy
  PROVE  /\ hap.replicas = {2}
         /\ \E strategy \in hap.strategy : strategy.type = RollingUpdateType
         /\ \E hru \in PolicyRollingUpdates(hap) :
              /\ hru.minSurge = {FromPercent(25)}
              /\ hru.maxSurge = {FromPercent(100)}
              /\ hru.maxUnavailable = {FromInt(0)}
<1> DEFINE block == [minSurge       |-> {FromPercent(25)},
                     maxSurge       |-> {FromPercent(100)},
                     maxUnavailable |-> {FromInt(0)}]
           strategy == [type |-> RollingUpdateType, rollingUpdate |-> {block}]
<1>1. hap.replicas = {2} /\ hap.strategy = {strategy}
  BY DEF DefaultPolicy
<1>2. strategy.type = RollingUpdateType /\ strategy.rollingUpdate = {block}
  OBVIOUS
<1>3. /\ block.minSurge = {FromPercent(25)}
      /\ block.maxSurge = {FromPercent(100)}
      /\ block.maxUnavailable = {FromInt(0)}
  OBVIOUS
<1> HIDE DEF block, strategy
<1>4. block \in PolicyRollingUpdates(hap)
  BY <1>1, <1>2 DEF PolicyRollingUpdates
<1> QED  BY <1>1, <1>2, <1>3, <1>4

LEMMA DefaultPercentages ==
  ASSUME NEW n \in Nat, n >= 2
  PROVE  /\ RoundedUp(FromPercent(25), n) >= 1
         /\ RoundedUp(FromPercent(100), n) = n
         /\ RoundedUp(FromInt(0), n) = 0
  BY DEF RoundedUp, FromPercent, FromInt, CeilPercent

(* high_availability.yaml:13-19, for every Deployment: at least two        *)
(* replicas, a surge of one pod up to the replica count, none unavailable. *)
THEOREM DefaultPolicyHolds == Spec => []DefaultPolicyGuarantee
<1>1. TypeOK /\ SummaryIsExact /\ AcceptedIffAdheres => DefaultPolicyGuarantee
  <2> SUFFICES ASSUME TypeOK, SummaryIsExact, AcceptedIffAdheres, Accepted,
                      hap = DefaultPolicy, ValidForKubernetes(dpl)
               PROVE  \E n \in dpl.replicas : \E ru \in dpl.strategy.rollingUpdate :
                        /\ n >= 2
                        /\ ResolvedSurge(ru, n) \subseteq 1..n
                        /\ PodsDown(ru, n) = {0}
    BY DEF DefaultPolicyGuarantee
  <2>1. dpl \in Deployment /\ hap \in PolicySpec
    BY ReturnedFacts DEF Accepted
  <2>2. Adheres
    BY DEF AcceptedIffAdheres, Accepted
  <2>3. PICK n \in dpl.replicas : n >= 2
    BY <2>2, DefaultPolicyFacts DEF Adheres
  <2>4. PICK strategy \in hap.strategy : strategy.type = RollingUpdateType
    BY DefaultPolicyFacts
  <2>5. StrategyAdheres(strategy)
    BY <2>2 DEF Adheres
  <2>6. dpl.strategy.type = RollingUpdateType
    BY <2>4, <2>5 DEF StrategyAdheres
  <2>7. PICK ru \in dpl.strategy.rollingUpdate :
          \A hru \in strategy.rollingUpdate, m \in dpl.replicas : WithinBounds(ru, hru, m)
    BY <2>4, <2>5 DEF StrategyAdheres
  <2>8. PICK hru \in PolicyRollingUpdates(hap) :
          /\ hru.minSurge = {FromPercent(25)}
          /\ hru.maxSurge = {FromPercent(100)}
          /\ hru.maxUnavailable = {FromInt(0)}
    BY DefaultPolicyFacts
  <2>9. WithinBounds(ru, hru, n)
    <3>1. hru \in strategy.rollingUpdate
      BY <2>1, <2>8, RolloutTypes DEF PolicyRollingUpdates
    <3> QED  BY <2>7, <3>1
  <2>10. /\ n \in Nat
         /\ ru.maxSurge \subseteq IntOrString /\ ru.maxUnavailable \subseteq IntOrString
         /\ ru.maxSurge # {} /\ ru.maxUnavailable # {}
         /\ \A s \in ru.maxSurge, u \in ru.maxUnavailable : NonNegative(s) /\ NonNegative(u)
    BY <2>1, <2>6, ValidValues
  <2>11. \A s \in ru.maxSurge : RoundedUp(s, n) \in 1..n
    <3>1. \A s \in ru.maxSurge :
            /\ RoundedUp(s, n) \in Int
            /\ RoundedUp(FromPercent(25), n) <= RoundedUp(s, n)
            /\ RoundedUp(s, n) <= RoundedUp(FromPercent(100), n)
      BY <2>8, <2>9, <2>10, RoundedType DEF WithinBounds
    <3>2. /\ RoundedUp(FromPercent(25), n) \in Int
          /\ RoundedUp(FromPercent(25), n) >= 1 /\ RoundedUp(FromPercent(100), n) = n
      <4>1. FromPercent(25) \in IntOrString
        BY DEF FromPercent, IntOrString
      <4> QED  BY <2>3, <2>10, <4>1, RoundedType, DefaultPercentages
    <3> QED  BY <2>10, <3>1, <3>2
  <2>12. \A u \in ru.maxUnavailable : RoundedDown(u, n) = 0
    <3>1. \A u \in ru.maxUnavailable : RoundedUp(u, n) <= 0
      BY <2>3, <2>8, <2>9, <2>10, DefaultPercentages DEF WithinBounds
    <3>2. \A u \in ru.maxUnavailable :
            /\ RoundedUp(u, n) \in Int /\ RoundedDown(u, n) \in Int
            /\ 0 <= RoundedDown(u, n) /\ RoundedDown(u, n) <= RoundedUp(u, n)
      <4>1. \A u \in ru.maxUnavailable : u \in IntOrString /\ NonNegative(u)
        BY <2>10
      <4> SUFFICES ASSUME NEW u \in ru.maxUnavailable
                   PROVE  /\ RoundedUp(u, n) \in Int /\ RoundedDown(u, n) \in Int
                          /\ 0 <= RoundedDown(u, n) /\ RoundedDown(u, n) <= RoundedUp(u, n)
        OBVIOUS
      <4>2. u \in IntOrString /\ NonNegative(u) /\ n \in Nat
        BY <2>10, <4>1
      <4> QED  BY <4>2, RoundedType, RoundedNonNegative
    <3> QED  BY <3>1, <3>2
  <2>13. ResolvedSurge(ru, n) \subseteq 1..n
    BY <2>11 DEF ResolvedSurge
  <2>14. ResolvedUnavailable(ru, n) = {0}
    <3>1. \A s \in ru.maxSurge : RoundedUp(s, n) # 0
      BY <2>11
    <3> QED  BY <2>10, <2>12, <3>1 DEF ResolvedUnavailable
  <2>15. PodsDown(ru, n) = {0}
    BY <2>10, <2>14 DEF PodsDown
  <2> QED  BY <2>3, <2>13, <2>15
<1> QED  BY <1>1, TypeCorrect, SummaryCorrect, AcceptanceIsAdherence, PTL

-----------------------------------------------------------------------------

(* The API server refuses a negative replica count before it calls the     *)
(* webhook.                                                                *)
CountsAreNatural == \A d \in Deployments : \A n \in d.replicas : n >= 0

(* The errors of a call in which the bounds are in order.                  *)
LEMMA OtherPaths ==
  ASSUME NEW d \in Deployment, NEW p \in PolicySpec,
         NEW e \in DeploymentErrors(d, p),
         e.path \in {<<"minSurge">>, <<"maxSurge">>, <<"maxUnavailable">>}
  PROVE  /\ e \in BoundErrors(d, p) /\ BoundsRead(d, p)
         /\ e.path = <<"maxUnavailable">> => e \in UnavailableBoundErrors(d, p)
         /\ e.path # <<"maxUnavailable">> => e \in SurgeBoundErrors(d, p)
<1>0. \A path, detail : Invalid(path, detail).path = path
  BY DEF Invalid
<1>1. \A x \in ReplicaCountErrors(d, p) : x.path = <<"replicas">>
  <2>1. \A x \in ReplicaCountErrors(d, p) : \E detail : x = Invalid(<<"replicas">>, detail)
    BY Zenon DEF ReplicaCountErrors, AppendIf
  <2> QED  BY <1>0, <2>1
<1>2. \A x \in StrategyShapeErrors(d, p) :
        x.path \in {<<"strategy", "type">>, <<"strategy", "rollingUpdate">>}
  <2>1. \A x \in StrategyShapeErrors(d, p) :
          \/ \E detail : x = Invalid(<<"strategy", "type">>, detail)
          \/ \E detail : x = Invalid(<<"strategy", "rollingUpdate">>, detail)
    BY Zenon DEF StrategyShapeErrors, AppendIf
  <2> QED  BY <1>0, <2>1
<1>3. \A x \in ResourceErrors(d, p) : x.path[1] = "containers"
  <2>1. \A c, list, n : Missing(c, list, n).path[1] = "containers"
    BY DEF Missing, Invalid
  <2> QED  BY <2>1 DEF ResourceErrors, ContainerErrors
<1>4. \A x \in SurgeBoundErrors(d, p) : x.path \in {<<"minSurge">>, <<"maxSurge">>}
  <2>1. \A s, h, n : \A x \in MaxSurgeErrors(s, h, n) :
          \/ \E detail : x = Invalid(<<"minSurge">>, detail)
          \/ \E detail : x = Invalid(<<"maxSurge">>, detail)
    BY Zenon DEF MaxSurgeErrors, AppendIf
  <2>2. \A s, h, n : \A x \in MaxSurgeErrors(s, h, n) : x.path \in {<<"minSurge">>, <<"maxSurge">>}
    BY <1>0, <2>1
  <2> QED  BY <2>2 DEF SurgeBoundErrors
<1>5. \A x \in UnavailableBoundErrors(d, p) : x.path = <<"maxUnavailable">>
  <2>1. \A u, b, n : \A x \in MaxUnavailableErrors(u, b, n) :
          \E detail : x = Invalid(<<"maxUnavailable">>, detail)
    BY Zenon DEF MaxUnavailableErrors, AppendIf
  <2>2. \A u, b, n : \A x \in MaxUnavailableErrors(u, b, n) : x.path = <<"maxUnavailable">>
    BY <1>0, <2>1
  <2> QED  BY <2>2 DEF UnavailableBoundErrors
<1>6. e \notin ReplicaCountErrors(d, p) /\ e \notin StrategyShapeErrors(d, p)
  BY <1>1, <1>2
<1>7. e \notin ResourceErrors(d, p)
  BY <1>3
<1>8. e \in BoundErrors(d, p)
  BY <1>6, <1>7 DEF DeploymentErrors, UpdateStrategyErrors
<1>9. BoundsRead(d, p) /\ e \in SurgeBoundErrors(d, p) \cup UnavailableBoundErrors(d, p)
  BY <1>8 DEF BoundErrors
<1>10. <<"minSurge">> # <<"maxUnavailable">> /\ <<"maxSurge">> # <<"maxUnavailable">>
  OBVIOUS
<1> QED  BY <1>4, <1>5, <1>8, <1>9, <1>10

(* A rollout has one surge and one maxUnavailable, and a policy one of     *)
(* each bound.                                                             *)
LEMMA OneOfEach ==
  ASSUME dpl \in Deployment, hap \in PolicySpec, NEW b \in BoundedRollouts
  PROVE  /\ \A ru \in dpl.strategy.rollingUpdate : ru = b[1]
         /\ \A hru \in PolicyRollingUpdates(hap) : hru = b[2]
         /\ \A n \in dpl.replicas : n = b[3]
         /\ \A x, y \in b[1].maxSurge : x = y
         /\ \A x, y \in b[1].maxUnavailable : x = y
         /\ \A x, y \in b[2].maxUnavailable : x = y
<1>1. /\ b[1] \in dpl.strategy.rollingUpdate /\ b[2] \in PolicyRollingUpdates(hap)
      /\ b[3] \in dpl.replicas
  BY BoundedFacts
<1>2. \A ru \in dpl.strategy.rollingUpdate : ru = b[1] /\ ru \in DeploymentRollingUpdate
  BY <1>1 DEF Deployment, Opt
<1>3. \A n \in dpl.replicas : n = b[3]
  BY <1>1 DEF Deployment, Opt
<1>4. \A s, t \in hap.strategy : s = t /\ s.rollingUpdate \in Opt(PolicyRollingUpdate)
  BY DEF PolicySpec, PolicyStrategy, Opt
<1>5. \A hru \in PolicyRollingUpdates(hap) : hru = b[2] /\ hru \in PolicyRollingUpdate
  BY <1>1, <1>4 DEF PolicyRollingUpdates, Opt
<1>6. \A x, y \in b[1].maxSurge : x = y
  BY <1>1, <1>2 DEF DeploymentRollingUpdate, Opt
<1>7. \A x, y \in b[1].maxUnavailable : x = y
  BY <1>1, <1>2 DEF DeploymentRollingUpdate, Opt
<1>8. \A x, y \in b[2].maxUnavailable : x = y
  BY <1>1, <1>5 DEF PolicyRollingUpdate, Opt
<1> QED  BY <1>2, <1>3, <1>5, <1>6, <1>7, <1>8

(* Percentages in order as written are in order as pods, for every replica *)
(* count: rounding causes no error.                                        *)
THEOREM PercentagesCompare ==
  ASSUME CountsAreNatural
  PROVE  Spec => []PercentagesCompareAsDeclared
<1>1. TypeOK /\ SummaryIsExact => PercentagesCompareAsDeclared
  <2> SUFFICES ASSUME TypeOK, SummaryIsExact, Returned, NEW b \in BoundedRollouts
               PROVE  /\ \A s \in b[1].maxSurge :
                           SurgeInOrder(s, b[2]) =>
                             \A e \in el : e.path \notin {<<"minSurge">>, <<"maxSurge">>}
                      /\ \A u \in b[1].maxUnavailable, m \in b[2].maxUnavailable :
                           PercentInOrder(u, m) => \A e \in el : e.path # <<"maxUnavailable">>
    BY DEF PercentagesCompareAsDeclared
  <2>1. dpl \in Deployment /\ hap \in PolicySpec /\ el = DeploymentErrors(dpl, hap)
    BY ReturnedFacts
  <2>2. /\ b[1] \in dpl.strategy.rollingUpdate /\ b[2] \in PolicyRollingUpdates(hap)
        /\ b[3] \in dpl.replicas
    BY <2>1, BoundedFacts
  <2>3. b[3] \in Nat
    BY <2>1, <2>2, BoundedFacts DEF CountsAreNatural, TypeOK
  <2>4. /\ b[1].maxSurge \subseteq IntOrString /\ b[1].maxUnavailable \subseteq IntOrString
        /\ b[2] \in PolicyRollingUpdate /\ b[2].maxUnavailable \subseteq IntOrString
    BY <2>1, <2>2, RolloutTypes
  <2>5. ASSUME NEW s \in b[1].maxSurge, SurgeInOrder(s, b[2])
        PROVE  SurgeBoundErrors(dpl, hap) = {}
    <3>1. b[2].minSurge \subseteq IntOrString /\ b[2].maxSurge \subseteq IntOrString
      BY <2>4 DEF PolicyRollingUpdate, Opt
    <3>2. \A m \in b[2].minSurge : Readable(m) /\ RoundedUp(m, b[3]) <= RoundedUp(s, b[3])
      BY <2>3, <2>4, <2>5, <3>1, CeilMonotonic
         DEF SurgeInOrder, PercentInOrder, Readable, IsMalformed
    <3>3. \A m \in b[2].maxSurge : Readable(m) /\ RoundedUp(s, b[3]) <= RoundedUp(m, b[3])
      BY <2>3, <2>4, <2>5, <3>1, CeilMonotonic
         DEF SurgeInOrder, PercentInOrder, Readable, IsMalformed
    <3>4. Readable(s)
      BY <2>5 DEF SurgeInOrder, PercentInOrder, Readable, IsMalformed
    <3>5. MaxSurgeErrors(s, b[2], b[3]) = {}
      BY <2>3, <2>4, <3>2, <3>3, <3>4, SurgeSatisfied
    <3>6. \A ru \in dpl.strategy.rollingUpdate, hru \in PolicyRollingUpdates(hap), n \in dpl.replicas :
            \A x \in ru.maxSurge : x = s /\ hru = b[2] /\ n = b[3]
      BY <2>1, OneOfEach
    <3> QED  BY <3>5, <3>6 DEF SurgeBoundErrors
  <2>6. ASSUME NEW u \in b[1].maxUnavailable, NEW m \in b[2].maxUnavailable, PercentInOrder(u, m)
        PROVE  UnavailableBoundErrors(dpl, hap) = {}
    <3>1. Readable(u) /\ Readable(m) /\ RoundedUp(u, b[3]) <= RoundedUp(m, b[3])
      BY <2>3, <2>4, <2>6, CeilMonotonic DEF PercentInOrder, Readable, IsMalformed
    <3>2. MaxUnavailableErrors(u, m, b[3]) = {}
      BY <2>3, <2>4, <3>1, UnavailableSatisfied
    <3>3. \A ru \in dpl.strategy.rollingUpdate, hru \in PolicyRollingUpdates(hap), n \in dpl.replicas :
            \A x \in ru.maxUnavailable, y \in hru.maxUnavailable : x = u /\ y = m /\ n = b[3]
      BY <2>1, OneOfEach
    <3> QED  BY <3>2, <3>3 DEF UnavailableBoundErrors
  <2>7. <<"minSurge">> # <<"maxUnavailable">> /\ <<"maxSurge">> # <<"maxUnavailable">>
    OBVIOUS
  <2> QED  BY <2>1, <2>5, <2>6, <2>7, OtherPaths
<1> QED  BY <1>1, TypeCorrect, SummaryCorrect, PTL

=============================================================================
