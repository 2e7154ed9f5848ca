------------------------ MODULE DeploymentValidation ------------------------
(***************************************************************************)
(* apis/barbossa/v1alpha1/validation/deployment_validation.go.             *)
(*                                                                         *)
(* Every validator takes the error list and returns it, perhaps with       *)
(* errors appended.  Here each one is the set of the errors it appends:    *)
(* the list is only ever turned into an aggregate, which drops duplicates, *)
(* and its order already depends on Go's random map iteration.             *)
(* A nil dereference is no error value: ValidationPanics says when it        *)
(* happens, and the errors of such a call are never seen.                  *)
(***************************************************************************)
EXTENDS PolicyTypes

(* The fields the validators report, without the leading "spec", and what  *)
(* they say about them, without the values.                                *)
FieldPaths ==
  {<<"replicas">>, <<"strategy", "type">>, <<"strategy", "rollingUpdate">>,
   <<"minSurge">>, <<"maxSurge">>, <<"maxUnavailable">>}
  \cup ({"containers"} \X STRING \X {"requests", "limits"} \X STRING)

Details == {"is required", "should be", "should be at least", "should be at most",
            "invalid value"}

FieldError == [path : FieldPaths, detail : Details]

Invalid(path, detail) == [path |-> path, detail |-> detail]

(* "if cond { el = append(el, err) }"                                      *)
AppendIf(cond, err) == IF cond THEN {err} ELSE {}

(* Mutant: the minimum itself is refused.                                  *)
ReplicaCountErrorsStrict(dpl, hap) ==
  AppendIf(\E minimum \in hap.replicas : \A n \in dpl.replicas : n <= minimum,
           Invalid(<<"replicas">>, "should be at least"))

(* Mutant: one replica less than the minimum will do.                      *)
ReplicaCountErrorsOffByOne(dpl, hap) ==
  AppendIf(\E minimum \in hap.replicas : \A n \in dpl.replicas : n + 1 < minimum,
           Invalid(<<"replicas">>, "should be at least"))

ReplicaCountErrors(dpl, hap) ==
  AppendIf(hap.replicas # {} /\ dpl.replicas = {},
           Invalid(<<"replicas">>, "is required"))
  \cup
  AppendIf(\E minimum \in hap.replicas, n \in dpl.replicas : n < minimum,
           Invalid(<<"replicas">>, "should be at least"))

(* hap.minSurge <= dpl.maxSurge <= hap.maxSurge, at most one error: every  *)
(* failing test returns.  surge is the Deployment's maxSurge, hru the      *)
(* policy's rolling-update block.                                          *)
MaxSurgeErrors(surge, hru, reps) ==
  LET val       == RoundedUp(surge, reps)
      minRead   == ~IsMalformed(surge)
      minUnread == \E m \in hru.minSurge : IsMalformed(m)
      below     == \E m \in hru.minSurge : val < RoundedUp(m, reps)
      maxRead   == minRead /\ ~minUnread /\ ~below
      maxUnread == \E m \in hru.maxSurge : IsMalformed(m)
      above     == \E m \in hru.maxSurge : val > RoundedUp(m, reps)
  IN  AppendIf(IsMalformed(surge), Invalid(<<"maxSurge">>, "invalid value"))
      \cup AppendIf(minRead /\ minUnread, Invalid(<<"minSurge">>, "invalid value"))
      \cup AppendIf(minRead /\ ~minUnread /\ below,
                    Invalid(<<"maxSurge">>, "should be at least"))
      \cup AppendIf(maxRead /\ maxUnread, Invalid(<<"maxSurge">>, "invalid value"))
      \cup AppendIf(maxRead /\ ~maxUnread /\ above,
                    Invalid(<<"maxSurge">>, "should be at most"))

(* Mutant: the Deployment's value is rounded down, as the controller does. *)
MaxUnavailableErrorsRoundedDown(unavailable, bound, reps) ==
  LET unread == IsMalformed(unavailable) \/ IsMalformed(bound)
  IN  AppendIf(unread, Invalid(<<"maxUnavailable">>, "invalid value"))
      \cup AppendIf(~unread /\ RoundedDown(unavailable, reps) > RoundedUp(bound, reps),
                    Invalid(<<"maxUnavailable">>, "should be at most"))

(* Mutant: the policy's value is rounded down, the Deployment's is not.    *)
MaxUnavailableErrorsMixed(unavailable, bound, reps) ==
  LET unread == IsMalformed(unavailable) \/ IsMalformed(bound)
  IN  AppendIf(unread, Invalid(<<"maxUnavailable">>, "invalid value"))
      \cup AppendIf(~unread /\ RoundedUp(unavailable, reps) > RoundedDown(bound, reps),
                    Invalid(<<"maxUnavailable">>, "should be at most"))

(* dpl.maxUnavailable <= hap.maxUnavailable, with both values present.     *)
MaxUnavailableErrors(unavailable, bound, reps) ==
  LET unread == IsMalformed(unavailable) \/ IsMalformed(bound)
  IN  AppendIf(unread, Invalid(<<"maxUnavailable">>, "invalid value"))
      \cup AppendIf(~unread /\ RoundedUp(unavailable, reps) > RoundedUp(bound, reps),
                    Invalid(<<"maxUnavailable">>, "should be at most"))

RollingUpdateCompared(dpl, strategy) ==
  dpl.strategy.type = strategy.type /\ dpl.strategy.type = RollingUpdateType

(* The type and presence tests that come before the bounds are read.       *)
StrategyShapeErrors(dpl, hap) ==
  AppendIf(\E s \in hap.strategy : dpl.strategy.type # s.type,
           Invalid(<<"strategy", "type">>, "should be"))
  \cup
  AppendIf(/\ \E s \in hap.strategy : RollingUpdateCompared(dpl, s)
           /\ dpl.strategy.rollingUpdate = {},
           Invalid(<<"strategy", "rollingUpdate">>, "is required"))

(* validateMaxSurge and validateMaxUnavailable are reached.  Without a     *)
(* replica count the function has returned before them.                    *)
BoundsRead(dpl, hap) ==
  /\ \E s \in hap.strategy : RollingUpdateCompared(dpl, s)
  /\ dpl.strategy.rollingUpdate # {}
  /\ dpl.replicas # {}

PolicyRollingUpdates(hap) == UNION {s.rollingUpdate : s \in hap.strategy}

(* Everything validateMaxSurge appends once it is reached.                 *)
SurgeBoundErrors(dpl, hap) ==
  UNION {MaxSurgeErrors(surge, hru, reps)
         : surge \in UNION {ru.maxSurge : ru \in dpl.strategy.rollingUpdate},
           hru   \in PolicyRollingUpdates(hap),
           reps  \in dpl.replicas}

(* Everything validateMaxUnavailable appends once it is reached.           *)
UnavailableBoundErrors(dpl, hap) ==
  UNION {MaxUnavailableErrors(unavailable, bound, reps)
         : unavailable \in UNION {ru.maxUnavailable : ru \in dpl.strategy.rollingUpdate},
           bound       \in UNION {hru.maxUnavailable : hru \in PolicyRollingUpdates(hap)},
           reps        \in dpl.replicas}

(* validateMaxSurge reads the Deployment's maxSurge, and, unless that is   *)
(* malformed, the policy's rolling-update block, without a nil check.      *)
SurgePanics(dpl, hap) ==
  \E ru \in dpl.strategy.rollingUpdate :
    \/ ru.maxSurge = {}
    \/ PolicyRollingUpdates(hap) = {} /\ \E v \in ru.maxSurge : ~IsMalformed(v)

(* validateMaxUnavailable reads the policy's rolling-update block, and,    *)
(* when that bounds it, the Deployment's maxUnavailable.                   *)
UnavailablePanics(dpl, hap) ==
  \/ PolicyRollingUpdates(hap) = {}
  \/ \E ru \in dpl.strategy.rollingUpdate, hru \in PolicyRollingUpdates(hap) :
       hru.maxUnavailable # {} /\ ru.maxUnavailable = {}

(* The whole call ends in a nil dereference.                               *)
ValidationPanics(dpl, hap) ==
  BoundsRead(dpl, hap) /\ (SurgePanics(dpl, hap) \/ UnavailablePanics(dpl, hap))

BoundErrors(dpl, hap) ==
  IF BoundsRead(dpl, hap)
  THEN SurgeBoundErrors(dpl, hap) \cup UnavailableBoundErrors(dpl, hap)
  ELSE {}

UpdateStrategyErrors(dpl, hap) ==
  StrategyShapeErrors(dpl, hap) \cup BoundErrors(dpl, hap)

Missing(container, list, name) ==
  Invalid(<<"containers", container.name, list, name>>, "is required")

RequiredIn(resourceList) == {e.name : e \in {x \in resourceList : x.required}}

ContainerErrors(c, hap) ==
  UNION {{Missing(c, "requests", n) : n \in RequiredIn(res.requests) \ c.requests}
         \cup {Missing(c, "limits", n) : n \in RequiredIn(res.limits) \ c.limits}
         : res \in hap.resources}

ResourceErrors(dpl, hap) == UNION {ContainerErrors(c, hap) : c \in dpl.containers}

(* What ValidateDeployment returns when it returns.                        *)
DeploymentErrors(dpl, hap) ==
  ReplicaCountErrors(dpl, hap)
    \cup UpdateStrategyErrors(dpl, hap)
    \cup ResourceErrors(dpl, hap)

=============================================================================
