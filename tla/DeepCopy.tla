------------------------------ MODULE DeepCopy ------------------------------
(***************************************************************************)
(* apis/barbossa/v1alpha1/zz_generated.deepcopy.go on an explicit memory.  *)
(*                                                                         *)
(* A policy in memory is its identity, its labels and its pointers; maps   *)
(* are pointers as well.  The cell a pointer leads to is named after the   *)
(* object it was allocated with and the field it was allocated for, and    *)
(* its content lies in a heap.  "*out = *in" copies the pointers alone.    *)
(***************************************************************************)
EXTENDS Optional

(* The pointers and maps that each DeepCopyInto allocates anew.            *)
CopiedBySpec == {"selector", "replicas", "strategy", "resources"}
CopiedByStrategy == {"rollingUpdate"}
CopiedByRollingUpdate == {}
CopiedByResources == {"requests", "limits"}

RollingUpdatePointers == {"minSurge", "maxSurge", "maxUnavailable"}

PointerFields ==
  CopiedBySpec \cup CopiedByStrategy \cup RollingUpdatePointers \cup CopiedByResources

CopiedFields ==
  CopiedBySpec \cup CopiedByStrategy \cup CopiedByRollingUpdate \cup CopiedByResources

SharedFields == PointerFields \ CopiedFields

Address(Ids) == Ids \X PointerFields

Pointers(Ids) ==
  {ptr \in [PointerFields -> Opt(Address(Ids))] :
     \A f \in PointerFields : \A a \in ptr[f] : a[2] = f}

Object(Ids, Labels) == [id : Ids, label : Labels, ptr : Pointers(Ids)]

(* Mutant: Spec.DeepCopyInto forgets the replicas.                         *)
DeepCopyWithoutReplicas(in, id) ==
  [id |-> id, label |-> in.label,
   ptr |-> [f \in PointerFields |->
              IF f \in CopiedFields \ {"replicas"} /\ in.ptr[f] # {} THEN {<<id, f>>} ELSE in.ptr[f]]]

(* HighAvailabilityPolicy.DeepCopy, as a new object named id.              *)
DeepCopy(in, id) ==
  [id |-> id, label |-> in.label,
   ptr |-> [f \in PointerFields |->
              IF f \in CopiedFields /\ in.ptr[f] # {} THEN {<<id, f>>} ELSE in.ptr[f]]]

=============================================================================
