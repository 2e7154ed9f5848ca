---------------------------- MODULE IntOrString ----------------------------
(***************************************************************************)
(* k8s.io/apimachinery/pkg/util/intstr, as the validators use it.          *)
(*                                                                         *)
(* External code: Gopkg.toml pins it to kubernetes-1.10.0 and it is not    *)
(* part of the repository.  A value is either a number of pods, or a       *)
(* string.  A string is read as a percentage once every "%" is removed, so *)
(* the strings "25%" and "25" are the same value and "0" is zero percent   *)
(* (deployment_validation_test.go:61 relies on that).  A string that is no *)
(* number then is malformed and yields an error.                           *)
(***************************************************************************)
EXTENDS Integers

IntOrString == [kind : {"int", "percent", "malformed"}, val : Int]

FromInt(n)     == [kind |-> "int",       val |-> n]
FromPercent(n) == [kind |-> "percent",   val |-> n]
Malformed      == [kind |-> "malformed", val |-> 0]

IsMalformed(v) == v.kind = "malformed"

CeilPercent(p, total)  == (p * total + 99) \div 100
FloorPercent(p, total) == (p * total) \div 100

(* GetValueFromIntOrPercent(v, total, true) for a well-formed v.  The      *)
(* library computes with float64 and Ceil; the product of two integers     *)
(* below 2^53 is exact there, so the result is the integer ceiling.        *)
RoundedUp(v, total) ==
  IF v.kind = "percent" THEN CeilPercent(v.val, total) ELSE v.val

(* The same call with roundUp = false.  The repository never makes it; the *)
(* Kubernetes deployment controller does, for maxUnavailable.              *)
RoundedDown(v, total) ==
  IF v.kind = "percent" THEN FloorPercent(v.val, total) ELSE v.val

=============================================================================
