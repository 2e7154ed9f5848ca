---------------------------- MODULE MCPolicyCache ----------------------------
(***************************************************************************)
(* Instances of PolicyCache: policies with a replica count and a maximum   *)
(* surge, some of them outside of the informer's namespace or selection.   *)
(***************************************************************************)
EXTENDS PolicyCache, TLC

Key(ns, name) == [namespace |-> ns, name |-> name]

MCKeys == {Key("team", "one"), Key("other", "one")}

Policy(label, replicas, surge) ==
  [label |-> label,
   fields |-> [f \in PointerFields |->
     CASE f = "replicas" -> replicas
       [] f = "maxSurge" -> surge
       [] f \in {"strategy", "rollingUpdate"} -> {"old"}
       [] OTHER -> {}]]

MCServerPolicies ==
  {Policy("selected", {"old"}, {"old"}), Policy("selected", {"new"}, {}), Policy("ignored", {"old"}, {"old"})}

(* Identities and goroutines are interchangeable.                          *)
Symmetry == Permutations(Ids) \cup Permutations(Callers)

=============================================================================
