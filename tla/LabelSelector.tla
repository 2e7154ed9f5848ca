--------------------------- MODULE LabelSelector ---------------------------
(***************************************************************************)
(* metav1.LabelSelector, metav1.LabelSelectorAsSelector and                *)
(* labels.Selector.Matches (external: k8s.io/apimachinery), as             *)
(* internal/webhooks/high_availability.go calls them.                      *)
(*                                                                         *)
(* A label map is the set of its entries.  A selector is the set of its    *)
(* requirements; an entry key: value of matchLabels is the requirement     *)
(* key In {value}.  A nil selector and an empty one are different: nil     *)
(* selects nothing, empty selects everything.                              *)
(***************************************************************************)
EXTENDS Optional

Label       == [key : STRING, value : STRING]
Requirement == [key : STRING, operator : STRING, values : SUBSET STRING]
Selector    == Opt(SUBSET Requirement)

MatchLabel(k, v) == [key |-> k, operator |-> "In", values |-> {v}]

(* labels.NewRequirement: the set operators need values, the existence     *)
(* operators take none, and no other operator is known.                    *)
WellFormedRequirement(q) ==
  \/ q.operator \in {"In", "NotIn"} /\ q.values # {}
  \/ q.operator \in {"Exists", "DoesNotExist"} /\ q.values = {}

(* LabelSelectorAsSelector returns an error.                               *)
InvalidSelector(sel) ==
  \E reqs \in sel : \E q \in reqs : ~WellFormedRequirement(q)

Satisfies(labels, q) ==
  LET found == {l \in labels : l.key = q.key}
  IN  \/ q.operator = "In"           /\ \E l \in found : l.value \in q.values
      \/ q.operator = "NotIn"        /\ \A l \in found : l.value \notin q.values
      \/ q.operator = "Exists"       /\ found # {}
      \/ q.operator = "DoesNotExist" /\ found = {}

Matches(sel, labels) ==
  \E reqs \in sel : \A q \in reqs : Satisfies(labels, q)

=============================================================================
