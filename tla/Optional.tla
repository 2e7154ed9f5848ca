------------------------------ MODULE Optional ------------------------------
(***************************************************************************)
(* Go pointers that may be nil.                                            *)
(*                                                                         *)
(* A pointer-typed field is modelled as a set with at most one element:    *)
(* {} is nil, {x} is a pointer to x.  Reading through the pointer is then  *)
(* a quantifier ("\E x \in field : ..."), and a nil check is "field = {}". *)
(***************************************************************************)

Opt(S) == {o \in SUBSET S : \A x, y \in o : x = y}

=============================================================================
