---------------------------- MODULE MCFakeClient ----------------------------
(***************************************************************************)
(* An instance of FakeClient: two goroutines that get at the same policies *)
(* through the two accessors, and a watcher whose channel holds one event. *)
(* So a second event is a panic, and no two are ever queued; the order in  *)
(* a longer channel is left to FakeClientProofs.                           *)
(***************************************************************************)
EXTENDS FakeClient

CONSTANTS tester, tested, watcher

MCCallers == {tester, tested}

MCAccessor == (tester :> "BarbossaV1alpha1") @@ (tested :> "Barbossa")

MCMethods ==
  (tester :> {"Create", "Delete", "Get", "DeleteCollection"}) @@ (tested :> {"Update", "List", "Patch"})

MCScopes == (tester :> {"team"}) @@ (tested :> {"team", "other", ""}) @@ (watcher :> {"team", ""})

MCKeys == {[namespace |-> ns, name |-> "one"] : ns \in {"team", "other"}}

MCWritten == [Create |-> {"old"}, Update |-> {"new"}, Patch |-> {"new"}]

MCMaxActions == [clientset |-> 3, discovery |-> 1]

MCSelectors == {{"old"}}

=============================================================================
