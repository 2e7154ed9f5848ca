--------------------------- MODULE MCPolicyClient ---------------------------
(***************************************************************************)
(* An instance of PolicyClient: one policy in each of two namespaces, a    *)
(* goroutine that edits what it reads and one that writes without a look.  *)
(***************************************************************************)
EXTENDS PolicyClient, TLC

CONSTANTS editor, writer

MCCallers == {editor, writer}

MCMethods ==
  (editor :> {"Get", "List", "Update", "DeleteCollection"}) @@ (writer :> {"Create", "Patch", "Delete"})

MCScopes == (editor :> {"team", ""}) @@ (writer :> {"team", "other"})

MCKeys == {[namespace |-> ns, name |-> "one"] : ns \in {"team", "other"}}

MCWritten == [Create |-> {"old"}, Update |-> {"new"}, Patch |-> {"new"}]

MCSelectors == {{"old"}}

=============================================================================
