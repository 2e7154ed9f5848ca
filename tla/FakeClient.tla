----------------------------- MODULE FakeClient -----------------------------
(***************************************************************************)
(* The fake clientset for tests: pkg/client/generated/clientset/versioned, *)
(* fake/clientset_generated.go and typed/barbossa/v1alpha1/fake.           *)
(*                                                                         *)
(* Every method turns its arguments into an action and hands it to a       *)
(* testing.Fake, which records it and has a reactor apply it to an object  *)
(* tracker, all under its lock.  Watchers are told of the changes through  *)
(* channels of a fixed capacity.                                           *)
(***************************************************************************)
EXTENDS Optional, Naturals, Sequences, SequencesExt

CONSTANTS
  Callers,      \* goroutines of a test that use the clientset
  Accessor,     \* for each of them, the accessor of the clientset it uses
  Methods,      \* for each of them, the methods it calls
  Watchers,     \* goroutines that watch
  Scopes,       \* for all of them, the namespaces they have a client for, "" for all
  Keys,         \* namespace and name of the policies
  Labels,       \* the contents of a policy: what selectors can tell apart
  Written,      \* for each writing method, the labels it sets
  Selectors,    \* the label sets that list options select
  Capacity,     \* of a watcher's channel: watch.DefaultChanSize
  MaxActions    \* for each Fake, the bound of the actions it records

Fakes == {"clientset", "discovery"}

Writing == {"Create", "Update", "Patch"}

AllMethods == {"Get", "List", "Delete", "DeleteCollection"} \cup Writing

Namespaces == {k.namespace : k \in Keys} \cup {""}

ASSUME KeysAssumption ==
  Keys # {} /\ \A k \in Keys : k = [namespace |-> k.namespace, name |-> k.name] /\ "" \notin {k.namespace, k.name}
ASSUME MethodsAssumption == Methods \in [Callers -> SUBSET AllMethods] /\ \E c \in Callers : Methods[c] # {}
ASSUME ScopesAssumption == Scopes \in [Callers \cup Watchers -> SUBSET Namespaces]
ASSUME WrittenAssumption == Written \in [Writing -> SUBSET Labels]
ASSUME SelectorsAssumption == Labels # {} /\ Selectors \subseteq SUBSET Labels
ASSUME BoundsAssumption == Capacity \in Nat /\ MaxActions \in [Fakes -> Nat]
ASSUME AccessorAssumption == Accessor \in [Callers -> {"BarbossaV1alpha1", "Barbossa"}]

Policy == [key : Keys, label : Labels]

VARIABLES
  given,      \* history: what NewSimpleClientset was given
  objects,    \* the policies in the tracker
  actions,    \* what each Fake has recorded
  holder,     \* the caller that holds the lock of each Fake
  watches,    \* of each watcher: what it watches, its channel, what it has been told
  call,       \* of each caller, the method called and its arguments
  outcome,    \* of each caller, the answer, once there is one
  running     \* no goroutine has panicked

vars == <<given, objects, actions, holder, watches, call, outcome, running>>

-----------------------------------------------------------------------------
(* The actions, as package testing builds them from a method's arguments.  *)

Action(verb, namespace, name, label) ==
  [verb |-> verb, namespace |-> namespace, name |-> name, label |-> label]

Get(o) == Action("get", o.namespace, {o.name}, {})

List(o) == Action("list", o.namespace, {}, {})

Create(o) == Action("create", o.namespace, {o.body.key.name}, {o.body.label})

Update(o) == Action("update", o.namespace, {o.body.key.name}, {o.body.label})

Delete(o) == Action("delete", o.namespace, {o.name}, {})

(* Mutant: built like the action of a single deletion.                     *)
DeleteCollectionByName(o) == Action("delete-collection", o.namespace, {o.name}, {})

DeleteCollection(o) == Action("delete-collection", o.namespace, {}, {})

Patch(o) == Action("patch", o.namespace, {o.name}, {o.body.label})

ActionOf(o) ==
  CASE o.method = "Get"              -> Get(o)
    [] o.method = "List"             -> List(o)
    [] o.method = "Create"           -> Create(o)
    [] o.method = "Update"           -> Update(o)
    [] o.method = "Delete"           -> Delete(o)
    [] o.method = "DeleteCollection" -> DeleteCollection(o)
    [] o.method = "Patch"            -> Patch(o)

Op(method, namespace, name, labels, body) ==
  [method |-> method, namespace |-> namespace, name |-> name, labels |-> labels, body |-> body]

Blank == [key |-> CHOOSE k \in Keys : TRUE, label |-> CHOOSE l \in Labels : TRUE]

Reaches(c) == {k \in Keys : k.namespace \in Scopes[c]}

(* A policy is created and updated in the namespace it names.              *)
Naming(method, k, label) == Op(method, k.namespace, k.name, Labels, [key |-> k, label |-> label])

Selecting(method, namespace, labels) == Op(method, namespace, "", labels, Blank)

Asked(c) ==
  {Naming(m, k, Blank.label) : m \in {"Get", "Delete"}, k \in Reaches(c)}
  \cup (UNION {{Naming(m, k, l) : k \in Reaches(c), l \in Written[m]} : m \in Writing})
  \cup {Selecting(m, ns, ls) : m \in {"List", "DeleteCollection"}, ns \in Scopes[c], ls \in Selectors}

Ops(c) == {o \in Asked(c) : o.method \in Methods[c]}

-----------------------------------------------------------------------------
(* The tracker and its reactors.                                           *)

Matching(a) ==
  {k \in Keys : /\ a.namespace = "" \/ k.namespace = a.namespace
                /\ a.name = {} \/ k.name \in a.name
                /\ objects[k] # {}}

(* The actions that ObjectReaction knows; others are left to the default,  *)
(* an empty result without an error.                                       *)
Handled == {"get", "list", "create", "update", "delete"}

Failure(a) ==
  CASE a.verb = "create" /\ Matching(a) # {}                     -> "alreadyExists"
    [] a.verb \in {"get", "update", "delete"} /\ Matching(a) = {} -> "notFound"
    [] OTHER                                                     -> "ok"

Applied(tracked, a) ==
  [k \in Keys |->
     IF k.namespace = a.namespace /\ {k.name} = a.name
     THEN CASE a.verb = "create" /\ tracked[k] = {} -> a.label
            [] a.verb = "update" /\ tracked[k] # {} -> a.label
            [] a.verb = "delete"                    -> {}
            [] OTHER                                -> tracked[k]
     ELSE tracked[k]]

Contents(tracked, ks) == {p \in Policy : p.key \in ks /\ p.label \in tracked[p.key]}

(* The watchers of all namespaces and those of the one that changes.       *)
Told(a) ==
  {w \in Watchers : /\ a.verb \in {"create", "update", "delete"} /\ Failure(a) = "ok"
                    /\ \E x \in watches[w] : x.namespace \in {"", a.namespace}}

Event(a) ==
  LET k == CHOOSE k \in Keys : k.namespace = a.namespace /\ {k.name} = a.name
  IN  [key |-> k, label |-> Applied(objects, a)[k]]

-----------------------------------------------------------------------------

(* Mutant: one accessor hands out a copy of the Fake.                      *)
FakeOfCopied(accessor) == IF accessor = "Barbossa" THEN "discovery" ELSE "clientset"

(* Both accessors hand out the Fake embedded in the clientset.             *)
FakeOf(accessor) == "clientset"

(* NewSimpleClientset: two Fakes with a lock and a record each. The one in *)
(* the clientset is a copy of the one its discovery client keeps.          *)
Init ==
  /\ given \in [Keys -> Opt(Written["Create"])]
  /\ objects = given
  /\ actions = [f \in Fakes |-> <<>>]
  /\ holder = [f \in Fakes |-> {}]
  /\ watches = [w \in Watchers |-> {}]
  /\ call = [c \in Callers |-> {}]
  /\ outcome = [c \in Callers |-> {}]
  /\ running = TRUE

Call(c, o) ==
  /\ running /\ call[c] = {}
  /\ call' = [call EXCEPT ![c] = {o}]
  /\ UNCHANGED <<given, objects, actions, holder, watches, outcome, running>>

Recorded(f, a) ==
  /\ holder[f] = {} /\ Len(actions[f]) < MaxActions[f]
  /\ actions' = [actions EXCEPT ![f] = Append(@, a)]

(* Invokes takes the lock and records the action.                          *)
Invoke(c) ==
  /\ running /\ outcome[c] = {}
  /\ \E o \in call[c] : Recorded(FakeOf(Accessor[c]), ActionOf(o))
  /\ holder' = [holder EXCEPT ![FakeOf(Accessor[c])] = {c}]
  /\ UNCHANGED <<given, objects, watches, call, outcome, running>>

(* Mutant: the list options are forgotten.                                 *)
SelectedAll(o, ps) == ps

(* List returns the items that match the label selector.                   *)
Selected(o, ps) == {p \in ps : o.method = "List" => p.label \in o.labels}

(* What the reactor answers with, from the tracker as it is afterwards.    *)
Found(a) ==
  IF Failure(a) # "ok" \/ a.verb \in {"delete", "delete-collection", "patch"} THEN {}
  ELSE IF a.verb = "create" THEN {Event(a).key} ELSE Matching(a)

Full(a) == \E w \in Told(a) : \E x \in watches[w] : Len(x.events) >= Capacity

(* The reactor applies the action, and the lock is released. What the      *)
(* tracker returns is a copy, so that List can go on with it at leisure.   *)
React(c) ==
  /\ running /\ holder[FakeOf(Accessor[c])] = {c}
  /\ \E o \in call[c] :
       IF Full(ActionOf(o))
       THEN /\ running' = FALSE   \* panic: channel full
            /\ UNCHANGED <<objects, watches, outcome, holder>>
       ELSE /\ objects' = Applied(objects, ActionOf(o))
            /\ watches' = [w \in Watchers |->
                 IF w \in Told(ActionOf(o))
                 THEN {[x EXCEPT !.events = Append(@, Event(ActionOf(o)))] : x \in watches[w]}
                 ELSE watches[w]]
            /\ outcome' = [outcome EXCEPT ![c] =
                 {[kind |-> Failure(ActionOf(o)),
                   objects |-> Selected(o, Contents(objects', Found(ActionOf(o))))]}]
            /\ holder' = [holder EXCEPT ![FakeOf(Accessor[c])] = {}]
            /\ UNCHANGED running
  /\ UNCHANGED <<given, actions, call>>

Return(c) ==
  /\ running /\ outcome[c] # {}
  /\ call' = [call EXCEPT ![c] = {}]
  /\ outcome' = [outcome EXCEPT ![c] = {}]
  /\ UNCHANGED <<given, objects, actions, holder, watches, running>>

Within(namespace, tracked) ==
  [k \in Keys |-> IF namespace \in {"", k.namespace} THEN tracked[k] ELSE {}]

(* Mutant: the reactor forgets the namespace.                              *)
WatchReactorEverywhere(namespace) == ""

(* The reactor for watches passes on the namespace, and no list options.   *)
WatchReactor(namespace) == namespace

Watch(w, namespace) ==
  /\ running /\ watches[w] = {}
  /\ Recorded("clientset", Action("watch", namespace, {}, {}))
  /\ watches' = [watches EXCEPT ![w] =
       {[namespace |-> WatchReactor(namespace), asked |-> namespace, events |-> <<>>,
         seen |-> Within(namespace, objects)]}]
  /\ UNCHANGED <<given, objects, holder, call, outcome, running>>

Consume(w) ==
  /\ running
  /\ \E x \in watches[w] :
       /\ x.events # <<>>
       /\ watches' = [watches EXCEPT ![w] =
            {[x EXCEPT !.events = Tail(@), !.seen[Head(x.events).key] = Head(x.events).label]}]
  /\ UNCHANGED <<given, objects, actions, holder, call, outcome, running>>

(* A stopped watch stays with the tracker, but takes no more events.       *)
Stop(w) ==
  /\ running /\ watches[w] # {}
  /\ watches' = [watches EXCEPT ![w] = {}]
  /\ UNCHANGED <<given, objects, actions, holder, call, outcome, running>>

(* The discovery client records its calls in a Fake of its own.            *)
Discover ==
  /\ running
  /\ Recorded("discovery", Action("get", "", {}, {}))
  /\ UNCHANGED <<given, objects, holder, watches, call, outcome, running>>

Next ==
  \/ \E c \in Callers : (\E o \in Ops(c) : Call(c, o)) \/ Invoke(c) \/ React(c) \/ Return(c)
  \/ \E w \in Watchers : (\E ns \in Scopes[w] : Watch(w, ns)) \/ Consume(w) \/ Stop(w)
  \/ Discover

Spec == Init /\ [][Next]_vars

-----------------------------------------------------------------------------

Names == {k.name : k \in Keys}

TypeOK ==
  /\ given \in [Keys -> Opt(Labels)] /\ objects \in [Keys -> Opt(Labels)]
  /\ \A f \in Fakes : \A i \in 1..Len(actions[f]) :
       actions[f][i] \in [verb : Handled \cup {"patch", "delete-collection", "watch"},
                          namespace : Namespaces, name : Opt(Names), label : Opt(Labels)]
  /\ holder \in [Fakes -> Opt(Callers)]
  /\ \A w \in Watchers : \A x \in watches[w] :
       /\ Len(x.events) <= Capacity
       /\ \A i \in 1..Len(x.events) : x.events[i] \in [key : Keys, label : Opt(Labels)]
       /\ x.seen \in [Keys -> Opt(Labels)]
  /\ \A c \in Callers :
       outcome[c] \in Opt([kind : {"ok", "notFound", "alreadyExists"}, objects : SUBSET Policy])
  /\ running \in BOOLEAN

(* The calls of the methods that a reactor handles.                        *)
Tracked(c) == {o \in call[c] : ActionOf(o).verb \in Handled}

Api == INSTANCE PolicyApi WITH
  Operations <- [method : UNION {Methods[c] : c \in Callers}, namespace : Namespaces,
                 name : {""} \cup Names, labels : Selectors \cup {Labels}, body : Policy],
  policies <- objects,
  call <- [c \in Callers |-> Tracked(c)],
  outcome <- [c \in Callers |-> IF Tracked(c) = {} THEN {} ELSE outcome[c]]

(* A test that gets, lists, creates, updates and deletes through the fake  *)
(* sees what the typed client promises, with any number of goroutines. The *)
(* methods no reactor handles change nothing.                              *)
ApiSpec == Api!Spec

(* The recorded actions, applied in their order to what the clientset was  *)
(* given, lead to what the tracker holds: a test may take Actions() for    *)
(* what has happened, and in which order.                                  *)
ActionsReplay ==
  LET done == IF holder["clientset"] = {} THEN actions["clientset"] ELSE Front(actions["clientset"])
  IN  running => FoldLeft(Applied, given, done) = objects

(* A watcher that takes in all events in its channel knows the policies of *)
(* the namespace it has asked for: from its registration on it is told of  *)
(* every change of them, in order, and of no other.                        *)
WatchersMissNothing ==
  \A w \in Watchers : \A x \in watches[w] :
    Within(x.asked, objects) = FoldLeft(LAMBDA seen, e : [seen EXCEPT ![e.key] = e.label], x.seen, x.events)

=============================================================================
