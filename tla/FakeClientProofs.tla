-------------------------- MODULE FakeClientProofs --------------------------
(***************************************************************************)
(* Proofs about FakeClient, for any goroutines, policies and capacities:   *)
(* type correctness, that the fake implements PolicyApi in the methods a   *)
(* reactor handles, and that the recorded actions and the watchers' events *)
(* replay what has happened, and how many there are before a panic.        *)
(***************************************************************************)
EXTENDS FakeClient, SequenceTheorems, WellFoundedInduction, TLAPS

Operations ==
  [method : UNION {Methods[c] : c \in Callers}, namespace : Namespaces, name : {""} \cup Names,
   labels : Selectors \cup {Labels}, body : Policy]

Collective == {"List", "DeleteCollection"}

(* The arguments that go with a method.                                    *)
Wellformed(o) ==
  /\ o.method \in AllMethods
  /\ o.method \in Collective => o.name = ""
  /\ o.method \notin Collective =>
       /\ o.labels = Labels
       /\ o.body.key.namespace = o.namespace /\ o.body.key.name = o.name

Recordable ==
  [verb : Handled \cup {"patch", "delete-collection", "watch"},
   namespace : Namespaces, name : Opt(Names), label : Opt(Labels)]

Report == [key : Keys, label : Opt(Labels)]

Watching == [namespace : Namespaces, asked : Namespaces, events : Seq(Report), seen : [Keys -> Opt(Labels)]]

Outcome == [kind : {"ok", "notFound", "alreadyExists"}, objects : SUBSET Policy]

Typed ==
  /\ given \in [Keys -> Opt(Labels)] /\ objects \in [Keys -> Opt(Labels)]
  /\ actions \in [Fakes -> Seq(Recordable)]
  /\ holder \in [Fakes -> Opt(Callers)]
  /\ watches \in [Watchers -> Opt(Watching)]
  /\ call \in [Callers -> Opt(Operations)]
  /\ outcome \in [Callers -> Opt(Outcome)]
  /\ running \in BOOLEAN

(* A lock is held by a caller that has made its call and waits.            *)
CallInv(c) ==
  /\ \A o \in call[c] : Wellformed(o) /\ o.method \in Methods[c]
  /\ call[c] = {} => outcome[c] = {}
  /\ \A f \in Fakes : c \in holder[f] => f = "clientset" /\ call[c] # {} /\ outcome[c] = {}

ChannelInv == \A w \in Watchers : \A x \in watches[w] : Len(x.events) <= Capacity

IInv == Typed /\ ChannelInv /\ \A c \in Callers : CallInv(c)

-----------------------------------------------------------------------------
(* Calls and the actions made of them.                                     *)

LEMMA OptProperties ==
  ASSUME NEW S
  PROVE  /\ {} \in Opt(S)
         /\ \A x \in S : {x} \in Opt(S)
         /\ \A o \in Opt(S) : o \subseteq S /\ \A x \in o : x \in S /\ o = {x}
BY DEF Opt

LEMMA KeyProperties ==
  /\ \A k, l \in Keys : k.namespace = l.namespace /\ k.name = l.name => k = l
  /\ \A k \in Keys : k.namespace # "" /\ k.name # "" /\ k.namespace \in Namespaces /\ k.name \in Names
BY KeysAssumption DEF Namespaces, Names

LEMMA OpsTyped ==
  ASSUME NEW c \in Callers, NEW o \in Ops(c)
  PROVE  o \in Operations /\ Wellformed(o) /\ o.method \in Methods[c]
<1>1. o \in Asked(c) /\ o.method \in Methods[c] /\ Methods[c] \subseteq AllMethods
  BY MethodsAssumption DEF Ops
<1>2. o.method \in UNION {Methods[d] : d \in Callers}
  BY <1>1
<1>3. Blank \in Policy
  <2>1. (CHOOSE k \in Keys : TRUE) \in Keys
    BY KeysAssumption
  <2>2. (CHOOSE l \in Labels : TRUE) \in Labels
    BY SelectorsAssumption
  <2> QED  BY <2>1, <2>2 DEF Blank, Policy
<1>4. Scopes[c] \subseteq Namespaces
  BY ScopesAssumption
<1>5. ASSUME NEW m \in AllMethods \ Collective, NEW k \in Keys, NEW l \in Labels, o = Naming(m, k, l)
      PROVE  o \in Operations /\ Wellformed(o)
  <2>1. /\ o = [method |-> m, namespace |-> k.namespace, name |-> k.name, labels |-> Labels,
                body |-> [key |-> k, label |-> l]]
        /\ m = o.method
    BY <1>5 DEF Naming, Op
  <2>2. k.namespace \in Namespaces /\ k.name \in {""} \cup Names /\ [key |-> k, label |-> l] \in Policy
    BY KeyProperties DEF Policy
  <2>3. o \in Operations
    BY <1>2, <2>1, <2>2 DEF Operations
  <2> QED  BY <2>1, <2>3 DEF Wellformed
<1>6. ASSUME NEW m \in Collective, NEW ns \in Namespaces, NEW ls \in Selectors, o = Selecting(m, ns, ls)
      PROVE  o \in Operations /\ Wellformed(o)
  <2>1. /\ o = [method |-> m, namespace |-> ns, name |-> "", labels |-> ls, body |-> Blank]
        /\ m = o.method
    BY <1>6 DEF Selecting, Op
  <2> QED  BY <1>2, <1>3, <2>1 DEF Operations, Wellformed, AllMethods, Collective
<1>7. CASE o \in {Naming(m, k, Blank.label) : m \in {"Get", "Delete"}, k \in Reaches(c)}
  <2>1. PICK m \in {"Get", "Delete"}, k \in Keys : o = Naming(m, k, Blank.label)
    BY <1>7 DEF Reaches
  <2>2. m \in AllMethods \ Collective /\ Blank.label \in Labels
    BY <1>3 DEF AllMethods, Collective, Policy
  <2> QED  BY <1>1, <1>5, <2>1, <2>2
<1>8. CASE o \in UNION {{Naming(m, k, l) : k \in Reaches(c), l \in Written[m]} : m \in Writing}
  <2>1. PICK m \in Writing : o \in {Naming(m, k, l) : k \in Reaches(c), l \in Written[m]}
    BY <1>8
  <2>2. PICK k \in Keys, l \in Written[m] : o = Naming(m, k, l)
    BY <2>1 DEF Reaches
  <2>3. m \in AllMethods \ Collective /\ l \in Labels
    BY WrittenAssumption DEF AllMethods, Collective, Writing
  <2> QED  BY <1>1, <1>5, <2>2, <2>3
<1>9. CASE o \in {Selecting(m, ns, ls) : m \in Collective, ns \in Scopes[c], ls \in Selectors}
  BY <1>1, <1>4, <1>6, <1>9
<1> QED  BY <1>1, <1>7, <1>8, <1>9 DEF Asked, Collective

(* The action of a method about one policy names it, that of another none. *)
LEMMA ActionFacts ==
  ASSUME NEW o \in Operations, Wellformed(o)
  PROVE  /\ ActionOf(o) \in Recordable
         /\ ActionOf(o).namespace = o.namespace
         /\ o.method \in Collective => ActionOf(o).name = {}
         /\ o.method \notin Collective => ActionOf(o).name = {o.body.key.name}
         /\ o.method \in Writing => ActionOf(o).label = {o.body.label}
         /\ o.method = "Get" <=> ActionOf(o).verb = "get"
         /\ o.method = "List" <=> ActionOf(o).verb = "list"
         /\ o.method = "Create" <=> ActionOf(o).verb = "create"
         /\ o.method = "Update" <=> ActionOf(o).verb = "update"
         /\ o.method = "Delete" <=> ActionOf(o).verb = "delete"
<1>1. /\ o.body.key \in Keys /\ o.body.label \in Labels /\ o.namespace \in Namespaces
      /\ o.method \notin Collective => o.name = o.body.key.name
  BY DEF Operations, Policy, Wellformed
<1>2. {} \in Opt(Names) /\ {} \in Opt(Labels) /\ {o.body.label} \in Opt(Labels)
  BY <1>1, OptProperties
<1>3. o.body.key.name \in Names
  BY <1>1, KeyProperties
<1>4. {o.body.key.name} \in Opt(Names)
  BY <1>3, OptProperties
<1> QED
  BY <1>1, <1>2, <1>4 DEF ActionOf, Get, List, Create, Update, Delete, DeleteCollection, Patch, Action, Recordable, Handled,
     Wellformed, AllMethods, Writing, Collective

(* What an action is about, for the tracker and for the API.               *)

LEMMA SameOpt == \A S : Api!Opt(S) = Opt(S)
BY DEF Api!Opt, Opt

(* A method about one policy has its key.                                  *)
LEMMA NamedKey ==
  ASSUME NEW o \in Operations, Wellformed(o), o.method \notin Collective
  PROVE  /\ o.body.key \in Keys
         /\ \A k \in Keys : k.namespace = o.namespace /\ k.name = o.name <=> k = o.body.key
         /\ \A k \in Keys : k.namespace = ActionOf(o).namespace /\ {k.name} = ActionOf(o).name <=> k = o.body.key
<1>1. o.body.key \in Keys /\ o.body.key.namespace = o.namespace /\ o.body.key.name = o.name
  BY DEF Wellformed, Operations, Policy
<1>2. ActionOf(o).namespace = o.namespace /\ ActionOf(o).name = {o.body.key.name}
  BY ActionFacts
<1>3. \A k \in Keys : k.namespace = o.namespace /\ k.name = o.name <=> k = o.body.key
  BY <1>1, KeyProperties
<1>4. \A x, y : {x} = {y} <=> x = y
  OBVIOUS
<1>5. ASSUME NEW k \in Keys
      PROVE  k.namespace = ActionOf(o).namespace /\ {k.name} = ActionOf(o).name <=> k = o.body.key
  <2>1. {k.name} = ActionOf(o).name <=> k.name = o.name
    BY <1>1, <1>2, <1>4
  <2> QED  BY <1>2, <1>3, <2>1
<1> QED  BY <1>1, <1>3, <1>5

LEMMA NamedMatches ==
  ASSUME Typed, NEW o \in Operations, Wellformed(o), o.method \notin Collective
  PROVE  /\ Matching(ActionOf(o)) = {k \in {o.body.key} : objects[k] # {}}
         /\ Api!Addressed(o) = {k \in {o.body.key} : objects[k] # {}}
<1>1. o.labels = Labels
  BY DEF Wellformed
<1>2. \A k \in Keys : (\E l \in objects[k] : l \in Labels) <=> objects[k] # {}
  <2> SUFFICES ASSUME NEW k \in Keys
               PROVE  objects[k] \subseteq Labels
    OBVIOUS
  <2> QED  BY OptProperties DEF Typed
<1>3. o.body.key \in Keys /\ \A k \in Keys : k.namespace = o.namespace /\ k.name = o.name <=> k = o.body.key
  BY NamedKey
<1>4. /\ ActionOf(o).namespace = o.namespace /\ ActionOf(o).name = {o.name}
      /\ \A k \in Keys : k.name \in ActionOf(o).name <=> k.name = o.name
  BY ActionFacts DEF Wellformed
<1>5. o.namespace # "" /\ o.name # ""
  BY <1>3, KeyProperties DEF Wellformed
<1>6. ASSUME NEW k \in Keys
      PROVE  k \in Matching(ActionOf(o)) <=> k = o.body.key /\ objects[k] # {}
  BY <1>3, <1>4, <1>5 DEF Matching
<1>7. ASSUME NEW k \in Keys
      PROVE  k \in Api!Addressed(o) <=> k = o.body.key /\ objects[k] # {}
  BY <1>1, <1>2, <1>3, <1>5 DEF Api!Addressed
<1>8. Matching(ActionOf(o)) \subseteq Keys /\ Api!Addressed(o) \subseteq Keys
  BY DEF Matching, Api!Addressed
<1> QED  BY <1>3, <1>6, <1>7, <1>8

LEMMA NamedApplied ==
  ASSUME NEW o \in Operations, Wellformed(o), o.method \notin Collective, NEW tracked \in [Keys -> Opt(Labels)],
         NEW a, a = ActionOf(o), NEW k, k = o.body.key
  PROVE  /\ (o.method = "Create" /\ tracked[k] = {}) \/ (o.method = "Update" /\ tracked[k] # {}) =>
              Applied(tracked, a) = [tracked EXCEPT ![k] = {o.body.label}]
         /\ o.method = "Delete" => Applied(tracked, a) = [tracked EXCEPT ![k] = {}]
         /\ /\ ~(o.method = "Create" /\ tracked[k] = {}) /\ ~(o.method = "Update" /\ tracked[k] # {})
            /\ o.method # "Delete"
            => Applied(tracked, a) = tracked
<1> DEFINE new == [l \in Keys |->
              IF l # k THEN tracked[l]
              ELSE IF (o.method = "Create" /\ tracked[l] = {}) \/ (o.method = "Update" /\ tracked[l] # {})
                   THEN {o.body.label}
              ELSE IF o.method = "Delete" THEN {} ELSE tracked[l]]
<1>1. /\ o.method \in {"Create", "Update"} => a.label = {o.body.label}
      /\ o.method = "Create" <=> a.verb = "create"
      /\ o.method = "Update" <=> a.verb = "update"
      /\ o.method = "Delete" <=> a.verb = "delete"
  BY ActionFacts DEF Writing
<1>2. \A l \in Keys : l.namespace # a.namespace \/ {l.name} # a.name <=> l # k
  BY NamedKey
<1>3. ASSUME NEW l \in Keys
      PROVE  new[l] = IF l.namespace = a.namespace /\ {l.name} = a.name
                      THEN CASE a.verb = "create" /\ tracked[l] = {} -> a.label
                             [] a.verb = "update" /\ tracked[l] # {} -> a.label
                             [] a.verb = "delete"                    -> {}
                             [] OTHER                                -> tracked[l]
                      ELSE tracked[l]
  <2>1. CASE l # k
    BY <1>2, <2>1
  <2>2. CASE l = k
    BY <1>1, <1>2, <2>2
  <2> QED  BY <2>1, <2>2
<1>4. Applied(tracked, a) = new
  BY <1>3 DEF Applied
<1>5. k \in Keys /\ DOMAIN tracked = Keys
  BY NamedKey
<1>6. ASSUME (o.method = "Create" /\ tracked[k] = {}) \/ (o.method = "Update" /\ tracked[k] # {})
      PROVE  new = [tracked EXCEPT ![k] = {o.body.label}]
  BY <1>5, <1>6
<1>7. ASSUME o.method = "Delete"
      PROVE  new = [tracked EXCEPT ![k] = {}]
  BY <1>5, <1>7
<1>8. ASSUME /\ ~(o.method = "Create" /\ tracked[k] = {}) /\ ~(o.method = "Update" /\ tracked[k] # {})
             /\ o.method # "Delete"
      PROVE  new = tracked
  BY <1>5, <1>8
<1> QED  BY <1>4, <1>6, <1>7, <1>8

LEMMA CollectiveApplied ==
  ASSUME NEW o \in Operations, Wellformed(o), o.method \in Collective, NEW tracked \in [Keys -> Opt(Labels)]
  PROVE  Applied(tracked, ActionOf(o)) = tracked
<1>1. \A k \in Keys : {k.name} # ActionOf(o).name
  BY ActionFacts
<1>2. Applied(tracked, ActionOf(o)) = [k \in Keys |-> tracked[k]]
  BY <1>1 DEF Applied
<1> QED  BY <1>2

LEMMA EventKey ==
  ASSUME NEW o \in Operations, Wellformed(o), o.method \notin Collective
  PROVE  Event(ActionOf(o)) = [key |-> o.body.key, label |-> Applied(objects, ActionOf(o))[o.body.key]]
<1>1. /\ o.body.key \in Keys
      /\ \A k \in Keys : k.namespace = ActionOf(o).namespace /\ {k.name} = ActionOf(o).name <=> k = o.body.key
  BY NamedKey
<1>2. (CHOOSE k \in Keys : k.namespace = ActionOf(o).namespace /\ {k.name} = ActionOf(o).name) = o.body.key
  BY <1>1
<1> QED  BY <1>2 DEF Event

-----------------------------------------------------------------------------
(* The invariant.                                                          *)

LEMMA InitInv == Init => IInv
<1> SUFFICES ASSUME Init
             PROVE  IInv
  OBVIOUS
<1>1. given \in [Keys -> Opt(Labels)]
  <2>1. Written["Create"] \subseteq Labels
    BY WrittenAssumption DEF Writing
  <2>2. Opt(Written["Create"]) \subseteq Opt(Labels)
    BY <2>1 DEF Opt
  <2> QED  BY <2>2 DEF Init
<1>2. {} \in Opt(Callers) /\ {} \in Opt(Watching) /\ {} \in Opt(Operations) /\ {} \in Opt(Outcome)
  BY OptProperties
<1>3. <<>> \in Seq(Recordable)
  OBVIOUS
<1>4. Typed
  BY <1>1, <1>2, <1>3 DEF Init, Typed
<1> QED  BY <1>4 DEF Init, IInv, ChannelInv, CallInv

LEMMA CallKeeps ==
  ASSUME IInv, NEW c \in Callers, NEW o \in Ops(c), Call(c, o)
  PROVE  IInv'
<1>1. o \in Operations /\ Wellformed(o) /\ o.method \in Methods[c]
  BY OpsTyped
<1>2. /\ call[c] = {} /\ call' = [call EXCEPT ![c] = {o}]
      /\ UNCHANGED <<given, objects, actions, holder, watches, outcome, running>>
  BY DEF Call
<1>3. Typed'
  BY <1>1, <1>2, OptProperties DEF IInv, Typed
<1>4. ChannelInv'
  BY <1>2 DEF IInv, ChannelInv
<1>5. ASSUME NEW d \in Callers
      PROVE  CallInv(d)'
  BY <1>1, <1>2 DEF IInv, Typed, CallInv
<1> QED  BY <1>3, <1>4, <1>5 DEF IInv

LEMMA RecordedTyped ==
  ASSUME Typed, NEW f \in Fakes, NEW a \in Recordable, Recorded(f, a)
  PROVE  actions' \in [Fakes -> Seq(Recordable)]
<1>1. Append(actions[f], a) \in Seq(Recordable)
  BY AppendProperties DEF Typed
<1> QED  BY <1>1 DEF Recorded, Typed

LEMMA InvokeKeeps ==
  ASSUME IInv, NEW c \in Callers, Invoke(c)
  PROVE  IInv'
<1>1. PICK o \in call[c] : Recorded("clientset", ActionOf(o))
  BY DEF Invoke, FakeOf
<1>2. o \in Operations /\ Wellformed(o)
  BY OptProperties DEF IInv, Typed, CallInv
<1>3. actions' \in [Fakes -> Seq(Recordable)]
  BY <1>1, <1>2, ActionFacts, RecordedTyped DEF IInv, Fakes
<1>4. /\ holder' = [holder EXCEPT !["clientset"] = {c}] /\ outcome[c] = {}
      /\ UNCHANGED <<given, objects, watches, call, outcome, running>>
  BY DEF Invoke, FakeOf
<1>5. Typed'
  BY <1>3, <1>4, OptProperties DEF IInv, Typed
<1>6. ChannelInv'
  BY <1>4 DEF IInv, ChannelInv
<1>7. ASSUME NEW d \in Callers
      PROVE  CallInv(d)'
  BY <1>1, <1>4 DEF IInv, Typed, CallInv
<1> QED  BY <1>5, <1>6, <1>7 DEF IInv

LEMMA ReturnKeeps ==
  ASSUME IInv, NEW c \in Callers, Return(c)
  PROVE  IInv'
<1>1. /\ call' = [call EXCEPT ![c] = {}] /\ outcome' = [outcome EXCEPT ![c] = {}] /\ outcome[c] # {}
      /\ UNCHANGED <<given, objects, actions, holder, watches, running>>
  BY DEF Return
<1>2. Typed'
  BY <1>1, OptProperties DEF IInv, Typed
<1>3. ChannelInv'
  BY <1>1 DEF IInv, ChannelInv
<1>4. ASSUME NEW d \in Callers
      PROVE  CallInv(d)'
  BY <1>1 DEF IInv, Typed, CallInv
<1> QED  BY <1>2, <1>3, <1>4 DEF IInv

LEMMA DiscoverKeeps ==
  ASSUME IInv, Discover
  PROVE  IInv'
<1>1. Action("get", "", {}, {}) \in Recordable
  BY OptProperties DEF Action, Recordable, Handled, Namespaces
<1>2. actions' \in [Fakes -> Seq(Recordable)]
  BY <1>1, RecordedTyped DEF Discover, Fakes, IInv
<1>3. UNCHANGED <<given, objects, holder, watches, call, outcome, running>>
  BY DEF Discover
<1> QED  BY <1>2, <1>3 DEF IInv, Typed, ChannelInv, CallInv

(* The watches alone change.                                               *)
LEMMA WatchersKeep ==
  ASSUME IInv, UNCHANGED <<given, objects, holder, call, outcome, running>>,
         actions' \in [Fakes -> Seq(Recordable)],
         NEW w \in Watchers, NEW v \in Opt(Watching), \A x \in v : Len(x.events) <= Capacity,
         watches' = [watches EXCEPT ![w] = v]
  PROVE  IInv'
<1>1. Typed'
  BY DEF IInv, Typed
<1>2. ChannelInv'
  BY DEF IInv, Typed, ChannelInv
<1> QED  BY <1>1, <1>2 DEF IInv, CallInv

LEMMA WatchKeeps ==
  ASSUME IInv, NEW w \in Watchers, NEW ns \in Scopes[w], Watch(w, ns)
  PROVE  IInv'
<1>1. ns \in Namespaces
  BY ScopesAssumption
<1>2. Action("watch", ns, {}, {}) \in Recordable
  BY <1>1, OptProperties DEF Action, Recordable
<1>3. actions' \in [Fakes -> Seq(Recordable)]
  BY <1>2, RecordedTyped DEF Watch, Fakes, IInv
<1> DEFINE x == [namespace |-> ns, asked |-> ns, events |-> <<>>, seen |-> Within(ns, objects)]
<1>4. Within(ns, objects) \in [Keys -> Opt(Labels)]
  BY OptProperties DEF IInv, Typed, Within
<1>5. x \in Watching
  BY <1>1, <1>4 DEF Watching
<1>6. {x} \in Opt(Watching) /\ \A y \in {x} : Len(y.events) <= Capacity
  BY <1>5, OptProperties, BoundsAssumption
<1>7. /\ UNCHANGED <<given, objects, holder, call, outcome, running>>
      /\ watches' = [watches EXCEPT ![w] = {x}]
  BY DEF Watch, WatchReactor
<1> HIDE DEF x
<1> QED  BY <1>3, <1>6, <1>7, WatchersKeep

LEMMA StopKeeps ==
  ASSUME IInv, NEW w \in Watchers, Stop(w)
  PROVE  IInv'
<1>1. /\ UNCHANGED <<given, objects, actions, holder, call, outcome, running>>
      /\ watches' = [watches EXCEPT ![w] = {}] /\ {} \in Opt(Watching)
  BY OptProperties DEF Stop
<1>2. actions' \in [Fakes -> Seq(Recordable)] /\ \A x \in {} : Len(x.events) <= Capacity
  BY <1>1 DEF IInv, Typed
<1> QED  BY <1>1, <1>2, WatchersKeep

LEMMA ConsumeKeeps ==
  ASSUME IInv, NEW w \in Watchers, Consume(w)
  PROVE  IInv'
<1>1. PICK x \in watches[w] :
        /\ x.events # <<>>
        /\ watches' = [watches EXCEPT ![w] =
             {[x EXCEPT !.events = Tail(@), !.seen[Head(x.events).key] = Head(x.events).label]}]
  BY DEF Consume
<1>2. x \in Watching /\ Len(x.events) <= Capacity
  BY OptProperties DEF IInv, Typed, ChannelInv
<1> DEFINE y == [x EXCEPT !.events = Tail(@), !.seen[Head(x.events).key] = Head(x.events).label]
<1>3. /\ Head(x.events) \in Report /\ Tail(x.events) \in Seq(Report)
      /\ Len(Tail(x.events)) = Len(x.events) - 1 /\ Len(x.events) \in Nat
  BY <1>1, <1>2, HeadTailProperties, LenProperties DEF Watching
<1>4. y \in Watching /\ y.events = Tail(x.events)
  BY <1>2, <1>3 DEF Watching, Report
<1>5. Len(y.events) <= Capacity
  BY <1>2, <1>3, <1>4, BoundsAssumption
<1>6. {y} \in Opt(Watching) /\ \A z \in {y} : Len(z.events) <= Capacity
  BY <1>4, <1>5, OptProperties
<1>7. /\ UNCHANGED <<given, objects, actions, holder, call, outcome, running>>
      /\ watches' = [watches EXCEPT ![w] = {y}]
  BY <1>1 DEF Consume
<1>8. actions' \in [Fakes -> Seq(Recordable)]
  BY <1>7 DEF IInv, Typed
<1> HIDE DEF y
<1> QED  BY <1>6, <1>7, <1>8, WatchersKeep

(* The tracker applies an action, or the writer panics.                    *)

Panics(c) == running' = FALSE /\ UNCHANGED <<given, objects, actions, holder, watches, call, outcome>>

Applies(c, o, a) ==
  /\ ~Full(a) /\ objects' = Applied(objects, a)
  /\ watches' = [w \in Watchers |->
       IF w \in Told(a) THEN {[x EXCEPT !.events = Append(@, Event(a))] : x \in watches[w]} ELSE watches[w]]
  /\ outcome' = [outcome EXCEPT ![c] =
       {[kind |-> Failure(a), objects |-> Selected(o, Contents(objects', Found(a)))]}]
  /\ holder' = [holder EXCEPT !["clientset"] = {}]
  /\ UNCHANGED <<given, actions, call, running>>

LEMMA HowReacts ==
  ASSUME IInv, NEW c \in Callers, React(c)
  PROVE  /\ holder["clientset"] = {c} /\ outcome[c] = {}
         /\ \E o \in call[c] :
              /\ o \in Operations /\ Wellformed(o) /\ o.method \in Methods[c] /\ call[c] = {o}
              /\ Panics(c) \/ Applies(c, o, ActionOf(o))
<1>1. holder["clientset"] = {c}
  BY DEF React, FakeOf
<1>2. outcome[c] = {}
  BY <1>1 DEF IInv, CallInv, Fakes
<1>3. PICK o \in call[c] : Panics(c) \/ Applies(c, o, ActionOf(o))
  BY DEF React, FakeOf, Panics, Applies
<1>4. o \in Operations /\ Wellformed(o) /\ o.method \in Methods[c] /\ call[c] = {o}
  BY OptProperties DEF IInv, Typed, CallInv
<1> QED  BY <1>1, <1>2, <1>3, <1>4

LEMMA AppliedTyped ==
  ASSUME NEW o \in Operations, Wellformed(o), NEW tracked \in [Keys -> Opt(Labels)]
  PROVE  Applied(tracked, ActionOf(o)) \in [Keys -> Opt(Labels)]
<1>1. CASE o.method \in Collective
  BY <1>1, CollectiveApplied
<1>2. CASE o.method \notin Collective
  <2>1. o.body.label \in Labels
    BY DEF Operations, Policy
  <2>2. {} \in Opt(Labels) /\ {o.body.label} \in Opt(Labels)
    BY <2>1, OptProperties
  <2>3. o.body.key \in Keys
    BY DEF Operations, Policy
  <2>4. \A s \in Opt(Labels) : [tracked EXCEPT ![o.body.key] = s] \in [Keys -> Opt(Labels)]
    BY <2>3
  <2>5. \/ Applied(tracked, ActionOf(o)) = [tracked EXCEPT ![o.body.key] = {o.body.label}]
        \/ Applied(tracked, ActionOf(o)) = [tracked EXCEPT ![o.body.key] = {}]
        \/ Applied(tracked, ActionOf(o)) = tracked
    BY <1>2, NamedApplied
  <2> QED  BY <2>2, <2>4, <2>5
<1> QED  BY <1>1, <1>2

LEMMA ToldByNamed ==
  ASSUME Typed, NEW o \in Operations, Wellformed(o), Told(ActionOf(o)) # {}
  PROVE  Event(ActionOf(o)) \in Report
<1>1. o.method \notin Collective
  BY ActionFacts DEF Told, Collective
<1>2. Applied(objects, ActionOf(o)) \in [Keys -> Opt(Labels)]
  BY AppliedTyped DEF Typed
<1>3. o.body.key \in Keys
  BY DEF Operations, Policy
<1> QED  BY <1>1, <1>2, <1>3, EventKey DEF Report

LEMMA ReactKeeps ==
  ASSUME IInv, NEW c \in Callers, React(c)
  PROVE  IInv'
<1>1. PICK o \in call[c] :
        /\ o \in Operations /\ Wellformed(o) /\ call[c] = {o}
        /\ Panics(c) \/ Applies(c, o, ActionOf(o))
  BY HowReacts
<1> DEFINE a == ActionOf(o)
<1>2. CASE Panics(c)
  BY <1>2 DEF Panics, IInv, Typed, ChannelInv, CallInv
<1>3. CASE Applies(c, o, a)
  <2>1. objects' \in [Keys -> Opt(Labels)]
    BY <1>1, <1>3, AppliedTyped DEF Applies, IInv, Typed
  <2>2. ASSUME NEW w \in Watchers
        PROVE  watches'[w] \in Opt(Watching) /\ \A x \in watches'[w] : Len(x.events) <= Capacity
    <3>1. CASE w \in Told(a)
      <4>1. Event(a) \in Report
        BY <1>1, <3>1, ToldByNamed DEF IInv
      <4>2. watches'[w] = {[x EXCEPT !.events = Append(@, Event(a))] : x \in watches[w]}
        BY <1>3, <3>1 DEF Applies
      <4>3. ASSUME NEW x \in watches[w]
            PROVE  /\ [x EXCEPT !.events = Append(@, Event(a))] \in Watching
                   /\ Len([x EXCEPT !.events = Append(@, Event(a))].events) <= Capacity
        <5>1. x \in Watching
          BY OptProperties DEF IInv, Typed
        <5>2. x.events \in Seq(Report) /\ ~(Len(x.events) >= Capacity)
          BY <1>3, <3>1, <5>1 DEF Watching, Applies, Full
        <5>3. /\ Append(x.events, Event(a)) \in Seq(Report)
              /\ Len(Append(x.events, Event(a))) = Len(x.events) + 1 /\ Len(x.events) \in Nat
          BY <4>1, <5>2, AppendProperties, LenProperties
        <5>4. Len(Append(x.events, Event(a))) <= Capacity
          BY <5>2, <5>3, BoundsAssumption
        <5>5. [x EXCEPT !.events = Append(@, Event(a))].events = Append(x.events, Event(a))
          BY <5>1 DEF Watching
        <5>6. [x EXCEPT !.events = Append(@, Event(a))] \in Watching
          BY <5>1, <5>3 DEF Watching
        <5> QED  BY <5>4, <5>5, <5>6
      <4>4. watches[w] \in Opt(Watching)
        BY DEF IInv, Typed
      <4> QED  BY <4>2, <4>3, <4>4 DEF Opt
    <3>2. CASE w \notin Told(a)
      <4>1. watches'[w] = watches[w]
        BY <1>3, <3>2 DEF Applies
      <4> QED  BY <4>1 DEF IInv, Typed, ChannelInv
    <3> QED  BY <3>1, <3>2
  <2>3. [kind |-> Failure(a), objects |-> Selected(o, Contents(objects', Found(a)))] \in Outcome
    BY DEF Outcome, Failure, Selected, Contents
  <2>4. outcome' \in [Callers -> Opt(Outcome)] /\ holder' \in [Fakes -> Opt(Callers)]
    <3>1. {[kind |-> Failure(a), objects |-> Selected(o, Contents(objects', Found(a)))]} \in Opt(Outcome)
      BY <2>3, OptProperties
    <3>2. outcome' \in [Callers -> Opt(Outcome)]
      BY <1>3, <3>1 DEF Applies, IInv, Typed
    <3>3. {} \in Opt(Callers)
      BY OptProperties
    <3>4. holder' \in [Fakes -> Opt(Callers)]
      BY <1>3, <3>3 DEF Applies, IInv, Typed
    <3> QED  BY <3>2, <3>4
  <2>5. watches' \in [Watchers -> Opt(Watching)]
    BY <1>3, <2>2 DEF Applies
  <2>6. Typed'
    BY <1>3, <2>1, <2>4, <2>5 DEF Applies, IInv, Typed
  <2>7. ASSUME NEW d \in Callers
        PROVE  CallInv(d)'
    BY <1>1, <1>3 DEF Applies, IInv, Typed, CallInv, Fakes
  <2> QED  BY <2>2, <2>6, <2>7 DEF IInv, ChannelInv
<1> QED  BY <1>1, <1>2, <1>3

LEMMA NextInv == IInv /\ [Next]_vars => IInv'
<1> SUFFICES ASSUME IInv, [Next]_vars
             PROVE  IInv'
  OBVIOUS
<1>1. CASE UNCHANGED vars
  BY <1>1 DEF vars, IInv, Typed, ChannelInv, CallInv
<1> QED
  BY <1>1, CallKeeps, InvokeKeeps, ReactKeeps, ReturnKeeps, WatchKeeps, ConsumeKeeps, StopKeeps, DiscoverKeeps
     DEF Next

LEMMA Invariance == Spec => []IInv
BY InitInv, NextInv, PTL DEF Spec

-----------------------------------------------------------------------------

(* Every variable keeps its type, the recorded actions and the events in a *)
(* watcher's channel too, and no channel holds more than it can.           *)
THEOREM TypeCorrect == Spec => []TypeOK
<1>1. IInv => TypeOK
  <2> SUFFICES ASSUME IInv
               PROVE  TypeOK
    OBVIOUS
  <2>1. ASSUME NEW f \in Fakes
        PROVE  \A i \in 1..Len(actions[f]) : actions[f][i] \in Recordable
    BY ElementOfSeq DEF IInv, Typed
  <2>2. ASSUME NEW w \in Watchers, NEW x \in watches[w]
        PROVE  /\ Len(x.events) <= Capacity
               /\ \A i \in 1..Len(x.events) : x.events[i] \in Report
               /\ x.seen \in [Keys -> Opt(Labels)]
    <3>1. x \in Watching /\ Len(x.events) <= Capacity
      BY OptProperties DEF IInv, Typed, ChannelInv
    <3> QED  BY <3>1, ElementOfSeq DEF Watching
  <2>3. \A c \in Callers : outcome[c] \in Opt(Outcome)
    BY DEF IInv, Typed
  <2> QED  BY <2>1, <2>2, <2>3 DEF IInv, Typed, TypeOK, Recordable, Report, Outcome
<1> QED  BY <1>1, Invariance, PTL
-----------------------------------------------------------------------------
(* The fake implements PolicyApi.                                          *)

LEMMA ApiInit == Init => Api!Init
<1> SUFFICES ASSUME Init
             PROVE  Api!Init
  OBVIOUS
<1>1. Written["Create"] \subseteq {o.body.label : o \in Operations}
  <2> SUFFICES ASSUME NEW l \in Written["Create"]
               PROVE  \E o \in Operations : o.body.label = l
    OBVIOUS
  <2>1. PICK m \in UNION {Methods[c] : c \in Callers} : TRUE
    BY MethodsAssumption
  <2>2. PICK k \in Keys : TRUE
    BY KeysAssumption
  <2>3. l \in Labels
    BY WrittenAssumption DEF Writing
  <2> DEFINE o == [method |-> m, namespace |-> k.namespace, name |-> k.name, labels |-> Labels,
                   body |-> [key |-> k, label |-> l]]
  <2>4. k.namespace \in Namespaces /\ k.name \in {""} \cup Names /\ [key |-> k, label |-> l] \in Policy
    BY <2>3, KeyProperties DEF Policy
  <2>5. o \in Operations /\ o.body.label = l
    BY <2>1, <2>4 DEF Operations
  <2> HIDE DEF o
  <2> QED  BY <2>5
<1>2. \A k \in Keys : given[k] \in Opt({o.body.label : o \in Operations})
  BY <1>1 DEF Init, Opt
<1>3. objects \in [Keys -> Opt({o.body.label : o \in Operations})]
  BY <1>2 DEF Init
<1>4. \A c \in Callers : call[c] = {} /\ Tracked(c) = {}
  BY DEF Init, Tracked
<1> QED  BY <1>3, <1>4, SameOpt DEF Api!Init, Operations

(* What is read of the tracker, for the fake and for the API.              *)
LEMMA SameContents ==
  ASSUME NEW tracked \in [Keys -> Opt(Labels)], NEW ks \in SUBSET Keys
  PROVE  Contents(tracked, ks) = {p \in [key : ks, label : UNION {tracked[k] : k \in ks}] : p.label \in tracked[p.key]}
<1>1. \A k \in Keys : tracked[k] \subseteq Labels
  BY OptProperties
<1>2. ASSUME NEW p, p \in Contents(tracked, ks)
      PROVE  p \in [key : ks, label : UNION {tracked[k] : k \in ks}] /\ p.label \in tracked[p.key]
  BY <1>2 DEF Contents, Policy
<1>3. ASSUME NEW p, p \in [key : ks, label : UNION {tracked[k] : k \in ks}], p.label \in tracked[p.key]
      PROVE  p \in Contents(tracked, ks)
  <2>1. p.key \in Keys /\ p.key \in ks /\ p.label \in Labels
    BY <1>1, <1>3
  <2>2. p \in Policy
    BY <1>3, <2>1 DEF Policy
  <2> QED  BY <1>3, <2>1, <2>2 DEF Contents
<1> QED  BY <1>2, <1>3

LEMMA OneContents ==
  ASSUME NEW tracked \in [Keys -> Opt(Labels)], NEW k \in Keys, NEW l \in Labels, tracked[k] = {l}
  PROVE  Contents(tracked, {k}) = {[key |-> k, label |-> l]}
<1>1. [key |-> k, label |-> l] \in Contents(tracked, {k})
  BY DEF Contents, Policy
<1>2. ASSUME NEW p \in Contents(tracked, {k})
      PROVE  p = [key |-> k, label |-> l]
  BY DEF Contents, Policy
<1> QED  BY <1>1, <1>2

(* A selector filters the answer, or the policies that are asked.          *)
LEMMA ListMaps ==
  ASSUME Typed, NEW o \in Operations, Wellformed(o), o.method = "List"
  PROVE  Selected(o, Contents(objects, Matching(ActionOf(o)))) = Api!Contents(Api!Addressed(o))
<1>1. ActionOf(o).namespace = o.namespace /\ ActionOf(o).name = {} /\ o.name = ""
  BY ActionFacts DEF Wellformed, Collective
<1>2. Matching(ActionOf(o)) = {k \in Keys : (o.namespace = "" \/ k.namespace = o.namespace) /\ objects[k] # {}}
  BY <1>1 DEF Matching
<1>3. Api!Addressed(o) = {k \in Keys : /\ o.namespace = "" \/ k.namespace = o.namespace
                                       /\ \E l \in objects[k] : l \in o.labels}
  BY <1>1 DEF Api!Addressed
<1>4. Api!Contents(Api!Addressed(o)) = Contents(objects, Api!Addressed(o))
  <2>1. Api!Addressed(o) \in SUBSET Keys /\ objects \in [Keys -> Opt(Labels)]
    BY <1>3 DEF Typed
  <2> QED  BY <2>1, SameContents DEF Api!Contents
<1>5. ASSUME NEW p \in Policy
      PROVE  /\ p.key \in Matching(ActionOf(o)) /\ p.label \in objects[p.key] /\ p.label \in o.labels
             <=> p.key \in Api!Addressed(o) /\ p.label \in objects[p.key]
  <2>1. p.key \in Keys
    BY DEF Policy
  <2>2. \A l \in objects[p.key] : objects[p.key] = {l}
    BY <2>1, OptProperties DEF Typed
  <2> QED  BY <1>2, <1>3, <2>1, <2>2
<1> QED  BY <1>4, <1>5 DEF Selected, Contents

LEMMA Untracked ==
  ASSUME IInv, NEW c \in Callers
  PROVE  /\ Tracked(c) \subseteq call[c]
         /\ \A o \in call[c] : /\ o \in Operations /\ Wellformed(o) /\ call[c] = {o} /\ o.method \in AllMethods
                               /\ Tracked(c) = IF ActionOf(o).verb \in Handled THEN {o} ELSE {}
<1>1. \A o \in call[c] : o \in Operations /\ Wellformed(o) /\ call[c] = {o}
  BY OptProperties DEF IInv, Typed, CallInv
<1> QED  BY <1>1 DEF Tracked, Wellformed

(* A reactor's answer is the API's, if the API has the operation.          *)
LEMMA AppliesMaps ==
  ASSUME IInv, IInv', NEW c \in Callers, outcome[c] = {}, NEW o \in call[c], Applies(c, o, ActionOf(o)),
         ActionOf(o).verb \in Handled
  PROVE  Api!Perform(c)
<1> DEFINE a == ActionOf(o)
           k == o.body.key
           apiOutcome == [d \in Callers |-> IF Tracked(d) = {} THEN {} ELSE outcome[d]]
<1>1. o \in Operations /\ Wellformed(o) /\ Tracked(c) = {o}
  BY Untracked
<1>2. call' = call /\ objects' = Applied(objects, a) /\ objects \in [Keys -> Opt(Labels)]
      /\ objects' \in [Keys -> Opt(Labels)] /\ Typed
  BY DEF Applies, IInv, Typed
<1>3. \A d \in Callers : Tracked(d)' = Tracked(d)
  BY <1>2 DEF Tracked
<1>4. outcome' = [outcome EXCEPT ![c] = {[kind |-> Failure(a), objects |-> Selected(o, Contents(objects', Found(a)))]}]
      /\ DOMAIN outcome = Callers
  BY DEF Applies, IInv, Typed
<1>5. Api!Answer(c, Failure(a), Selected(o, Contents(objects', Found(a))))
  <2>1. apiOutcome' = [d \in Callers |-> IF Tracked(d) = {} THEN {} ELSE outcome'[d]]
    BY <1>3
  <2> DEFINE answer == {[kind |-> Failure(a), objects |-> Selected(o, Contents(objects', Found(a)))]}
  <2>2. outcome' = [outcome EXCEPT ![c] = answer]
    BY <1>4
  <2> HIDE DEF answer
  <2>3. \A d \in Callers : outcome'[d] = IF d = c THEN answer ELSE outcome[d]
    BY <1>4, <2>2
  <2>4. apiOutcome' = [apiOutcome EXCEPT ![c] = answer]
    BY <1>1, <2>1, <2>3
  <2> QED  BY <2>4 DEF answer, Api!Answer
<1>6. apiOutcome[c] = {} /\ [d \in Callers |-> Tracked(d)]' = [d \in Callers |-> Tracked(d)]
  BY <1>3
<1>7. o.method \in {"Get", "List", "Create", "Update", "Delete"}
  BY <1>1, ActionFacts DEF Handled, Wellformed, AllMethods, Writing, Collective, ActionOf, Action, DeleteCollection, Patch
<1>8. /\ o.method = "Get" <=> a.verb = "get"
      /\ o.method = "List" <=> a.verb = "list"
      /\ o.method = "Create" <=> a.verb = "create"
      /\ o.method = "Update" <=> a.verb = "update"
      /\ o.method = "Delete" <=> a.verb = "delete"
  BY <1>1, ActionFacts
<1>9. CASE o.method = "List"
  <2>1. Failure(a) = "ok" /\ Found(a) = Matching(a)
    BY <1>8, <1>9 DEF Failure, Found
  <2>2. objects' = objects
    BY <1>1, <1>2, <1>9, CollectiveApplied DEF Collective
  <2>3. Selected(o, Contents(objects', Found(a))) = Api!Contents(Api!Addressed(o))
    BY <1>1, <1>2, <1>9, <2>1, <2>2, ListMaps
  <2>4. Api!Answer(c, "ok", Api!Contents(Api!Addressed(o)))
    <3> DEFINE ps == Api!Contents(Api!Addressed(o))
    <3>1. Failure(a) = "ok" /\ Selected(o, Contents(objects', Found(a))) = ps
      BY <2>1, <2>3
    <3> HIDE DEF ps, a
    <3>2. Api!Answer(c, "ok", ps)
      BY <1>5, <3>1 DEF Api!Answer
    <3> QED  BY <3>2 DEF ps, Api!Answer
  <2> QED  BY <1>1, <1>6, <1>9, <2>2, <2>4 DEF Api!Perform, Api!Read
<1>10. CASE o.method # "List"
  <2>1. /\ k \in Keys /\ o.body.label \in Labels /\ o.method \notin Collective
        /\ Matching(a) = {l \in {k} : objects[l] # {}} /\ Api!Addressed(o) = Matching(a)
    <3>1. o.method \notin Collective
      BY <1>7, <1>10 DEF Collective
    <3> QED  BY <1>1, <1>2, <3>1, NamedMatches DEF Operations, Policy
  <2>2. Matching(a) = {} <=> objects[k] = {}
    BY <2>1
  <2>3. \A ps : Selected(o, ps) = ps
    BY <1>10 DEF Selected
  <2>5. Contents(objects', {}) = {}
    BY DEF Contents
  <2>6. ASSUME Failure(a) # "ok"
        PROVE  Api!Reject(c, o)
    <3>1. Found(a) = {}
      BY <2>6 DEF Found
    <3>2. /\ Failure(a) \in {"notFound", "alreadyExists"}
          /\ Failure(a) = "alreadyExists" => o.method = "Create" /\ Matching(a) # {}
          /\ Failure(a) = "notFound" => o.method \in {"Get", "Update", "Delete"} /\ Matching(a) = {}
      BY <1>8, <2>6 DEF Failure
    <3>3. objects' = objects
      <4>1. CASE o.method = "Delete"
        <5>1. objects' = [objects EXCEPT ![k] = {}] /\ objects[k] = {}
          BY <1>1, <1>2, <2>1, <2>2, <3>2, <4>1, NamedApplied
        <5> QED  BY <1>2, <5>1
      <4>2. CASE o.method # "Delete"
        BY <1>1, <1>2, <2>1, <2>2, <3>2, <4>2, NamedApplied
      <4> QED  BY <4>1, <4>2
    <3>4. Api!Answer(c, Failure(a), {})
      BY <1>5, <2>3, <2>5, <3>1 DEF Api!Answer
    <3>5. Api!Excused(o, Failure(a))
      BY <2>1, <2>2, <3>2 DEF Api!Excused
    <3> QED  BY <3>2, <3>3, <3>4, <3>5 DEF Api!Reject
  <2>7. ASSUME Failure(a) = "ok", o.method = "Get"
        PROVE  Api!Read(c, o)
    <3>1. Matching(a) # {} /\ Found(a) = Matching(a)
      BY <1>8, <2>7 DEF Failure, Found
    <3>2. objects' = objects
      BY <1>1, <1>2, <2>1, <2>7, NamedApplied
    <3>3. Contents(objects, Matching(a)) = Api!Contents(Api!Addressed(o))
      <4>1. Matching(a) \in SUBSET Keys
        BY DEF Matching
      <4> QED  BY <1>2, <2>1, <4>1, SameContents DEF Api!Contents
    <3>4. Api!Answer(c, "ok", Api!Contents(Api!Addressed(o)))
      <4> DEFINE ps == Api!Contents(Api!Addressed(o))
      <4>1. Failure(a) = "ok" /\ Selected(o, Contents(objects', Found(a))) = ps
        BY <2>3, <2>7, <3>1, <3>2, <3>3
      <4> HIDE DEF ps, a
      <4>2. Api!Answer(c, "ok", ps)
        BY <1>5, <4>1 DEF Api!Answer
      <4> QED  BY <4>2 DEF ps, Api!Answer
    <3> QED  BY <2>1, <2>7, <3>1, <3>2, <3>4 DEF Api!Read
  <2>8. ASSUME Failure(a) = "ok", o.method \in {"Create", "Update"}
        PROVE  Api!Put(c, o)
    <3>1. \/ o.method = "Create" /\ objects[k] = {}
          \/ o.method = "Update" /\ objects[k] # {}
      BY <1>8, <2>2, <2>8 DEF Failure
    <3>2. objects' = [objects EXCEPT ![k] = {o.body.label}] /\ objects'[k] = {o.body.label}
      BY <1>1, <1>2, <2>1, <3>1, NamedApplied
    <3>3. Found(a) = {k}
      <4>1. CASE o.method = "Create"
        <5>1. Event(a).key = k
          BY <1>1, <1>2, <2>1, EventKey
        <5> QED  BY <1>8, <2>8, <4>1, <5>1 DEF Found
      <4>2. CASE o.method = "Update"
        BY <1>8, <2>1, <2>8, <3>1, <4>2 DEF Found
      <4> QED  BY <2>8, <4>1, <4>2
    <3>4. Contents(objects', {k}) = {[key |-> k, label |-> o.body.label]}
      <4>1. ASSUME NEW tracked \in [Keys -> Opt(Labels)], tracked[k] = {o.body.label}
            PROVE  Contents(tracked, {k}) = {[key |-> k, label |-> o.body.label]}
        BY <2>1, <4>1, OneContents
      <4> QED  BY <1>2, <3>2, <4>1
    <3>5. Api!Answer(c, "ok", {[key |-> k, label |-> o.body.label]})
      BY <1>5, <2>3, <2>8, <3>3, <3>4 DEF Api!Answer
    <3> QED  BY <3>1, <3>2, <3>5 DEF Api!Put
  <2>9. ASSUME Failure(a) = "ok", o.method = "Delete"
        PROVE  Api!Erase(c, o)
    <3>1. Matching(a) # {} /\ Found(a) = {}
      BY <1>8, <2>9 DEF Failure, Found
    <3>2. objects' = [objects EXCEPT ![k] = {}]
      BY <1>1, <1>2, <2>1, <2>9, NamedApplied
    <3>3. Api!Addressed(o) = {k}
      BY <2>1, <3>1
    <3>4. objects' = [l \in Keys |-> IF l \in Api!Addressed(o) THEN {} ELSE objects[l]]
      BY <1>2, <3>2, <3>3
    <3>5. Api!Answer(c, "ok", {})
      BY <1>5, <2>3, <2>5, <2>9, <3>1 DEF Api!Answer
    <3> QED  BY <2>9, <3>3, <3>4, <3>5 DEF Api!Erase, Api!Remove
  <2>10. Api!Read(c, o) \/ Api!Put(c, o) \/ Api!Erase(c, o) \/ Api!Reject(c, o)
    BY <1>7, <1>10, <2>6, <2>7, <2>8, <2>9
  <2> QED  BY <1>1, <1>6, <2>10 DEF Api!Perform
<1> QED  BY <1>9, <1>10

LEMMA CallMaps ==
  ASSUME IInv, NEW c \in Callers, NEW o \in Ops(c), Call(c, o)
  PROVE  Api!Invoke(c) \/ UNCHANGED Api!apiVars
<1>1. o \in Operations
  BY OpsTyped
<1>2. /\ call[c] = {} /\ outcome[c] = {} /\ UNCHANGED <<objects, outcome>>
      /\ call' = [call EXCEPT ![c] = {o}] /\ call \in [Callers -> Opt(Operations)]
  BY DEF Call, IInv, Typed, CallInv
<1>3. Tracked(c) = {} /\ Tracked(c)' = IF ActionOf(o).verb \in Handled THEN {o} ELSE {}
  BY <1>2 DEF Tracked
<1>4. \A d \in Callers : d # c => Tracked(d)' = Tracked(d)
  BY <1>2 DEF Tracked
<1>5. [d \in Callers |-> IF Tracked(d) = {} THEN {} ELSE outcome[d]]'
      = [d \in Callers |-> IF Tracked(d) = {} THEN {} ELSE outcome[d]]
  BY <1>2, <1>3, <1>4
<1>6. CASE ActionOf(o).verb \in Handled
  <2>1. [d \in Callers |-> Tracked(d)]' = [[d \in Callers |-> Tracked(d)] EXCEPT ![c] = {o}]
        /\ Tracked(c)' = {o}
    BY <1>3, <1>4, <1>6
  <2> QED  BY <1>1, <1>2, <1>3, <1>5, <2>1 DEF Api!Invoke, Operations
<1>7. CASE ActionOf(o).verb \notin Handled
  <2>1. [d \in Callers |-> Tracked(d)]' = [d \in Callers |-> Tracked(d)]
    BY <1>3, <1>4, <1>7
  <2> QED  BY <1>2, <1>5, <2>1 DEF Api!apiVars
<1> QED  BY <1>6, <1>7

LEMMA ReturnMaps ==
  ASSUME IInv, NEW c \in Callers, Return(c)
  PROVE  Api!Return(c) \/ UNCHANGED Api!apiVars
<1>1. /\ outcome[c] # {} /\ UNCHANGED objects /\ call \in [Callers -> Opt(Operations)]
      /\ call' = [call EXCEPT ![c] = {}] /\ outcome' = [outcome EXCEPT ![c] = {}]
      /\ outcome \in [Callers -> Opt(Outcome)]
  BY DEF Return, IInv, Typed
<1>2. Tracked(c)' = {} /\ \A d \in Callers : d # c => Tracked(d)' = Tracked(d) /\ outcome'[d] = outcome[d]
  BY <1>1 DEF Tracked
<1>3. [d \in Callers |-> Tracked(d)]' = [[d \in Callers |-> Tracked(d)] EXCEPT ![c] = {}]
      /\ [d \in Callers |-> IF Tracked(d) = {} THEN {} ELSE outcome[d]]'
         = [[d \in Callers |-> IF Tracked(d) = {} THEN {} ELSE outcome[d]] EXCEPT ![c] = {}]
  BY <1>2
<1>4. CASE Tracked(c) = {}
  <2>1. [d \in Callers |-> Tracked(d)]' = [d \in Callers |-> Tracked(d)]
        /\ [d \in Callers |-> IF Tracked(d) = {} THEN {} ELSE outcome[d]]'
           = [d \in Callers |-> IF Tracked(d) = {} THEN {} ELSE outcome[d]]
    BY <1>3, <1>4
  <2> QED  BY <1>1, <2>1 DEF Api!apiVars
<1>5. CASE Tracked(c) # {}
  <2>1. [d \in Callers |-> IF Tracked(d) = {} THEN {} ELSE outcome[d]][c] # {}
    BY <1>1, <1>5
  <2> QED  BY <1>1, <1>3, <2>1 DEF Api!Return
<1> QED  BY <1>4, <1>5

LEMMA ReactMaps ==
  ASSUME IInv, IInv', NEW c \in Callers, React(c)
  PROVE  Api!Perform(c) \/ UNCHANGED Api!apiVars
<1>1. PICK o \in call[c] :
        /\ outcome[c] = {} /\ o \in Operations /\ Wellformed(o)
        /\ Panics(c) \/ Applies(c, o, ActionOf(o))
  BY HowReacts
<1>2. CASE Panics(c)
  BY <1>2 DEF Panics, Api!apiVars, Tracked
<1>3. CASE Applies(c, o, ActionOf(o)) /\ ActionOf(o).verb \in Handled
  BY <1>1, <1>3, AppliesMaps
<1>4. CASE Applies(c, o, ActionOf(o)) /\ ActionOf(o).verb \notin Handled
  <2>1. Tracked(c) = {} /\ call' = call
    BY <1>4, Untracked DEF Applies
  <2>2. \A d \in Callers : Tracked(d)' = Tracked(d)
    BY <2>1 DEF Tracked
  <2>3. \A d \in Callers : d # c => outcome'[d] = outcome[d]
    BY <1>4 DEF Applies, IInv, Typed
  <2>4. objects' = objects
    <3>1. objects' = Applied(objects, ActionOf(o)) /\ objects \in [Keys -> Opt(Labels)]
      BY <1>4 DEF Applies, IInv, Typed
    <3> QED  BY <1>4, <3>1 DEF Applied, Handled
  <2>5. [d \in Callers |-> IF Tracked(d) = {} THEN {} ELSE outcome[d]]'
        = [d \in Callers |-> IF Tracked(d) = {} THEN {} ELSE outcome[d]]
    BY <2>1, <2>2, <2>3
  <2>6. [d \in Callers |-> Tracked(d)]' = [d \in Callers |-> Tracked(d)]
    BY <2>2
  <2> QED  BY <2>4, <2>5, <2>6 DEF Api!apiVars
<1> QED  BY <1>1, <1>2, <1>3, <1>4

(* A test that uses the fake in any number of goroutines sees what         *)
(* PolicyApi promises, whatever the policies, the selectors and the        *)
(* capacity of the channels: each call of a method that a reactor handles  *)
(* takes its effect in one step, and its answer is that of this step.      *)
THEOREM FakeImplementsApi == Spec => ApiSpec
<1>1. IInv /\ IInv' /\ [Next]_vars => [Api!Next]_(Api!apiVars)
  <2> SUFFICES ASSUME IInv, IInv', [Next]_vars
               PROVE  Api!Next \/ UNCHANGED Api!apiVars
    OBVIOUS
  <2>1. ASSUME UNCHANGED <<objects, call, outcome>>
        PROVE  UNCHANGED Api!apiVars
    BY <2>1 DEF Api!apiVars, Tracked
  <2>2. CASE UNCHANGED vars
    BY <2>1, <2>2 DEF vars
  <2>3. CASE \E c \in Callers : (\E o \in Ops(c) : Call(c, o)) \/ React(c) \/ Return(c)
    BY <2>3, CallMaps, ReactMaps, ReturnMaps DEF Api!Next
  <2>4. ASSUME NEW c \in Callers, Invoke(c)
        PROVE  UNCHANGED Api!apiVars
    BY <2>1, <2>4 DEF Invoke
  <2>5. CASE \E w \in Watchers : (\E ns \in Scopes[w] : Watch(w, ns)) \/ Consume(w) \/ Stop(w)
    BY <2>1, <2>5 DEF Watch, Consume, Stop
  <2>6. CASE Discover
    BY <2>1, <2>6 DEF Discover
  <2> QED  BY <2>2, <2>3, <2>4, <2>5, <2>6 DEF Next
<1> QED  BY <1>1, ApiInit, Invariance, PTL DEF Spec, ApiSpec, Api!Spec

-----------------------------------------------------------------------------
(* Folds over sequences. Nothing is said of the values of a recursive      *)
(* function but its equation, and that only if some function satisfies it. *)
(* Both facts are had by induction, from the least counterexample.         *)

LEMMA OrderOfNat == OpToRel(<, Nat) = {ss \in Nat \X Nat : ss[1] < ss[2]}
BY DEF OpToRel

LEMMA LeastNat ==
  ASSUME NEW S, S \subseteq Nat, S # {}
  PROVE  \E n \in S : \A m \in S : n <= m
<1>1. PICK n \in S : \A m \in S : ~ (<<m, n>> \in OpToRel(<, Nat))
  BY WFMin, NatLessThanWellFounded
<1>2. \A m \in S : ~ (m < n)
  BY <1>1, OrderOfNat
<1> QED  BY <1>2

LEMMA Induction ==
  ASSUME NEW S, 0 \in S, \A n \in Nat : n \in S => n + 1 \in S
  PROVE  Nat \subseteq S
<1> SUFFICES ASSUME Nat \ S # {}
             PROVE  FALSE
  OBVIOUS
<1>1. PICK n \in Nat \ S : \A m \in Nat \ S : n <= m
  BY LeastNat
<1>2. n - 1 \in Nat /\ n - 1 \in S
  BY <1>1
<1> QED  BY <1>1, <1>2

(* The last index of a set of them.                                        *)
LEMMA HighestIndex ==
  ASSUME NEW n \in Nat, NEW S \in SUBSET (1..n), S # {}
  PROVE  Max(S) \in S /\ \A i \in S : i <= Max(S)
<1> DEFINE bounds == {m \in Nat : \A i \in S : i <= m}
<1>1. n \in bounds
  OBVIOUS
<1>2. PICK m \in bounds : \A k \in bounds : m <= k
  BY <1>1, LeastNat
<1>3. m \in S
  <2> SUFFICES ASSUME m \notin S
               PROVE  FALSE
    OBVIOUS
  <2>1. m \in Nat /\ m # 0
    <3>1. PICK i \in S : i <= m
      BY <1>2
    <3> QED  BY <1>2, <3>1
  <2>2. \A i \in S : i <= m - 1
    BY <1>2
  <2>3. m - 1 \in bounds
    BY <2>1, <2>2
  <2> QED  BY <1>2, <2>1, <2>3
<1>4. \E x \in S : \A y \in S : x >= y
  BY <1>2, <1>3
<1>5. \A y \in S : Max(S) >= y /\ Max(S) \in S
  BY <1>4 DEF Max
<1> QED  BY <1>5

FoldsBy(f, T, b, N, G) ==
  /\ f \in [SUBSET (1..N) -> T]
  /\ f = [S \in SUBSET (1..N) |-> IF S = {} THEN b ELSE G[<<f[S \ {Max(S)}], Max(S)>>]]

(* Some function satisfies the equation of a fold by G over 1..N.          *)
LEMMA FoldExists ==
  ASSUME NEW T, NEW b \in T, NEW N \in Nat, NEW G \in [T \X (1..N) -> T]
  PROVE  \E f : FoldsBy(f, T, b, N, G)
<1> DEFINE Solves(f, n) ==
             /\ f \in [SUBSET (1..n) -> T]
             /\ \A S \in SUBSET (1..n) : f[S] = IF S = {} THEN b ELSE G[<<f[S \ {Max(S)}], Max(S)>>]
           solved == {n \in Nat : n <= N => \E f : Solves(f, n)}
<1>1. 0 \in solved
  <2>1. 1..0 = {}
    OBVIOUS
  <2>2. Solves([S \in SUBSET {} |-> b], 0)
    BY <2>1
  <2> HIDE DEF Solves
  <2> QED  BY <2>2
<1>2. ASSUME NEW n \in Nat, n \in solved
      PROVE  n + 1 \in solved
  <2> SUFFICES ASSUME n + 1 <= N
               PROVE  \E f : Solves(f, n + 1)
    <3> HIDE DEF Solves
    <3> QED  OBVIOUS
  <2>1. PICK f : Solves(f, n)
    <3>1. n <= N
      OBVIOUS
    <3> QED  BY <1>2, <3>1
  <2> DEFINE g == [S \in SUBSET (1..(n + 1)) |->
                IF n + 1 \in S THEN G[<<f[S \ {n + 1}], n + 1>>] ELSE f[S]]
  <2>2. 1..(n + 1) = (1..n) \cup {n + 1} /\ n + 1 \notin 1..n /\ n + 1 \in 1..N
    OBVIOUS
  <2>3. \A S \in SUBSET (1..(n + 1)) : S \ {n + 1} \in SUBSET (1..n) /\ (n + 1 \notin S => S \in SUBSET (1..n))
    BY <2>2
  <2>4. g \in [SUBSET (1..(n + 1)) -> T]
    <3> SUFFICES ASSUME NEW S \in SUBSET (1..(n + 1))
                 PROVE  (IF n + 1 \in S THEN G[<<f[S \ {n + 1}], n + 1>>] ELSE f[S]) \in T
      OBVIOUS
    <3>1. f[S \ {n + 1}] \in T /\ (n + 1 \notin S => f[S] \in T)
      BY <2>1, <2>3
    <3> QED  BY <2>2, <3>1
  <2>5. ASSUME NEW S \in SUBSET (1..(n + 1))
        PROVE  g[S] = IF S = {} THEN b ELSE G[<<g[S \ {Max(S)}], Max(S)>>]
    <3>1. CASE n + 1 \in S
      <4>0. n + 1 \in Nat /\ S # {}
        BY <3>1
      <4>1. Max(S) \in S /\ \A i \in S : i <= Max(S)
        BY <4>0, HighestIndex
      <4>2. Max(S) = n + 1
        <5>1. Max(S) \in 1..(n + 1) /\ n + 1 <= Max(S)
          BY <3>1, <4>1
        <5> HIDE DEF g, solved, Solves
        <5> QED  BY <5>1
      <4>3. g[S] = G[<<f[S \ {n + 1}], n + 1>>] /\ g[S \ {n + 1}] = f[S \ {n + 1}]
        BY <2>3, <3>1
      <4> QED  BY <3>1, <4>2, <4>3
    <3>2. CASE n + 1 \notin S
      <4>1. S \in SUBSET (1..n) /\ g[S] = f[S]
        BY <2>3, <3>2
      <4>2. S \ {Max(S)} \in SUBSET (1..(n + 1)) /\ n + 1 \notin S \ {Max(S)}
        BY <3>2
      <4>3. g[S \ {Max(S)}] = f[S \ {Max(S)}]
        BY <4>2
      <4> QED  BY <2>1, <4>1, <4>3
    <3> QED  BY <3>1, <3>2
  <2>6. Solves(g, n + 1)
    <3> HIDE DEF g
    <3> QED  BY <2>4, <2>5
  <2> HIDE DEF Solves, g
  <2> QED  BY <2>6
<1>3. N \in solved
  <2> HIDE DEF solved
  <2> QED  BY <1>1, <1>2, Induction
<1>4. PICK f : Solves(f, N)
  <2> HIDE DEF Solves
  <2>1. N <= N
    OBVIOUS
  <2> QED  BY <1>3, <2>1
<1> QED  BY <1>4 DEF FoldsBy

(* Along the prefixes, a fold takes the values of its trace h.             *)
LEMMA FoldFollows ==
  ASSUME NEW T, NEW N \in Nat, NEW h \in [0..N -> T], NEW f,
         f[{}] = h[0], \A i \in 1..N : f[1..(i - 1)] = h[i - 1] => f[1..i] = h[i]
  PROVE  f[1..N] = h[N]
<1> DEFINE equal == {n \in Nat : n <= N => f[1..n] = h[n]}
<1>1. 0 \in equal
  <2>1. 1..0 = {}
    OBVIOUS
  <2> QED  BY <2>1
<1>2. ASSUME NEW n \in Nat, n \in equal
      PROVE  n + 1 \in equal
  <2> SUFFICES ASSUME n + 1 <= N
               PROVE  f[1..(n + 1)] = h[n + 1]
    OBVIOUS
  <2>1. n + 1 \in 1..N /\ (n + 1) - 1 = n /\ f[1..n] = h[n]
    BY <1>2
  <2> QED  BY <2>1
<1>3. N \in equal
  <2> HIDE DEF equal
  <2> QED  BY <1>1, <1>2, Induction
<1> QED  BY <1>3

LEMMA LastOfPrefix ==
  ASSUME NEW n \in Nat, NEW i \in 1..n
  PROVE  1..i \in SUBSET (1..n) /\ 1..i # {} /\ Max(1..i) = i /\ (1..i) \ {i} = 1..(i - 1)
<1>1. 1..i \in SUBSET (1..n) /\ i \in 1..i
  OBVIOUS
<1>2. Max(1..i) \in 1..i /\ \A j \in 1..i : j <= Max(1..i)
  BY <1>1, HighestIndex
<1>3. Max(1..i) = i
  BY <1>1, <1>2
<1> QED  BY <1>1, <1>3

(* The trace of a fold: the value after each element.                      *)

Tracker == [Keys -> Opt(Labels)]

Replays(h, base, s) ==
  /\ h \in [0..Len(s) -> Tracker] /\ h[0] = base
  /\ \A i \in 1..Len(s) : h[i] = Applied(h[i - 1], s[i])

Noted(seen, e) == [seen EXCEPT ![e.key] = e.label]

Notes(h, base, s) ==
  /\ h \in [0..Len(s) -> Tracker] /\ h[0] = base
  /\ \A i \in 1..Len(s) : h[i] = Noted(h[i - 1], s[i])

LEMMA FoldStepsTyped ==
  /\ \A t \in Tracker, a \in Recordable : Applied(t, a) \in Tracker
  /\ \A t \in Tracker, e \in Report : Noted(t, e) \in Tracker
<1>1. ASSUME NEW t \in Tracker, NEW a \in Recordable
      PROVE  Applied(t, a) \in Tracker
  <2>1. a.label \in Opt(Labels) /\ {} \in Opt(Labels)
    BY OptProperties DEF Recordable
  <2>2. \A k \in Keys : t[k] \in Opt(Labels)
    BY DEF Tracker
  <2> QED  BY <2>1, <2>2 DEF Applied, Tracker
<1>2. ASSUME NEW t \in Tracker, NEW e \in Report
      PROVE  Noted(t, e) \in Tracker
  BY DEF Tracker, Report, Noted
<1> QED  BY <1>1, <1>2

LEMMA ReplayValue ==
  ASSUME NEW base, NEW s \in Seq(Recordable), NEW h, Replays(h, base, s)
  PROVE  FoldLeft(Applied, base, s) = h[Len(s)]
<1> DEFINE N == Len(s)
           G == [p \in Tracker \X (1..N) |-> Applied(p[1], s[p[2]])]
           Solution(f) == f = [S \in SUBSET (1..N) |->
                                 IF S = {} THEN base ELSE Applied(f[S \ {Max(S)}], s[Max(S)])]
           fold == CHOOSE f : Solution(f)
<1>1. N \in Nat /\ DOMAIN s = 1..N /\ \A i \in 1..N : s[i] \in Recordable
  BY LenProperties, ElementOfSeq
<1>2. h \in [0..N -> Tracker] /\ h[0] = base /\ base \in Tracker
  BY <1>1 DEF Replays
<1>3. G \in [Tracker \X (1..N) -> Tracker]
  BY <1>1, FoldStepsTyped
<1> HIDE DEF N
<1>4. PICK f : FoldsBy(f, Tracker, base, N, G)
  <2> HIDE DEF G
  <2> QED  BY <1>1, <1>2, <1>3, FoldExists
<1>5. Solution(f)
  <2>1. ASSUME NEW S \in SUBSET (1..N), S # {}
        PROVE  G[<<f[S \ {Max(S)}], Max(S)>>] = Applied(f[S \ {Max(S)}], s[Max(S)])
    <3>1. Max(S) \in 1..N /\ f[S \ {Max(S)}] \in Tracker
      BY <1>1, <1>4, <2>1, HighestIndex DEF FoldsBy
    <3> QED  BY <3>1
  <2> HIDE DEF G
  <2> QED  BY <1>4, <2>1 DEF FoldsBy
<1>6. Solution(fold)
  <2> HIDE DEF Solution
  <2> QED  BY <1>5
<1>7. FoldLeft(Applied, base, s) = fold[1..N]
  BY <1>1 DEF FoldLeft, MapThenFoldSet
<1> HIDE DEF fold
<1>8. fold[{}] = h[0]
  BY <1>2, <1>6
<1>9. ASSUME NEW i \in 1..N, fold[1..(i - 1)] = h[i - 1]
      PROVE  fold[1..i] = h[i]
  <2>1. 1..i \in SUBSET (1..N) /\ 1..i # {} /\ Max(1..i) = i /\ (1..i) \ {i} = 1..(i - 1)
    BY <1>1, LastOfPrefix
  <2>2. fold[1..i] = Applied(fold[1..(i - 1)], s[i])
    BY <1>6, <2>1
  <2> QED  BY <1>9, <2>2 DEF Replays, N
<1>10. fold[1..N] = h[N]
  BY <1>1, <1>2, <1>8, <1>9, FoldFollows
<1> QED  BY <1>7, <1>10 DEF N

LEMMA NotesValue ==
  ASSUME NEW base, NEW s \in Seq(Report), NEW h, Notes(h, base, s)
  PROVE  FoldLeft(LAMBDA seen, e : [seen EXCEPT ![e.key] = e.label], base, s) = h[Len(s)]
<1> DEFINE N == Len(s)
           G == [p \in Tracker \X (1..N) |-> Noted(p[1], s[p[2]])]
           Solution(f) == f = [S \in SUBSET (1..N) |->
                                 IF S = {} THEN base ELSE Noted(f[S \ {Max(S)}], s[Max(S)])]
           fold == CHOOSE f : Solution(f)
<1>1. N \in Nat /\ DOMAIN s = 1..N /\ \A i \in 1..N : s[i] \in Report
  BY LenProperties, ElementOfSeq
<1>2. h \in [0..N -> Tracker] /\ h[0] = base /\ base \in Tracker
  BY <1>1 DEF Notes
<1>3. G \in [Tracker \X (1..N) -> Tracker]
  BY <1>1, FoldStepsTyped
<1> HIDE DEF N
<1>4. PICK f : FoldsBy(f, Tracker, base, N, G)
  <2> HIDE DEF G
  <2> QED  BY <1>1, <1>2, <1>3, FoldExists
<1>5. Solution(f)
  <2>1. ASSUME NEW S \in SUBSET (1..N), S # {}
        PROVE  G[<<f[S \ {Max(S)}], Max(S)>>] = Noted(f[S \ {Max(S)}], s[Max(S)])
    <3>1. Max(S) \in 1..N /\ f[S \ {Max(S)}] \in Tracker
      BY <1>1, <1>4, <2>1, HighestIndex DEF FoldsBy
    <3> QED  BY <3>1
  <2> HIDE DEF G
  <2> QED  BY <1>4, <2>1 DEF FoldsBy
<1>6. Solution(fold)
  <2> HIDE DEF Solution
  <2> QED  BY <1>5
<1>7. FoldLeft(LAMBDA seen, e : [seen EXCEPT ![e.key] = e.label], base, s) = fold[1..N]
  BY <1>1 DEF FoldLeft, MapThenFoldSet, Noted
<1> HIDE DEF fold
<1>8. fold[{}] = h[0]
  BY <1>2, <1>6
<1>9. ASSUME NEW i \in 1..N, fold[1..(i - 1)] = h[i - 1]
      PROVE  fold[1..i] = h[i]
  <2>1. 1..i \in SUBSET (1..N) /\ 1..i # {} /\ Max(1..i) = i /\ (1..i) \ {i} = 1..(i - 1)
    BY <1>1, LastOfPrefix
  <2>2. fold[1..i] = Noted(fold[1..(i - 1)], s[i])
    BY <1>6, <2>1
  <2> QED  BY <1>9, <2>2 DEF Notes, N
<1>10. fold[1..N] = h[N]
  BY <1>1, <1>2, <1>8, <1>9, FoldFollows
<1> QED  BY <1>7, <1>10 DEF N

LEMMA FrontOf ==
  ASSUME NEW t \in Seq(Recordable), t # <<>>
  PROVE  /\ Len(t) \in Nat \ {0} /\ Front(t) \in Seq(Recordable) /\ Len(Front(t)) = Len(t) - 1
         /\ \A i \in 1..(Len(t) - 1) : Front(t)[i] = t[i]
         /\ Last(t) \in Recordable
<1> DEFINE n == Len(t) - 1
<1>1. Len(t) \in Nat \ {0} /\ n \in Nat /\ \A i \in 1..Len(t) : t[i] \in Recordable
  BY LenProperties, EmptySeq, ElementOfSeq
<1>2. (\A i \in 1..n : t[i] \in Recordable) /\ t[Len(t)] \in Recordable
  BY <1>1
<1> HIDE DEF n
<1>3. n \in Int /\ n - 1 + 1 = n /\ (~(1 <= n) => n = 0) /\ \A i \in 1..n : 1 + i - 1 = i
  BY <1>1
<1>4. /\ SubSeq(t, 1, n) \in Seq(Recordable)
      /\ Len(SubSeq(t, 1, n)) = IF 1 <= n THEN n - 1 + 1 ELSE 0
      /\ \A i \in 1..(n - 1 + 1) : SubSeq(t, 1, n)[i] = t[1 + i - 1]
  BY <1>2, <1>3, SubSeqProperties
<1>5. Len(SubSeq(t, 1, n)) = n /\ \A i \in 1..n : SubSeq(t, 1, n)[i] = t[i]
  BY <1>3, <1>4
<1> QED  BY <1>1, <1>2, <1>4, <1>5 DEF Front, Last, n

LEMMA FrontOfRecorded ==
  ASSUME NEW s \in Seq(Recordable)
  PROVE  /\ \A a \in Recordable : Front(Append(s, a)) = s /\ Last(Append(s, a)) = a
         /\ s # <<>> => Front(s) \in Seq(Recordable) /\ Last(s) \in Recordable /\ s = Append(Front(s), Last(s))
<1>1. Len(s) \in Nat
  BY LenProperties
<1>3. ASSUME NEW a \in Recordable
      PROVE  Front(Append(s, a)) = s /\ Last(Append(s, a)) = a
  <2>1. /\ Append(s, a) \in Seq(Recordable) /\ Append(s, a) # <<>> /\ Len(Append(s, a)) = Len(s) + 1
        /\ \A i \in 1..Len(s) : Append(s, a)[i] = s[i]
        /\ Append(s, a)[Len(s) + 1] = a
    BY AppendProperties
  <2>2. /\ Front(Append(s, a)) \in Seq(Recordable) /\ Len(Front(Append(s, a))) = Len(s)
        /\ \A i \in 1..Len(s) : Front(Append(s, a))[i] = s[i]
    <3> DEFINE t == Append(s, a)
    <3>1. t \in Seq(Recordable) /\ t # <<>> /\ Len(t) - 1 = Len(s)
      BY <1>1, <2>1
    <3>2. /\ Front(t) \in Seq(Recordable) /\ Len(Front(t)) = Len(t) - 1
          /\ \A i \in 1..(Len(t) - 1) : Front(t)[i] = t[i]
      <4> HIDE DEF t
      <4> QED  BY <3>1, FrontOf
    <3>3. \A i \in 1..Len(s) : t[i] = s[i]
      BY <2>1
    <3> HIDE DEF t
    <3>4. Front(t) \in Seq(Recordable) /\ Len(Front(t)) = Len(s) /\ \A i \in 1..Len(s) : Front(t)[i] = s[i]
      BY <3>1, <3>2, <3>3
    <3> QED  BY <3>4 DEF t
  <2> QED  BY <2>1, <2>2, SeqEqual DEF Last
<1>4. ASSUME s # <<>>
      PROVE  Front(s) \in Seq(Recordable) /\ Last(s) \in Recordable /\ s = Append(Front(s), Last(s))
  <2>1. /\ Front(s) \in Seq(Recordable) /\ Len(Front(s)) = Len(s) - 1 /\ Last(s) \in Recordable
        /\ \A i \in 1..(Len(s) - 1) : Front(s)[i] = s[i]
    BY <1>4, FrontOf
  <2> DEFINE t == Append(Front(s), Last(s))
  <2>2. /\ t \in Seq(Recordable) /\ Len(t) = Len(Front(s)) + 1
        /\ \A i \in 1..Len(Front(s)) : t[i] = Front(s)[i]
        /\ t[Len(Front(s)) + 1] = Last(s)
    BY <2>1, AppendProperties
  <2> HIDE DEF t
  <2>3. Len(t) = Len(s) /\ \A i \in 1..Len(s) : t[i] = s[i]
    BY <1>1, <2>1, <2>2 DEF Last
  <2>4. t = s
    BY <2>2, <2>3, SeqEqual
  <2> QED  BY <2>1, <2>4 DEF t
<1> QED  BY <1>3, <1>4

(* One more action, one more event, one event less.                        *)

LEMMA ReplaysOneMore ==
  ASSUME NEW base, NEW s \in Seq(Recordable), NEW a \in Recordable, NEW h, Replays(h, base, s)
  PROVE  \E g : Replays(g, base, Append(s, a)) /\ g[Len(Append(s, a))] = Applied(h[Len(s)], a)
<1> DEFINE t == Append(s, a)
           n == Len(s)
<1>1. n \in Nat /\ Len(t) = n + 1 /\ (\A i \in 1..n : t[i] = s[i]) /\ t[n + 1] = a
  BY LenProperties, AppendProperties
<1>2. h \in [0..n -> Tracker] /\ h[0] = base /\ \A i \in 1..n : h[i] = Applied(h[i - 1], s[i])
  BY DEF Replays
<1>3. Applied(h[n], a) \in Tracker
  BY <1>1, <1>2, FoldStepsTyped
<1> HIDE DEF t, n
<1> DEFINE g == [i \in 0..(n + 1) |-> IF i <= n THEN h[i] ELSE Applied(h[n], a)]
<1>4. g \in [0..(n + 1) -> Tracker] /\ g[0] = base /\ g[n + 1] = Applied(h[n], a)
  BY <1>1, <1>2, <1>3
<1>5. ASSUME NEW i \in 1..(n + 1)
      PROVE  g[i] = Applied(g[i - 1], t[i])
  <2>1. CASE i <= n
    BY <1>1, <1>2, <2>1
  <2>2. CASE i = n + 1
    <3>1. g[i] = Applied(h[n], a) /\ g[i - 1] = h[n]
      BY <1>1, <2>2
    <3> QED  BY <1>1, <2>2, <3>1
  <2> QED  BY <1>1, <2>1, <2>2
<1> HIDE DEF g
<1>6. Replays(g, base, t) /\ g[Len(t)] = Applied(h[n], a)
  BY <1>1, <1>4, <1>5 DEF Replays
<1> QED  BY <1>6 DEF t, n

LEMMA NotesOneMore ==
  ASSUME NEW base, NEW s \in Seq(Report), NEW e \in Report, NEW h, Notes(h, base, s)
  PROVE  \E g : Notes(g, base, Append(s, e)) /\ g[Len(Append(s, e))] = Noted(h[Len(s)], e)
<1> DEFINE t == Append(s, e)
           n == Len(s)
<1>1. n \in Nat /\ Len(t) = n + 1 /\ (\A i \in 1..n : t[i] = s[i]) /\ t[n + 1] = e
  BY LenProperties, AppendProperties
<1>2. h \in [0..n -> Tracker] /\ h[0] = base /\ \A i \in 1..n : h[i] = Noted(h[i - 1], s[i])
  BY DEF Notes
<1>3. Noted(h[n], e) \in Tracker
  BY <1>1, <1>2, FoldStepsTyped
<1> HIDE DEF t, n
<1> DEFINE g == [i \in 0..(n + 1) |-> IF i <= n THEN h[i] ELSE Noted(h[n], e)]
<1>4. g \in [0..(n + 1) -> Tracker] /\ g[0] = base /\ g[n + 1] = Noted(h[n], e)
  BY <1>1, <1>2, <1>3
<1>5. ASSUME NEW i \in 1..(n + 1)
      PROVE  g[i] = Noted(g[i - 1], t[i])
  <2>1. CASE i <= n
    BY <1>1, <1>2, <2>1
  <2>2. CASE i = n + 1
    <3>1. g[i] = Noted(h[n], e) /\ g[i - 1] = h[n]
      BY <1>1, <2>2
    <3> QED  BY <1>1, <2>2, <3>1
  <2> QED  BY <1>1, <2>1, <2>2
<1> HIDE DEF g
<1>6. Notes(g, base, t) /\ g[Len(t)] = Noted(h[n], e)
  BY <1>1, <1>4, <1>5 DEF Notes
<1> QED  BY <1>6 DEF t, n

LEMMA NotesOneLess ==
  ASSUME NEW base, NEW s \in Seq(Report), s # <<>>, NEW h, Notes(h, base, s)
  PROVE  \E g : Notes(g, Noted(base, Head(s)), Tail(s)) /\ g[Len(Tail(s))] = h[Len(s)]
<1> DEFINE t == Tail(s)
           n == Len(s)
<1>1. /\ n \in Nat \ {0} /\ Len(t) = n - 1 /\ (\A i \in 1..Len(t) : t[i] = s[i + 1]) /\ Head(s) = s[1]
  <2>1. Len(t) = n - 1 /\ \A i \in 1..Len(t) : t[i] = s[i + 1]
    BY HeadTailProperties
  <2> QED  BY <2>1, LenProperties, EmptySeq
<1>2. h \in [0..n -> Tracker] /\ h[0] = base /\ \A i \in 1..n : h[i] = Noted(h[i - 1], s[i])
  BY DEF Notes
<1> HIDE DEF t, n
<1> DEFINE g == [i \in 0..(n - 1) |-> h[i + 1]]
<1>3. g \in [0..(n - 1) -> Tracker] /\ g[0] = Noted(base, Head(s)) /\ g[n - 1] = h[n]
  <2>1. h[1] = Noted(h[0], s[1])
    BY <1>1, <1>2
  <2> QED  BY <1>1, <1>2, <2>1
<1>4. ASSUME NEW i \in 1..(n - 1)
      PROVE  g[i] = Noted(g[i - 1], t[i])
  <2>1. g[i] = h[i + 1] /\ g[i - 1] = h[i] /\ t[i] = s[i + 1] /\ i + 1 \in 1..n /\ (i + 1) - 1 = i
    BY <1>1
  <2> HIDE DEF g
  <2> QED  BY <1>2, <2>1
<1> HIDE DEF g
<1>5. Notes(g, Noted(base, Head(s)), t) /\ g[Len(t)] = h[n]
  BY <1>1, <1>3, <1>4 DEF Notes
<1> QED  BY <1>5 DEF t, n

LEMMA NothingYet ==
  ASSUME NEW t \in Tracker
  PROVE  /\ \E h : Replays(h, t, <<>>) /\ h[Len(<<>>)] = t
         /\ \E h : Notes(h, t, <<>>) /\ h[Len(<<>>)] = t
<1> DEFINE h == [i \in 0..0 |-> t]
<1>1. Len(<<>>) = 0
  BY EmptySeq
<1>2. h \in [0..0 -> Tracker] /\ h[0] = t /\ 1..0 = {}
  OBVIOUS
<1> HIDE DEF h
<1>3. Replays(h, t, <<>>) /\ Notes(h, t, <<>>) /\ h[Len(<<>>)] = t
  BY <1>1, <1>2 DEF Replays, Notes
<1> QED  BY <1>3

-----------------------------------------------------------------------------
(* The recorded actions and the events replay what has happened.           *)

(* The recorded actions that have been applied: not yet the last one while *)
(* its caller holds the lock.                                              *)
Done == IF holder["clientset"] = {} THEN actions["clientset"] ELSE Front(actions["clientset"])

PendingInv ==
  \A c \in holder["clientset"] :
    actions["clientset"] # <<>> /\ \A o \in call[c] : Last(actions["clientset"]) = ActionOf(o)

ReplayInv == running => \E h : Replays(h, given, Done) /\ h[Len(Done)] = objects

WatchInv ==
  \A w \in Watchers : \A x \in watches[w] :
    /\ x.namespace = x.asked
    /\ \E h : Notes(h, x.seen, x.events) /\ h[Len(x.events)] = Within(x.asked, objects)

RInv == IInv /\ PendingInv /\ ReplayInv /\ WatchInv

LEMMA DoneTyped ==
  ASSUME IInv, PendingInv
  PROVE  Done \in Seq(Recordable)
<1>1. actions["clientset"] \in Seq(Recordable) /\ holder["clientset"] \in Opt(Callers)
  BY DEF IInv, Typed, Fakes
<1>2. holder["clientset"] # {} => actions["clientset"] # <<>>
  BY DEF PendingInv
<1> QED  BY <1>1, <1>2, FrontOfRecorded DEF Done

(* What the state has not done to the record and to the watches.           *)
LEMMA RecordStays ==
  ASSUME RInv, UNCHANGED <<given, objects, holder, running>>, actions'["clientset"] = actions["clientset"],
         \A c \in holder["clientset"] : call'[c] = call[c]
  PROVE  PendingInv' /\ ReplayInv'
<1>1. Done' = Done
  BY DEF Done
<1> QED  BY <1>1 DEF RInv, PendingInv, ReplayInv

LEMMA RecordGrows ==
  ASSUME RInv, NEW a \in Recordable, Recorded("clientset", a), UNCHANGED <<given, running>>
  PROVE  /\ actions'["clientset"] = Append(Done, a) /\ Done = actions["clientset"] /\ Done \in Seq(Recordable)
         /\ Front(actions'["clientset"]) = Done /\ Last(actions'["clientset"]) = a /\ actions'["clientset"] # <<>>
<1>1. Done = actions["clientset"] /\ actions'["clientset"] = Append(Done, a)
  BY DEF Recorded, Done, RInv, IInv, Typed, Fakes
<1>2. Done \in Seq(Recordable)
  BY DoneTyped DEF RInv
<1>3. Append(Done, a) # <<>>
  BY <1>2, AppendProperties
<1> QED  BY <1>1, <1>2, <1>3, FrontOfRecorded

LEMMA InvokeRecords ==
  ASSUME RInv, NEW c \in Callers, Invoke(c)
  PROVE  PendingInv' /\ ReplayInv'
<1>1. PICK o \in call[c] : Recorded("clientset", ActionOf(o))
  BY DEF Invoke, FakeOf
<1>2. o \in Operations /\ Wellformed(o) /\ call[c] = {o}
  BY OptProperties DEF RInv, IInv, Typed, CallInv
<1>3. /\ holder' = [holder EXCEPT !["clientset"] = {c}]
      /\ UNCHANGED <<given, objects, call, running>>
  BY DEF Invoke, FakeOf
<1>4. ActionOf(o) \in Recordable
  BY <1>2, ActionFacts
<1>5. /\ Front(actions'["clientset"]) = Done /\ Last(actions'["clientset"]) = ActionOf(o)
      /\ actions'["clientset"] # <<>>
  BY <1>1, <1>3, <1>4, RecordGrows
<1>6. holder'["clientset"] = {c}
  BY <1>3 DEF RInv, IInv, Typed, Fakes
<1>7. Done' = Done
  BY <1>5, <1>6 DEF Done
<1>8. ReplayInv'
  BY <1>3, <1>7 DEF RInv, ReplayInv
<1>9. PendingInv'
  BY <1>2, <1>3, <1>5, <1>6 DEF PendingInv
<1> QED  BY <1>8, <1>9

LEMMA WatchRecords ==
  ASSUME RInv, NEW w \in Watchers, NEW ns \in Scopes[w], Watch(w, ns)
  PROVE  PendingInv' /\ ReplayInv'
<1> DEFINE a == Action("watch", ns, {}, {})
<1>1. Recorded("clientset", a) /\ UNCHANGED <<given, objects, holder, call, running>>
  BY DEF Watch
<1>2. ns \in Namespaces
  BY ScopesAssumption
<1>3. a \in Recordable
  BY <1>2, OptProperties DEF Action, Recordable
<1>4. Applied(objects, a) = objects
  <2>1. \A k \in Keys : {k.name} # a.name
    BY DEF Action
  <2>2. objects = [k \in Keys |-> objects[k]]
    BY DEF RInv, IInv, Typed
  <2> HIDE DEF a
  <2> QED  BY <2>1, <2>2 DEF Applied
<1> HIDE DEF a
<1>5. actions'["clientset"] = Append(Done, a) /\ Done \in Seq(Recordable)
  BY <1>1, <1>3, RecordGrows
<1>6. holder["clientset"] = {}
  BY <1>1 DEF Recorded
<1>7. Done' = Append(Done, a)
  BY <1>1, <1>5, <1>6 DEF Done
<1>8. ASSUME running
      PROVE  \E g : Replays(g, given, Append(Done, a)) /\ g[Len(Append(Done, a))] = objects
  <2>1. PICK h : Replays(h, given, Done) /\ h[Len(Done)] = objects
    BY <1>8 DEF RInv, ReplayInv
  <2>2. \E g : Replays(g, given, Append(Done, a)) /\ g[Len(Append(Done, a))] = Applied(h[Len(Done)], a)
    BY <1>3, <1>5, <2>1, ReplaysOneMore
  <2> QED  BY <1>4, <2>1, <2>2
<1>9. ReplayInv'
  BY <1>1, <1>7, <1>8 DEF ReplayInv
<1>10. PendingInv'
  BY <1>1, <1>6 DEF PendingInv
<1> QED  BY <1>9, <1>10

LEMMA ReactReplays ==
  ASSUME RInv, NEW c \in Callers, React(c)
  PROVE  PendingInv' /\ ReplayInv'
<1>1. holder["clientset"] = {c} /\ IInv
  BY HowReacts DEF RInv
<1>2. PICK o \in call[c] :
        /\ o \in Operations /\ Wellformed(o)
        /\ Panics(c) \/ Applies(c, o, ActionOf(o))
  BY HowReacts DEF RInv
<1>3. CASE Panics(c)
  BY <1>3 DEF Panics, PendingInv, ReplayInv, RInv
<1>4. CASE Applies(c, o, ActionOf(o))
  <2> DEFINE a == ActionOf(o)
  <2>1. holder' = [holder EXCEPT !["clientset"] = {}] /\ objects' = Applied(objects, a)
        /\ UNCHANGED <<given, actions, call, running>>
    BY <1>4 DEF Applies
  <2>2. holder'["clientset"] = {}
    BY <1>1, <2>1 DEF IInv, Typed, Fakes
  <2>3. a \in Recordable
    BY <1>2, ActionFacts
  <2>4. actions["clientset"] \in Seq(Recordable) /\ actions["clientset"] # <<>> /\ Last(actions["clientset"]) = a
    BY <1>1 DEF RInv, PendingInv, IInv, Typed, Fakes
  <2>5. Done = Front(actions["clientset"]) /\ Done' = actions["clientset"]
    BY <1>1, <2>1, <2>2 DEF Done
  <2>6. Done' = Append(Done, a) /\ Done \in Seq(Recordable)
    BY <2>4, <2>5, FrontOfRecorded
  <2> HIDE DEF a
  <2>7. ASSUME running
        PROVE  \E g : Replays(g, given, Append(Done, a)) /\ g[Len(Append(Done, a))] = Applied(objects, a)
    <3>1. PICK h : Replays(h, given, Done) /\ h[Len(Done)] = objects
      BY <2>7 DEF RInv, ReplayInv
    <3>2. \E g : Replays(g, given, Append(Done, a)) /\ g[Len(Append(Done, a))] = Applied(h[Len(Done)], a)
      BY <2>3, <2>6, <3>1, ReplaysOneMore
    <3> QED  BY <3>1, <3>2
  <2>8. ReplayInv'
    BY <2>1, <2>6, <2>7 DEF ReplayInv
  <2>9. PendingInv'
    BY <2>2 DEF PendingInv
  <2> QED  BY <2>8, <2>9
<1> QED  BY <1>2, <1>3, <1>4

(* A watch of the namespace ns is told of the action a.                    *)
Hears(ns, a) ==
  a.verb \in {"create", "update", "delete"} /\ Failure(a) = "ok" /\ ns \in {"", a.namespace}

(* A watcher is told of what changes where it watches, and of nothing else. *)
LEMMA ChangesAreTold ==
  ASSUME IInv, NEW o \in Operations, Wellformed(o), NEW ns \in Namespaces
  PROVE  Within(ns, Applied(objects, ActionOf(o)))
         = IF Hears(ns, ActionOf(o)) THEN Noted(Within(ns, objects), Event(ActionOf(o))) ELSE Within(ns, objects)
<1> DEFINE a == ActionOf(o)
           told == Hears(ns, a)
<1>1. objects \in Tracker
  BY DEF IInv, Typed, Tracker
<1>2. Applied(objects, a) \in Tracker
  BY <1>1, AppliedTyped DEF Tracker
<1>3. CASE o.method \in Collective
  <2>1. Applied(objects, a) = objects
    BY <1>1, <1>3, CollectiveApplied DEF Tracker
  <2>2. ~told
    BY <1>3, ActionFacts DEF Collective, Hears
  <2> QED  BY <2>1, <2>2
<1>4. CASE o.method \notin Collective
  <2> DEFINE k == o.body.key
             new == Applied(objects, a)
  <2>1. k \in Keys /\ k.namespace = a.namespace /\ k.namespace # ""
    BY <1>4, NamedKey, KeyProperties
  <2>2. Event(a).key = k /\ Event(a).label = new[k]
    <3>1. Event(a) = [key |-> k, label |-> new[k]]
      BY <1>4, EventKey
    <3> HIDE DEF a, k, new
    <3> QED  BY <3>1
  <2>3. \A l \in Keys \ {k} : new[l] = objects[l]
    <3>1. \A l \in Keys : l.namespace = a.namespace /\ {l.name} = a.name <=> l = k
      BY <1>4, NamedKey
    <3> QED  BY <3>1 DEF Applied
  <2>4. ASSUME ~(a.verb \in {"create", "update", "delete"} /\ Failure(a) = "ok")
        PROVE  new = objects
    <3>1. Typed
      BY DEF IInv
    <3>2. Matching(a) = {l \in {k} : objects[l] # {}}
      BY <1>4, <3>1, NamedMatches
    <3>3. /\ o.method = "Create" <=> a.verb = "create"
          /\ o.method = "Update" <=> a.verb = "update"
          /\ o.method = "Delete" <=> a.verb = "delete"
      BY ActionFacts
    <3>4. CASE o.method = "Delete"
      <4>1. objects[k] = {}
        BY <2>4, <3>2, <3>3, <3>4 DEF Failure
      <4>2. objects \in [Keys -> Opt(Labels)]
        BY <1>1 DEF Tracker
      <4>3. Applied(objects, a) = [objects EXCEPT ![o.body.key] = {}]
        BY <1>4, <3>4, <4>2, NamedApplied
      <4> QED  BY <4>1, <4>2, <4>3
    <3>5. CASE o.method # "Delete"
      <4>1. ~(o.method = "Create" /\ objects[k] = {}) /\ ~(o.method = "Update" /\ objects[k] # {})
        BY <2>4, <3>2, <3>3 DEF Failure
      <4> QED  BY <1>1, <1>4, <3>5, <4>1, NamedApplied DEF Tracker
    <3> QED  BY <3>4, <3>5
  <2> HIDE DEF new, k
  <2>5. CASE told
    <3>1. ns \in {"", k.namespace}
      BY <2>1, <2>5 DEF Hears
    <3>2. \A l \in Keys : Within(ns, new)[l] = IF l = k THEN new[k] ELSE Within(ns, objects)[l]
      BY <2>3, <3>1 DEF Within
    <3>3. Noted(Within(ns, objects), Event(a)) = [Within(ns, objects) EXCEPT ![k] = new[k]]
      BY <2>2 DEF Noted
    <3>4. Within(ns, new) = [l \in Keys |-> Within(ns, new)[l]] /\ Within(ns, objects) = [l \in Keys |-> Within(ns, objects)[l]]
      BY DEF Within
    <3>5. Within(ns, new) = [Within(ns, objects) EXCEPT ![k] = new[k]]
      BY <2>1, <3>2, <3>4
    <3> QED  BY <2>5, <3>3, <3>5 DEF new
  <2>6. CASE ~told /\ ns \in {"", a.namespace}
    <3>1. new = objects
      BY <2>4, <2>6 DEF Hears
    <3> QED  BY <2>6, <3>1 DEF new
  <2>7. CASE ~told /\ ns \notin {"", a.namespace}
    <3>1. \A l \in Keys : ns \in {"", l.namespace} => new[l] = objects[l]
      BY <2>1, <2>3, <2>7
    <3>2. Within(ns, new) = Within(ns, objects)
      BY <3>1 DEF Within
    <3> QED  BY <2>7, <3>2 DEF new
  <2> QED  BY <2>5, <2>6, <2>7
<1> QED  BY <1>3, <1>4

LEMMA WatchTyped ==
  ASSUME IInv, NEW w \in Watchers, NEW x \in watches[w]
  PROVE  x \in Watching /\ watches[w] = {x} /\ x.events \in Seq(Report) /\ x.namespace \in Namespaces
<1>1. x \in Watching /\ watches[w] = {x}
  BY OptProperties DEF IInv, Typed
<1> QED  BY <1>1 DEF Watching

LEMMA ReactTells ==
  ASSUME RInv, NEW c \in Callers, React(c)
  PROVE  WatchInv'
<1>1. PICK o \in call[c] :
        /\ o \in Operations /\ Wellformed(o)
        /\ Panics(c) \/ Applies(c, o, ActionOf(o))
  BY HowReacts DEF RInv
<1>2. CASE Panics(c)
  BY <1>2 DEF Panics, WatchInv, RInv
<1>3. CASE Applies(c, o, ActionOf(o))
  <2> DEFINE a == ActionOf(o)
  <2> SUFFICES ASSUME NEW w \in Watchers, NEW y \in watches'[w]
               PROVE  /\ y.namespace = y.asked
                      /\ \E h : Notes(h, y.seen, y.events) /\ h[Len(y.events)] = Within(y.asked, objects')
    BY DEF WatchInv
  <2>1. PICK x \in watches[w] :
          /\ w \in Told(a) => y = [x EXCEPT !.events = Append(@, Event(a))]
          /\ w \notin Told(a) => y = x
    BY <1>3 DEF Applies
  <2>2. x \in Watching /\ watches[w] = {x} /\ x.events \in Seq(Report) /\ x.namespace \in Namespaces
    BY WatchTyped DEF RInv
  <2>3. x.namespace = x.asked
    BY DEF RInv, WatchInv
  <2>4. PICK h : Notes(h, x.seen, x.events) /\ h[Len(x.events)] = Within(x.asked, objects)
    BY DEF RInv, WatchInv
  <2>5. w \in Told(a) <=> Hears(x.asked, a)
    BY <2>2, <2>3 DEF Told, Hears
  <2>6. Within(x.asked, Applied(objects, a))
        = IF Hears(x.asked, a) THEN Noted(Within(x.asked, objects), Event(a)) ELSE Within(x.asked, objects)
    BY <1>1, <2>2, <2>3, ChangesAreTold DEF RInv
  <2>7. objects' = Applied(objects, a)
    BY <1>3 DEF Applies
  <2>8. CASE w \in Told(a)
    <3>1. Event(a) \in Report
      BY <1>1, <2>8, ToldByNamed DEF RInv, IInv
    <3>2. \E g : /\ Notes(g, x.seen, Append(x.events, Event(a)))
                 /\ g[Len(Append(x.events, Event(a)))] = Noted(h[Len(x.events)], Event(a))
      BY <2>2, <2>4, <3>1, NotesOneMore
    <3>3. /\ y.seen = x.seen /\ y.asked = x.asked /\ y.namespace = x.namespace
          /\ y.events = Append(x.events, Event(a))
      BY <2>1, <2>2, <2>8 DEF Watching
    <3>4. Within(y.asked, objects') = Noted(h[Len(x.events)], Event(a))
      BY <2>4, <2>5, <2>6, <2>7, <2>8, <3>3
    <3> QED  BY <2>3, <3>2, <3>3, <3>4
  <2>9. CASE w \notin Told(a)
    BY <2>1, <2>3, <2>4, <2>5, <2>6, <2>7, <2>9
  <2> QED  BY <2>8, <2>9
<1> QED  BY <1>1, <1>2, <1>3

LEMMA WatchStarts ==
  ASSUME RInv, NEW w \in Watchers, NEW ns \in Scopes[w], Watch(w, ns)
  PROVE  WatchInv'
<1> DEFINE x == [namespace |-> ns, asked |-> ns, events |-> <<>>, seen |-> Within(ns, objects)]
<1>1. /\ UNCHANGED objects
      /\ watches' = [watches EXCEPT ![w] = {x}]
  BY DEF Watch, WatchReactor
<1>2. Within(ns, objects) \in Tracker
  BY OptProperties DEF RInv, IInv, Typed, Within, Tracker
<1>3. /\ x.namespace = x.asked
      /\ \E h : Notes(h, x.seen, x.events) /\ h[Len(x.events)] = Within(x.asked, objects)
  BY <1>2, NothingYet
<1> HIDE DEF x
<1>4. \A v \in Watchers : watches'[v] = IF v = w THEN {x} ELSE watches[v]
  BY <1>1 DEF RInv, IInv, Typed
<1> QED  BY <1>1, <1>3, <1>4 DEF RInv, WatchInv

LEMMA ConsumeNotes ==
  ASSUME RInv, NEW w \in Watchers, Consume(w)
  PROVE  WatchInv'
<1> DEFINE Taken(x) == [x EXCEPT !.events = Tail(@), !.seen[Head(x.events).key] = Head(x.events).label]
<1>1. PICK x \in watches[w] : x.events # <<>> /\ watches' = [watches EXCEPT ![w] = {Taken(x)}]
  BY DEF Consume
<1>2. x \in Watching /\ x.events \in Seq(Report) /\ UNCHANGED objects
  BY <1>1, WatchTyped DEF RInv, Consume
<1> DEFINE y == Taken(x)
<1>3. /\ y.namespace = x.namespace /\ y.asked = x.asked /\ y.events = Tail(x.events)
      /\ y.seen = Noted(x.seen, Head(x.events))
  BY <1>2 DEF Watching, Noted
<1>4. PICK h : Notes(h, x.seen, x.events) /\ h[Len(x.events)] = Within(x.asked, objects)
  BY DEF RInv, WatchInv
<1>5. \E g : Notes(g, Noted(x.seen, Head(x.events)), Tail(x.events)) /\ g[Len(Tail(x.events))] = h[Len(x.events)]
  BY <1>1, <1>2, <1>4, NotesOneLess
<1>6. /\ y.namespace = y.asked
      /\ \E g : Notes(g, y.seen, y.events) /\ g[Len(y.events)] = Within(y.asked, objects)
  <2> HIDE DEF y
  <2> QED  BY <1>3, <1>4, <1>5 DEF RInv, WatchInv
<1>7. watches' = [watches EXCEPT ![w] = {y}]
  BY <1>1
<1> HIDE DEF y
<1>8. \A v \in Watchers : watches'[v] = IF v = w THEN {y} ELSE watches[v]
  BY <1>7 DEF RInv, IInv, Typed
<1> QED  BY <1>2, <1>6, <1>8 DEF RInv, WatchInv

LEMMA InitRInv == Init => RInv
<1> SUFFICES ASSUME Init
             PROVE  RInv
  OBVIOUS
<1>1. IInv
  BY InitInv
<1>2. Done = <<>> /\ given \in Tracker /\ objects = given
  BY <1>1 DEF Init, Done, Fakes, IInv, Typed, Tracker
<1>3. ReplayInv
  <2>1. \E h : Replays(h, given, <<>>) /\ h[Len(<<>>)] = given
    BY <1>2, NothingYet
  <2> QED  BY <1>2, <2>1 DEF ReplayInv
<1>4. PendingInv /\ WatchInv
  BY DEF Init, PendingInv, WatchInv, Fakes
<1> QED  BY <1>1, <1>3, <1>4 DEF RInv

LEMMA NextRInv == RInv /\ [Next]_vars => RInv'
<1> SUFFICES ASSUME RInv, [Next]_vars
             PROVE  RInv'
  OBVIOUS
<1>1. IInv'
  BY NextInv DEF RInv
<1>2. ASSUME UNCHANGED <<objects, watches>>
      PROVE  WatchInv'
  BY <1>2 DEF RInv, WatchInv
<1>3. CASE UNCHANGED vars
  <2>1. PendingInv' /\ ReplayInv'
    BY <1>3, RecordStays DEF vars
  <2> QED  BY <1>1, <1>2, <1>3, <2>1 DEF vars, RInv
<1>4. ASSUME NEW c \in Callers, NEW o \in Ops(c), Call(c, o)
      PROVE  RInv'
  <2>1. /\ UNCHANGED <<given, objects, actions, holder, watches, running>>
        /\ call[c] = {} /\ call' = [call EXCEPT ![c] = {o}]
    BY <1>4 DEF Call
  <2>2. \A d \in holder["clientset"] : d # c
    BY <2>1 DEF RInv, IInv, CallInv, Fakes
  <2>3. \A d \in holder["clientset"] : call'[d] = call[d]
    BY <2>1, <2>2, OptProperties DEF RInv, IInv, Typed, Fakes
  <2>4. PendingInv' /\ ReplayInv'
    BY <2>1, <2>3, RecordStays
  <2> QED  BY <1>1, <1>2, <2>1, <2>4 DEF RInv
<1>5. ASSUME NEW c \in Callers, Invoke(c)
      PROVE  RInv'
  BY <1>1, <1>2, <1>5, InvokeRecords DEF Invoke, RInv
<1>6. ASSUME NEW c \in Callers, React(c)
      PROVE  RInv'
  BY <1>1, <1>6, ReactReplays, ReactTells DEF RInv
<1>7. ASSUME NEW c \in Callers, Return(c)
      PROVE  RInv'
  <2>1. /\ UNCHANGED <<given, objects, actions, holder, watches, running>>
        /\ outcome[c] # {} /\ call' = [call EXCEPT ![c] = {}]
    BY <1>7 DEF Return
  <2>2. \A d \in holder["clientset"] : d # c
    BY <2>1 DEF RInv, IInv, CallInv, Fakes
  <2>3. \A d \in holder["clientset"] : call'[d] = call[d]
    BY <2>1, <2>2, OptProperties DEF RInv, IInv, Typed, Fakes
  <2>4. PendingInv' /\ ReplayInv'
    BY <2>1, <2>3, RecordStays
  <2> QED  BY <1>1, <1>2, <2>1, <2>4 DEF RInv
<1>8. ASSUME NEW w \in Watchers, NEW ns \in Scopes[w], Watch(w, ns)
      PROVE  RInv'
  BY <1>1, <1>8, WatchRecords, WatchStarts DEF RInv
<1>9. ASSUME NEW w \in Watchers, Consume(w)
      PROVE  RInv'
  <2>1. PendingInv' /\ ReplayInv'
    BY <1>9, RecordStays DEF Consume
  <2> QED  BY <1>1, <1>9, <2>1, ConsumeNotes DEF RInv
<1>10. ASSUME NEW w \in Watchers, Stop(w)
       PROVE  RInv'
  <2>1. PendingInv' /\ ReplayInv'
    BY <1>10, RecordStays DEF Stop
  <2>2. watches' = [watches EXCEPT ![w] = {}] /\ UNCHANGED objects
    BY <1>10 DEF Stop
  <2>3. \A v \in Watchers : watches'[v] = IF v = w THEN {} ELSE watches[v]
    BY <2>2 DEF RInv, IInv, Typed
  <2>4. WatchInv'
    BY <2>2, <2>3 DEF RInv, WatchInv
  <2> QED  BY <1>1, <2>1, <2>4 DEF RInv
<1>11. ASSUME Discover
       PROVE  RInv'
  <2>1. UNCHANGED <<given, objects, holder, watches, call, running>>
    BY <1>11 DEF Discover
  <2>2. actions'["clientset"] = actions["clientset"]
    BY <1>11 DEF Discover, Recorded, RInv, IInv, Typed, Fakes
  <2>3. PendingInv' /\ ReplayInv'
    BY <2>1, <2>2, RecordStays
  <2> QED  BY <1>1, <1>2, <2>1, <2>3 DEF RInv
<1> QED  BY <1>3, <1>4, <1>5, <1>6, <1>7, <1>8, <1>9, <1>10, <1>11 DEF Next

LEMMA ReplayInvariance == Spec => []RInv
BY InitRInv, NextRInv, PTL DEF Spec

(* However many goroutines, policies and actions: while nothing has        *)
(* panicked, the recorded actions that have been applied, folded over what *)
(* NewSimpleClientset was given, are what the tracker holds.               *)
THEOREM RecordReplays == Spec => []ActionsReplay
<1>1. RInv => ActionsReplay
  <2> SUFFICES ASSUME RInv, running
               PROVE  FoldLeft(Applied, given, Done) = objects
    BY DEF ActionsReplay, Done
  <2>1. PICK h : Replays(h, given, Done) /\ h[Len(Done)] = objects
    BY DEF RInv, ReplayInv
  <2>2. Done \in Seq(Recordable)
    BY DoneTyped DEF RInv
  <2> QED  BY <2>1, <2>2, ReplayValue
<1> QED  BY <1>1, ReplayInvariance, PTL

(* However many watchers, of whatever namespaces and with whatever         *)
(* capacity: what a watcher has seen, updated by the events it has not yet *)
(* taken, is the present content of the namespace it asked for.            *)
THEOREM WatchersAreTold == Spec => []WatchersMissNothing
<1>1. RInv => WatchersMissNothing
  <2> SUFFICES ASSUME RInv, NEW w \in Watchers, NEW x \in watches[w]
               PROVE  Within(x.asked, objects)
                      = FoldLeft(LAMBDA seen, e : [seen EXCEPT ![e.key] = e.label], x.seen, x.events)
    BY DEF WatchersMissNothing
  <2>1. PICK h : Notes(h, x.seen, x.events) /\ h[Len(x.events)] = Within(x.asked, objects)
    BY DEF RInv, WatchInv
  <2>2. x.events \in Seq(Report)
    BY WatchTyped DEF RInv
  <2> QED  BY <2>1, <2>2, NotesValue
<1> QED  BY <1>1, ReplayInvariance, PTL

-----------------------------------------------------------------------------
(* A test panics only with more actions on record than a channel can hold. *)

(* Every event in a channel comes of an action that has been applied.      *)
EventsInv ==
  /\ running => \A w \in Watchers : \A x \in watches[w] : Len(x.events) <= Len(Done)
  /\ ~running => Len(actions["clientset"]) > Capacity

LEMMA RecordLength ==
  ASSUME RInv
  PROVE  /\ actions["clientset"] \in Seq(Recordable) /\ Len(actions["clientset"]) \in Nat /\ Len(Done) \in Nat
         /\ holder["clientset"] = {} => Len(Done) = Len(actions["clientset"])
         /\ holder["clientset"] # {} => Len(Done) + 1 = Len(actions["clientset"])
<1>1. actions["clientset"] \in Seq(Recordable)
  BY DEF RInv, IInv, Typed, Fakes
<1>2. holder["clientset"] # {} => actions["clientset"] # <<>>
  BY OptProperties DEF RInv, PendingInv, IInv, Typed, Fakes
<1>3. CASE holder["clientset"] = {}
  BY <1>1, <1>3, LenProperties DEF Done
<1>4. CASE holder["clientset"] # {}
  <2>1. /\ Len(actions["clientset"]) \in Nat \ {0}
        /\ Len(Front(actions["clientset"])) = Len(actions["clientset"]) - 1
    BY <1>1, <1>2, <1>4, FrontOf
  <2> QED  BY <1>1, <1>4, <2>1 DEF Done
<1> QED  BY <1>3, <1>4

(* A channel grows by no more than the applied actions do.                 *)
LEMMA EventsFollow ==
  ASSUME EventsInv, running, running', NEW n \in Nat, NEW m \in Nat, n = Len(Done), m = Len(Done)', n <= m,
         \A w \in Watchers : \A y \in watches'[w] :
           \/ Len(y.events) = 0
           \/ \E x \in watches[w] : Len(x.events) \in Nat /\ Len(y.events) \in Nat /\ Len(y.events) <= Len(x.events)
           \/ \E x \in watches[w] : Len(x.events) \in Nat /\ Len(y.events) = Len(x.events) + 1 /\ m = n + 1
  PROVE  EventsInv'
<1> SUFFICES ASSUME NEW w \in Watchers, NEW y \in watches'[w], NEW k, k = Len(y.events)
             PROVE  k <= m
  BY DEF EventsInv
<1>1. \A x \in watches[w] : Len(x.events) <= n
  BY DEF EventsInv
<1>2. CASE k = 0
  BY <1>2
<1>3. ASSUME NEW x \in watches[w], NEW j \in Nat, j = Len(x.events), k \in Nat, k <= j
      PROVE  k <= m
  <2>1. j <= n
    BY <1>1, <1>3
  <2> QED  BY <1>3, <2>1
<1>4. ASSUME NEW x \in watches[w], NEW j \in Nat, j = Len(x.events), k = j + 1, m = n + 1
      PROVE  k <= m
  <2>1. j <= n
    BY <1>1, <1>4
  <2> QED  BY <1>4, <2>1
<1> QED  BY <1>2, <1>3, <1>4

LEMMA ReactFull ==
  ASSUME IInv, NEW c \in Callers, React(c), ~running'
  PROVE  \E w \in Watchers : \E x \in watches[w] : Len(x.events) >= Capacity
<1>1. PICK o \in call[c] : Full(ActionOf(o))
  BY DEF React
<1> QED  BY <1>1 DEF Full, Told

LEMMA PanicCounts ==
  ASSUME RInv, EventsInv, NEW c \in Callers, React(c), ~running'
  PROVE  Len(actions["clientset"]) > Capacity
<1>1. PICK w \in Watchers : \E x \in watches[w] : Len(x.events) >= Capacity
  BY ReactFull DEF RInv
<1>2. PICK x \in watches[w] : Len(x.events) >= Capacity
  BY <1>1
<1>3. Len(x.events) \in Nat
  BY WatchTyped, LenProperties DEF RInv
<1>4. running /\ holder["clientset"] # {}
  BY HowReacts DEF React, RInv
<1>5. Len(x.events) <= Len(Done)
  BY <1>4 DEF EventsInv
<1>6. Len(Done) \in Nat /\ Len(Done) + 1 = Len(actions["clientset"])
  BY <1>4, RecordLength
<1> QED  BY <1>2, <1>3, <1>5, <1>6, BoundsAssumption

LEMMA ReactCounts ==
  ASSUME RInv, RInv', EventsInv, NEW c \in Callers, React(c)
  PROVE  EventsInv'
<1>1. running /\ holder["clientset"] = {c}
  BY HowReacts DEF React, RInv
<1>2. UNCHANGED actions
  BY DEF React
<1>3. CASE ~running'
  BY <1>2, <1>3, PanicCounts DEF EventsInv
<1>4. CASE running'
  <2>1. PICK o \in call[c] : o \in Operations /\ Wellformed(o) /\ (Panics(c) \/ Applies(c, o, ActionOf(o)))
    BY HowReacts DEF RInv
  <2> DEFINE a == ActionOf(o)
  <2>2. Applies(c, o, a)
    BY <1>4, <2>1 DEF Panics
  <2>3. holder'["clientset"] = {}
    BY <2>2 DEF Applies, RInv, IInv, Typed, Fakes
  <2>4. Done' = actions["clientset"]
    BY <1>2, <2>3 DEF Done
  <2>5. Len(Done) \in Nat /\ Len(Done') = Len(Done) + 1
    BY <1>1, <2>4, RecordLength
  <2>6. ASSUME NEW w \in Watchers, NEW y \in watches'[w]
        PROVE  \E x \in watches[w] : /\ Len(x.events) \in Nat /\ Len(y.events) \in Nat
                                     /\ Len(y.events) <= Len(x.events) \/ Len(y.events) = Len(x.events) + 1
    <3>1. PICK x \in watches[w] : y = IF w \in Told(a) THEN [x EXCEPT !.events = Append(@, Event(a))] ELSE x
      BY <2>2 DEF Applies
    <3>2. x \in Watching /\ x.events \in Seq(Report) /\ Len(x.events) \in Nat
      BY WatchTyped, LenProperties DEF RInv
    <3>3. CASE w \in Told(a)
      <4>1. Event(a) \in Report
        BY <2>1, <3>3, ToldByNamed DEF RInv, IInv
      <4>2. y.events = Append(x.events, Event(a))
        BY <3>1, <3>2, <3>3 DEF Watching
      <4>3. Len(y.events) = Len(x.events) + 1
        BY <3>2, <4>1, <4>2, AppendProperties
      <4> QED  BY <3>2, <4>3
    <3>4. CASE w \notin Told(a)
      BY <3>1, <3>2, <3>4
    <3> QED  BY <3>3, <3>4
  <2> HIDE DEF a
  <2> QED  BY <1>1, <1>4, <2>5, <2>6, EventsFollow
<1> QED  BY <1>3, <1>4

LEMMA WatchCounts ==
  ASSUME RInv, EventsInv, NEW w \in Watchers, NEW ns \in Scopes[w], Watch(w, ns)
  PROVE  EventsInv'
<1> DEFINE a == Action("watch", ns, {}, {})
           x == [namespace |-> WatchReactor(ns), asked |-> ns, events |-> <<>>, seen |-> Within(ns, objects)]
<1>1. /\ running /\ Recorded("clientset", a) /\ UNCHANGED <<given, objects, holder, call, running>>
      /\ watches' = [watches EXCEPT ![w] = {x}]
  BY DEF Watch
<1>2. ns \in Namespaces
  BY ScopesAssumption
<1>3. a \in Recordable
  BY <1>2, OptProperties DEF Action, Recordable
<1>4. Len(x.events) = 0
  BY EmptySeq
<1> HIDE DEF a, x
<1>5. actions'["clientset"] = Append(Done, a) /\ Done \in Seq(Recordable)
  BY <1>1, <1>3, RecordGrows
<1>6. Done' = Append(Done, a)
  BY <1>1, <1>5 DEF Recorded, Done
<1>7. Len(Append(Done, a)) = Len(Done) + 1 /\ Len(Done) \in Nat
  BY <1>3, <1>5, AppendProperties, LenProperties
<1>8. \A v \in Watchers : watches'[v] = IF v = w THEN {x} ELSE watches[v]
  BY <1>1 DEF RInv, IInv, Typed
<1>9. ASSUME NEW v \in Watchers, NEW y \in watches'[v]
      PROVE  \/ Len(y.events) = 0
             \/ \E z \in watches[v] : Len(z.events) \in Nat /\ Len(y.events) \in Nat /\ Len(y.events) <= Len(z.events)
  <2>1. CASE v = w
    BY <1>4, <1>8, <2>1
  <2>2. CASE v # w
    <3>1. y \in watches[v]
      BY <1>8, <2>2
    <3>2. Len(y.events) \in Nat
      BY <3>1, WatchTyped, LenProperties DEF RInv
    <3> QED  BY <3>1, <3>2
  <2> QED  BY <2>1, <2>2
<1>10. running' /\ Len(Done') \in Nat /\ Len(Done) <= Len(Done')
  BY <1>1, <1>6, <1>7
<1> QED  BY <1>1, <1>7, <1>9, <1>10, EventsFollow

(* Nothing is recorded, or something that is not yet applied.              *)
LEMMA OthersCount ==
  ASSUME RInv, EventsInv, running, running', Done' = Done,
         \A w \in Watchers : \A y \in watches'[w] :
           Len(y.events) = 0
           \/ y \in watches[w]
           \/ \E x \in watches[w] : x.events # <<>> /\ y.events = Tail(x.events)
  PROVE  EventsInv'
<1>1. Len(Done) \in Nat /\ Len(Done') \in Nat /\ Len(Done) <= Len(Done')
  BY RecordLength
<1>2. ASSUME NEW w \in Watchers, NEW y \in watches'[w]
      PROVE  \/ Len(y.events) = 0
             \/ \E x \in watches[w] : Len(x.events) \in Nat /\ Len(y.events) \in Nat /\ Len(y.events) <= Len(x.events)
  <2>1. ASSUME y \in watches[w]
        PROVE  Len(y.events) \in Nat
    BY <2>1, WatchTyped, LenProperties DEF RInv
  <2>2. ASSUME NEW x \in watches[w], x.events # <<>>, y.events = Tail(x.events)
        PROVE  Len(x.events) \in Nat /\ Len(y.events) \in Nat /\ Len(y.events) <= Len(x.events)
    <3>1. x.events \in Seq(Report)
      BY <2>2, WatchTyped DEF RInv
    <3>2. Len(x.events) \in Nat /\ Len(x.events) # 0 /\ Len(y.events) = Len(x.events) - 1
      BY <2>2, <3>1, LenProperties, EmptySeq, HeadTailProperties
    <3> QED  BY <3>2
  <2>3. CASE Len(y.events) = 0
    BY <2>3
  <2>4. CASE y \in watches[w]
    <3>1. Len(y.events) \in Nat
      BY <2>1, <2>4
    <3> QED  BY <2>4, <3>1
  <2>5. CASE \E x \in watches[w] : x.events # <<>> /\ y.events = Tail(x.events)
    BY <2>2, <2>5
  <2> QED  BY <2>3, <2>4, <2>5
<1> QED  BY <1>1, <1>2, EventsFollow

LEMMA NextEvents == RInv /\ EventsInv /\ RInv' /\ [Next]_vars => EventsInv'
<1> SUFFICES ASSUME RInv, EventsInv, RInv', [Next]_vars
             PROVE  EventsInv'
  OBVIOUS
<1>1. CASE UNCHANGED vars
  BY <1>1 DEF vars, EventsInv, Done
<1>2. ASSUME NEW c \in Callers, NEW o \in Ops(c), Call(c, o)
      PROVE  EventsInv'
  BY <1>2, OthersCount DEF Call, Done
<1>3. ASSUME NEW c \in Callers, Invoke(c)
      PROVE  EventsInv'
  <2>1. PICK o \in call[c] : Recorded("clientset", ActionOf(o))
    BY <1>3 DEF Invoke, FakeOf
  <2>2. ActionOf(o) \in Recordable
    BY OptProperties, ActionFacts DEF RInv, IInv, Typed, CallInv
  <2>3. /\ running /\ holder' = [holder EXCEPT !["clientset"] = {c}]
        /\ UNCHANGED <<given, watches, running>>
    BY <1>3 DEF Invoke, FakeOf
  <2>4. Front(actions'["clientset"]) = Done
    BY <2>1, <2>2, <2>3, RecordGrows
  <2>5. holder'["clientset"] = {c}
    BY <2>3 DEF RInv, IInv, Typed, Fakes
  <2>6. Done' = Done
    BY <2>4, <2>5 DEF Done
  <2> QED  BY <2>3, <2>6, OthersCount
<1>4. ASSUME NEW c \in Callers, React(c)
      PROVE  EventsInv'
  BY <1>4, ReactCounts
<1>5. ASSUME NEW c \in Callers, Return(c)
      PROVE  EventsInv'
  BY <1>5, OthersCount DEF Return, Done
<1>6. ASSUME NEW w \in Watchers, NEW ns \in Scopes[w], Watch(w, ns)
      PROVE  EventsInv'
  BY <1>6, WatchCounts
<1>7. ASSUME NEW w \in Watchers, Consume(w)
      PROVE  EventsInv'
  <2>1. PICK x \in watches[w] :
          /\ x.events # <<>>
          /\ watches' = [watches EXCEPT ![w] =
               {[x EXCEPT !.events = Tail(@), !.seen[Head(x.events).key] = Head(x.events).label]}]
    BY <1>7 DEF Consume
  <2> DEFINE y == [x EXCEPT !.events = Tail(@), !.seen[Head(x.events).key] = Head(x.events).label]
  <2>2. y.events = Tail(x.events)
    BY WatchTyped DEF RInv, Watching
  <2>3. watches' = [watches EXCEPT ![w] = {y}]
    BY <2>1
  <2> HIDE DEF y
  <2>4. \A v \in Watchers : watches'[v] = IF v = w THEN {y} ELSE watches[v]
    BY <2>3 DEF RInv, IInv, Typed
  <2>5. running /\ running' /\ Done' = Done
    BY <1>7 DEF Consume, Done
  <2>6. ASSUME NEW v \in Watchers, NEW z \in watches'[v]
        PROVE  z \in watches[v] \/ \E u \in watches[v] : u.events # <<>> /\ z.events = Tail(u.events)
    BY <2>1, <2>2, <2>4
  <2> QED  BY <2>5, <2>6, OthersCount
<1>8. ASSUME NEW w \in Watchers, Stop(w)
      PROVE  EventsInv'
  <2>1. watches' = [watches EXCEPT ![w] = {}]
    BY <1>8 DEF Stop
  <2>2. \A v \in Watchers : watches'[v] = IF v = w THEN {} ELSE watches[v]
    BY <2>1 DEF RInv, IInv, Typed
  <2>3. running /\ running' /\ Done' = Done
    BY <1>8 DEF Stop, Done
  <2> QED  BY <2>2, <2>3, OthersCount
<1>9. ASSUME Discover
      PROVE  EventsInv'
  <2>1. actions'["clientset"] = actions["clientset"]
    BY <1>9 DEF Discover, Recorded, RInv, IInv, Typed, Fakes
  <2>2. running /\ running' /\ Done' = Done /\ UNCHANGED watches
    BY <1>9, <2>1 DEF Discover, Done
  <2> QED  BY <2>2, OthersCount
<1> QED  BY <1>1, <1>2, <1>3, <1>4, <1>5, <1>6, <1>7, <1>8, <1>9 DEF Next

(* A test may leave its watchers' channels alone for as long as the record *)
(* of the clientset has no more than Capacity actions: with any number of  *)
(* watchers, a goroutine has panicked on a full channel only when more     *)
(* actions than a channel has room for were recorded.                      *)
THEOREM PanicTakesMany == Spec => [](~running => Len(actions["clientset"]) > Capacity)
<1>1. Init => EventsInv
  BY DEF Init, EventsInv
<1>2. EventsInv => (~running => Len(actions["clientset"]) > Capacity)
  BY DEF EventsInv
<1> QED  BY <1>1, <1>2, NextEvents, ReplayInvariance, PTL DEF Spec

=============================================================================
