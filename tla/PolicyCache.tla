----------------------------- MODULE PolicyCache -----------------------------
(***************************************************************************)
(* The policy informer, its lister and their callers: pkg/client/generated *)
(* informers/externalversions/barbossa/v1alpha1/highavailabilitypolicy.go, *)
(* listers/barbossa/v1alpha1/highavailabilitypolicy.go.                    *)
(*                                                                         *)
(* The informer lists and watches the policies of its namespace with the   *)
(* options it was given, and keeps them decoded in its indexer.  The       *)
(* lister hands out pointers into the indexer.  A caller that wants to     *)
(* change a policy makes a deep copy first.                                *)
(***************************************************************************)
EXTENDS DeepCopy, Naturals, Sequences

CONSTANTS
  Callers,          \* goroutines that use the lister
  Keys,             \* namespace and name of the policies
  Labels,           \* the label sets a policy may have
  Values,           \* the contents of a cell
  ServerPolicies,   \* the policies users store
  Namespace,        \* f.namespace; "" stands for all
  Tweaked,          \* the label sets that the tweaked list options select
  ModifiedFields,   \* the fields whose cells callers write to in their copies
  Ids,              \* enough identities for all objects alive at once
  MaxQueue          \* bound of the changes on their way for one policy

ServerPolicy == [label : Labels, fields : [PointerFields -> Opt(Values)]]

ASSUME KeysAssumption == Keys \subseteq [namespace : STRING, name : STRING]
ASSUME ServerPoliciesAssumption == ServerPolicies \subseteq ServerPolicy
ASSUME ModifiedFieldsAssumption == ModifiedFields \subseteq PointerFields

VARIABLES
  store,     \* the API server's policies
  queue,     \* for each key, what is listed and watched but not yet indexed
  indexer,   \* the objects in the informer's indexer
  heap,      \* the contents of the cells that can be reached
  held,      \* the object each caller has a pointer to
  own        \* whether that object is the caller's own copy

vars == <<store, queue, indexer, heap, held, own>>

Objects == Object(Ids, Labels)

Alive(ix, hd) == (UNION {ix[k] : k \in Keys}) \cup (UNION {hd[c] : c \in Callers})

Reachable(ix, hd) == UNION {UNION {o.ptr[f] : f \in PointerFields} : o \in Alive(ix, hd)}

FreeIds ==
  Ids \ ({o.id : o \in Alive(indexer, held)} \cup {a[1] : a \in Reachable(indexer, held)})

(* The policy an object in memory represents.                              *)
Contents(o) == [label |-> o.label, fields |-> [f \in PointerFields |-> {heap[a] : a \in o.ptr[f]}]]

-----------------------------------------------------------------------------

(* Mutant: WatchFunc does not tweak the options.                           *)
WatchedUntweaked(k, policies) == {p \in policies : Namespace = "" \/ k.namespace = Namespace}

InScope(k, policies) ==
  {p \in policies : (Namespace = "" \/ k.namespace = Namespace) /\ p.label \in Tweaked}

(* ListFunc and WatchFunc: both tweak the options they get.                *)
Listed(k, policies) == InScope(k, policies)
Watched(k, policies) == InScope(k, policies)

Init ==
  /\ store \in [Keys -> Opt(ServerPolicies)]
  /\ queue = [k \in Keys |-> <<Listed(k, store[k])>>]
  /\ indexer = [k \in Keys |-> {}]
  /\ heap = [a \in {} |-> {}]
  /\ held = [c \in Callers |-> {}]
  /\ own = [c \in Callers |-> FALSE]

(* A user creates, updates or deletes a policy; the watch reports it when  *)
(* it selected the policy before or does so now.                           *)
WriteStore(k, policy) ==
  /\ policy # store[k]
  /\ Len(queue[k]) < MaxQueue
  /\ store' = [store EXCEPT ![k] = policy]
  /\ queue' = IF Watched(k, store[k]) = {} /\ Watched(k, policy) = {}
              THEN queue
              ELSE [queue EXCEPT ![k] = Append(@, Watched(k, policy))]
  /\ UNCHANGED <<indexer, heap, held, own>>

(* The watch breaks; what it had not delivered is lost, and a new list     *)
(* takes its place.                                                        *)
Relist ==
  /\ \A k \in Keys : Len(queue[k]) < MaxQueue
  /\ \E n \in [Keys -> 0..MaxQueue] :
       /\ \A k \in Keys : n[k] <= Len(queue[k])
       /\ queue' = [k \in Keys |-> Append(SubSeq(queue[k], 1, n[k]), Listed(k, store[k]))]
  /\ UNCHANGED <<store, indexer, heap, held, own>>

(* The memory after objects have been made or dropped.                     *)
Remember(ix, hd, content(_)) ==
  /\ indexer' = ix
  /\ held' = hd
  /\ heap' = [a \in Reachable(ix, hd) |-> content(a)]

Kept(a) == heap[a]

(* A decoded policy has cells of its own.                                  *)
Decoded(policy, id) ==
  [id |-> id, label |-> policy.label,
   ptr |-> [f \in PointerFields |-> IF policy.fields[f] = {} THEN {} ELSE {<<id, f>>}]]

(* Mutant: the new object is kept beside the old one.                      *)
IndexPolicyBeside(k, policy, id) ==
  LET content(a) == IF a[1] = id THEN CHOOSE v \in policy.fields[a[2]] : TRUE ELSE heap[a]
  IN  Remember([indexer EXCEPT ![k] = @ \cup {Decoded(policy, id)}], held, content)

(* The indexer replaces its object.                                        *)
IndexPolicy(k, policy, id) ==
  LET content(a) == IF a[1] = id THEN CHOOSE v \in policy.fields[a[2]] : TRUE ELSE heap[a]
  IN  Remember([indexer EXCEPT ![k] = {Decoded(policy, id)}], held, content)

Deliver(k) ==
  /\ queue[k] # <<>>
  /\ queue' = [queue EXCEPT ![k] = Tail(@)]
  /\ IF Head(queue[k]) = {}
     THEN Remember([indexer EXCEPT ![k] = {}], held, Kept)
     ELSE \E policy \in Head(queue[k]) :
            \E id \in FreeIds : IndexPolicy(k, policy, id)
  /\ UNCHANGED <<store, own>>

Receive(c, o) ==
  /\ held[c] = {}
  /\ held' = [held EXCEPT ![c] = {o}]
  /\ UNCHANGED <<store, queue, indexer, heap, own>>

(* The namespace lister's Get; without an object it returns NotFound.      *)
Get(c, k) == \E o \in indexer[k] : Receive(c, o)

(* A caller goes through what List returns for all namespaces ("") or one. *)
List(c, namespace, labels) ==
  \E k \in Keys : \E o \in indexer[k] :
    /\ namespace = "" \/ k.namespace = namespace
    /\ o.label \in labels
    /\ Receive(c, o)

CopyHeld(c) ==
  /\ ~own[c]
  /\ \E o \in held[c] : \E id \in FreeIds :
       LET content(a) == IF a[1] = id THEN CHOOSE v \in {heap[b] : b \in o.ptr[a[2]]} : TRUE
                                      ELSE heap[a]
       IN  Remember(indexer, [held EXCEPT ![c] = {DeepCopy(o, id)}], content)
  /\ own' = [own EXCEPT ![c] = TRUE]
  /\ UNCHANGED <<store, queue>>

(* A caller writes to a cell of its copy, as in "*ru.MaxSurge = v".        *)
Modify(c, f, v) ==
  /\ own[c]
  /\ \E o \in held[c] : \E a \in o.ptr[f] :
       heap[a] # v /\ heap' = [heap EXCEPT ![a] = v]
  /\ UNCHANGED <<store, queue, indexer, held, own>>

Drop(c) ==
  /\ held[c] # {}
  /\ Remember(indexer, [held EXCEPT ![c] = {}], Kept)
  /\ own' = [own EXCEPT ![c] = FALSE]
  /\ UNCHANGED <<store, queue>>

Next ==
  \/ Relist
  \/ \E k \in Keys :
       \/ \E policy \in Opt(ServerPolicies) : WriteStore(k, policy)
       \/ Deliver(k)
  \/ \E c \in Callers :
       \/ \E k \in Keys : Get(c, k)
       \/ \E namespace \in {""} \cup {k.namespace : k \in Keys}, labels \in SUBSET Labels :
            List(c, namespace, labels)
       \/ CopyHeld(c)
       \/ \E f \in ModifiedFields, v \in Values : Modify(c, f, v)
       \/ Drop(c)

Spec == Init /\ [][Next]_vars

-----------------------------------------------------------------------------

TypeOK ==
  /\ store \in [Keys -> Opt(ServerPolicies)]
  /\ queue \in [Keys -> Seq(Opt(ServerPolicies))]
  /\ indexer \in [Keys -> Opt(Objects)]
  /\ held \in [Callers -> Opt(Objects)]
  /\ heap \in [Reachable(indexer, held) -> Values]
  /\ own \in [Callers -> BOOLEAN]

(* Callers write to these, and a deep copy shares them with its original.  *)
LeakyFields == SharedFields \cap ModifiedFields

(* What a policy is apart from them.                                       *)
Stable(policy) ==
  [label |-> policy.label, fields |-> [f \in PointerFields \ LeakyFields |-> policy.fields[f]]]

(* Once everything on its way has arrived, the indexer holds exactly the   *)
(* policies the server has in the informer's namespace and selection: no   *)
(* change is lost over a broken watch, none strays in through a watch that *)
(* selects more than the list, and no caller's write reaches the indexer   *)
(* but one to a rolling-update bound, which its deep copy has not copied.  *)
CacheFollowsServer ==
  \A k \in Keys :
    IF queue[k] = <<>>
    THEN {Stable(Contents(o)) : o \in indexer[k]} = {Stable(p) : p \in Listed(k, store[k])}
    ELSE queue[k][Len(queue[k])] = Listed(k, store[k])

(* zz_generated.deepcopy.go:43, "DeepCopy is an autogenerated deepcopy     *)
(* function, copying the receiver, creating a new HighAvailabilityPolicy": *)
(* but for the rolling-update bounds that callers write to (lines 143-144  *)
(* and 200 copy their pointers alone), what a caller holds, and what the   *)
(* indexer holds, changes by no write but the caller's own.                *)
CopiesArePrivate ==
  [][/\ \A k \in Keys : indexer'[k] = indexer[k] =>
          \A o \in indexer[k] : Stable(Contents(o))' = Stable(Contents(o))
     /\ \A c \in Callers : held'[c] = held[c] =>
          \A o \in held[c] :
            \/ Stable(Contents(o))' = Stable(Contents(o))
            \/ own[c] /\ \A d \in Callers \ {c} : ~\E f \in ModifiedFields, v \in Values : Modify(d, f, v)
    ]_vars

=============================================================================
