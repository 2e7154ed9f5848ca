-------------------------- MODULE PolicyCacheProofs --------------------------
(***************************************************************************)
(* Proofs about PolicyCache, for any callers, policies and identities, and *)
(* whatever fields callers write to: but for the rolling-update bounds     *)
(* among them, which a deep copy shares with its original, the indexer     *)
(* follows the API server and copies are private; a write to one of those  *)
(* bounds does show in the indexer.                                        *)
(***************************************************************************)
EXTENDS PolicyCache, SequenceTheorems, TLAPS

Cells(o) == UNION {o.ptr[f] : f \in PointerFields}

(* The cells of a caller's own copy that were allocated for the copy       *)
(* belong to it alone.                                                     *)
PrivateInv ==
  \A c \in Callers : own[c] =>
    /\ held[c] # {}
    /\ \A o \in held[c] : \A f \in CopiedFields :
         /\ o.ptr[f] \subseteq {<<o.id, f>>}
         /\ \A k \in Keys : \A p \in indexer[k] : <<o.id, f>> \notin Cells(p)
         /\ \A d \in Callers \ {c} : \A p \in held[d] : <<o.id, f>> \notin Cells(p)

IInv == TypeOK /\ PrivateInv /\ CacheFollowsServer

(* A step that gives out and takes back objects, and writes to none.       *)
Untouched == \A a \in Reachable(indexer, held) \cap Reachable(indexer, held)' : heap'[a] = heap[a]

-----------------------------------------------------------------------------
(* Objects in memory.                                                      *)

LEMMA OptProperties ==
  ASSUME NEW S
  PROVE  /\ {} \in Opt(S)
         /\ \A x \in S : {x} \in Opt(S)
         /\ \A o \in Opt(S) : o \subseteq S /\ \A x \in o : o = {x}
BY DEF Opt

LEMMA AliveIff ==
  ASSUME NEW ix, NEW hd, NEW o
  PROVE  o \in Alive(ix, hd) <=> (\E k \in Keys : o \in ix[k]) \/ (\E c \in Callers : o \in hd[c])
<1>1. o \in UNION {ix[k] : k \in Keys} <=> \E k \in Keys : o \in ix[k]
  OBVIOUS
<1>2. o \in UNION {hd[c] : c \in Callers} <=> \E c \in Callers : o \in hd[c]
  OBVIOUS
<1> QED  BY <1>1, <1>2 DEF Alive

(* What is alive is an object.                                             *)
LEMMA AliveTyped ==
  ASSUME IInv, NEW o \in Alive(indexer, held)
  PROVE  o \in Objects
<1>1. (\E k \in Keys : o \in indexer[k]) \/ (\E c \in Callers : o \in held[c])
  BY AliveIff
<1> QED  BY <1>1, OptProperties DEF IInv, TypeOK

LEMMA ReachableIff ==
  ASSUME NEW ix, NEW hd, NEW a
  PROVE  a \in Reachable(ix, hd) <=> \E o \in Alive(ix, hd) : a \in Cells(o)
BY DEF Reachable, Cells

LEMMA ReachableShrinks ==
  ASSUME NEW ix, NEW jx, NEW hd, NEW id,
         \A k \in Keys : jx[k] \subseteq ix[k], \A c \in Callers : id[c] \subseteq hd[c]
  PROVE  Reachable(jx, id) \subseteq Reachable(ix, hd)
<1>1. ASSUME NEW o \in Alive(jx, id)
      PROVE  o \in Alive(ix, hd)
  BY AliveIff
<1>2. ASSUME NEW a \in Reachable(jx, id)
      PROVE  a \in Reachable(ix, hd)
  BY <1>1, ReachableIff
<1> QED  BY <1>2

LEMMA Fresh ==
  ASSUME NEW id \in FreeIds
  PROVE  /\ id \in Ids
         /\ \A o \in Alive(indexer, held) : o.id # id /\ \A a \in Cells(o) : a[1] # id
<1>1. /\ id \in Ids /\ id \notin {o.id : o \in Alive(indexer, held)}
      /\ id \notin {a[1] : a \in Reachable(indexer, held)}
  BY DEF FreeIds
<1> QED  BY <1>1, AliveIff, ReachableIff

(* Every cell of an object is named after the field that leads to it.      *)
LEMMA CellsNamed ==
  ASSUME NEW o \in Objects, NEW f \in PointerFields, NEW a \in o.ptr[f]
  PROVE  a \in Cells(o) /\ a[2] = f
BY DEF Objects, Object, Pointers, Cells

LEMMA StableKept ==
  ASSUME NEW o \in Objects, \A a \in Cells(o) : a[2] \notin LeakyFields => heap'[a] = heap[a]
  PROVE  Stable(Contents(o))' = Stable(Contents(o))
<1>1. \A f \in PointerFields \ LeakyFields : {heap'[a] : a \in o.ptr[f]} = {heap[a] : a \in o.ptr[f]}
  BY CellsNamed
<1>2. /\ Stable(Contents(o)).label = o.label /\ Stable(Contents(o))'.label = o.label
      /\ Stable(Contents(o)).fields = [f \in PointerFields \ LeakyFields |-> {heap[a] : a \in o.ptr[f]}]
      /\ Stable(Contents(o))'.fields = [f \in PointerFields \ LeakyFields |-> {heap'[a] : a \in o.ptr[f]}]
  BY DEF Contents, Stable
<1>3. Stable(Contents(o)).fields = Stable(Contents(o))'.fields
  BY <1>1, <1>2
<1> QED  BY <1>2, <1>3 DEF Stable

(* What CacheFollowsServer compares with the server.                       *)
Cached(k) == {Stable(Contents(o)) : o \in indexer[k]}

Stables(policies) == {Stable(policy) : policy \in policies}

LEMMA FollowsAsCached ==
  CacheFollowsServer <=>
    \A k \in Keys : IF queue[k] = <<>> THEN Cached(k) = Stables(Listed(k, store[k]))
                                      ELSE queue[k][Len(queue[k])] = Listed(k, store[k])
BY DEF CacheFollowsServer, Cached, Stables

LEMMA CachedKept ==
  ASSUME IInv, NEW k \in Keys, indexer'[k] = indexer[k],
         \A o \in indexer[k] : \A a \in Cells(o) : a[2] \notin LeakyFields => heap'[a] = heap[a]
  PROVE  Cached(k)' = Cached(k)
<1>1. \A o \in indexer[k] : o \in Objects
  BY OptProperties DEF IInv, TypeOK
<1>2. \A o \in indexer[k] : Stable(Contents(o))' = Stable(Contents(o))
  BY <1>1, StableKept
<1> QED  BY <1>2 DEF Cached

(* The memory of a new object, and of the objects around it.               *)
LEMMA DecodedProperties ==
  ASSUME NEW policy \in ServerPolicy, NEW id \in Ids
  PROVE  /\ Decoded(policy, id) \in Objects /\ Decoded(policy, id).id = id
         /\ \A f \in PointerFields :
              Decoded(policy, id).ptr[f] = IF policy.fields[f] = {} THEN {} ELSE {<<id, f>>}
         /\ \A a \in Cells(Decoded(policy, id)) :
              a[1] = id /\ a[2] \in PointerFields /\ a = <<id, a[2]>> /\ policy.fields[a[2]] # {}
<1> DEFINE o == Decoded(policy, id)
<1>1. /\ o.id = id /\ o.label = policy.label
      /\ o.ptr = [f \in PointerFields |-> IF policy.fields[f] = {} THEN {} ELSE {<<id, f>>}]
      /\ o = [id |-> o.id, label |-> o.label, ptr |-> o.ptr]
  BY DEF Decoded
<1> HIDE DEF o
<1>2. {} \in Opt(Address(Ids)) /\ \A f \in PointerFields : {<<id, f>>} \in Opt(Address(Ids))
  <2>1. \A f \in PointerFields : <<id, f>> \in Address(Ids)
    BY DEF Address
  <2> QED  BY <2>1 DEF Opt
<1>3. o \in Objects
  <2>1. o.ptr \in Pointers(Ids)
    BY <1>1, <1>2 DEF Pointers
  <2>2. o.label \in Labels
    BY <1>1 DEF ServerPolicy
  <2> QED  BY <1>1, <2>1, <2>2 DEF Objects, Object
<1>4. \A a \in Cells(o) : a[1] = id /\ a[2] \in PointerFields /\ a = <<id, a[2]>> /\ policy.fields[a[2]] # {}
  BY <1>1 DEF Cells
<1> QED  BY <1>1, <1>3, <1>4 DEF o

LEMMA DeepCopyProperties ==
  ASSUME NEW in \in Objects, NEW id \in Ids
  PROVE  /\ DeepCopy(in, id) \in Objects /\ DeepCopy(in, id).id = id
         /\ \A f \in PointerFields :
              DeepCopy(in, id).ptr[f] = IF f \in CopiedFields /\ in.ptr[f] # {} THEN {<<id, f>>} ELSE in.ptr[f]
         /\ \A a \in Cells(DeepCopy(in, id)) :
              \/ a \in Cells(in)
              \/ a[1] = id /\ a[2] \in PointerFields /\ a = <<id, a[2]>> /\ in.ptr[a[2]] # {}
<1> DEFINE o == DeepCopy(in, id)
<1>1. /\ o.id = id /\ o.label = in.label
      /\ o.ptr = [f \in PointerFields |-> IF f \in CopiedFields /\ in.ptr[f] # {} THEN {<<id, f>>} ELSE in.ptr[f]]
      /\ o = [id |-> o.id, label |-> o.label, ptr |-> o.ptr]
  BY DEF DeepCopy
<1> HIDE DEF o
<1>2. \A f \in PointerFields : {<<id, f>>} \in Opt(Address(Ids))
  <2>1. \A f \in PointerFields : <<id, f>> \in Address(Ids)
    BY DEF Address
  <2> QED  BY <2>1, OptProperties
<1>3. o \in Objects
  <2>1. in.ptr \in Pointers(Ids) /\ in.label \in Labels
    BY DEF Objects, Object
  <2>2. o.ptr \in Pointers(Ids)
    BY <1>1, <1>2, <2>1 DEF Pointers
  <2> QED  BY <1>1, <2>1, <2>2 DEF Objects, Object
<1>4. \A a \in Cells(o) : \/ a \in Cells(in)
                          \/ a[1] = id /\ a[2] \in PointerFields /\ a = <<id, a[2]>> /\ in.ptr[a[2]] # {}
  BY <1>1 DEF Cells
<1> QED  BY <1>1, <1>3, <1>4 DEF o

-----------------------------------------------------------------------------
(* What steps that write to no cell keep.                                  *)

LEMMA InitInv == Init => IInv
<1> SUFFICES ASSUME Init
             PROVE  IInv
  OBVIOUS
<1>1. /\ store \in [Keys -> Opt(ServerPolicies)] /\ queue = [k \in Keys |-> <<Listed(k, store[k])>>]
      /\ indexer = [k \in Keys |-> {}] /\ heap = [a \in {} |-> {}]
      /\ held = [c \in Callers |-> {}] /\ own = [c \in Callers |-> FALSE]
  BY DEF Init
<1>2. Reachable(indexer, held) = {}
  BY <1>1, AliveIff, ReachableIff
<1>3. heap \in [Reachable(indexer, held) -> Values]
  BY <1>1, <1>2
<1>4. \A k \in Keys : Listed(k, store[k]) \in Opt(ServerPolicies)
  BY <1>1 DEF Listed, InScope, Opt
<1>5. queue \in [Keys -> Seq(Opt(ServerPolicies))]
  BY <1>1, <1>4
<1>6. TypeOK
  <2>1. {} \in Opt(Objects)
    BY OptProperties
  <2> QED  BY <1>1, <1>3, <1>5, <2>1 DEF TypeOK
<1>7. CacheFollowsServer
  BY <1>1 DEF CacheFollowsServer
<1>8. PrivateInv
  BY <1>1 DEF PrivateInv
<1> QED  BY <1>6, <1>7, <1>8 DEF IInv

LEMMA ListedTyped ==
  ASSUME NEW k \in Keys, NEW policies \in Opt(ServerPolicies)
  PROVE  Listed(k, policies) \in Opt(ServerPolicies) /\ Watched(k, policies) = Listed(k, policies)
BY DEF Listed, Watched, InScope, Opt

LEMMA WriteStoreKeeps ==
  ASSUME IInv, NEW k \in Keys, NEW policy \in Opt(ServerPolicies), WriteStore(k, policy)
  PROVE  IInv' /\ Untouched
<1>1. /\ store' = [store EXCEPT ![k] = policy]
      /\ queue' = IF Watched(k, store[k]) = {} /\ Watched(k, policy) = {}
                  THEN queue ELSE [queue EXCEPT ![k] = Append(queue[k], Watched(k, policy))]
      /\ UNCHANGED <<indexer, heap, held, own>>
  BY DEF WriteStore
<1>2. /\ store \in [Keys -> Opt(ServerPolicies)] /\ queue \in [Keys -> Seq(Opt(ServerPolicies))]
      /\ indexer \in [Keys -> Opt(Objects)] /\ held \in [Callers -> Opt(Objects)]
      /\ heap \in [Reachable(indexer, held) -> Values] /\ own \in [Callers -> BOOLEAN]
  BY DEF IInv, TypeOK
<1>3. /\ \A l \in Keys : store[l] \in Opt(ServerPolicies) /\ Watched(l, store[l]) = Listed(l, store[l])
      /\ Watched(k, policy) = Listed(k, policy) /\ Listed(k, policy) \in Opt(ServerPolicies)
  BY <1>2, ListedTyped
<1>4. TypeOK'
  BY <1>1, <1>2, <1>3 DEF TypeOK
<1>5. \A l \in Keys : Cached(l)' = Cached(l)
  BY <1>1, CachedKept
<1>6. ASSUME NEW l \in Keys
      PROVE  IF queue'[l] = <<>> THEN Cached(l)' = Stables(Listed(l, store'[l]))
                                 ELSE queue'[l][Len(queue'[l])] = Listed(l, store'[l])
  <2>1. IF queue[l] = <<>> THEN Cached(l) = Stables(Listed(l, store[l]))
                           ELSE queue[l][Len(queue[l])] = Listed(l, store[l])
    BY FollowsAsCached DEF IInv
  <2>2. CASE l # k
    BY <1>1, <1>2, <1>5, <2>1, <2>2
  <2>3. CASE l = k /\ Watched(k, store[k]) = {} /\ Watched(k, policy) = {}
    BY <1>1, <1>2, <1>3, <1>5, <2>1, <2>3
  <2>4. CASE l = k /\ ~(Watched(k, store[k]) = {} /\ Watched(k, policy) = {})
    <3>1. queue[k] \in Seq(Opt(ServerPolicies)) /\ store'[k] = policy
      BY <1>1, <1>2
    <3>2. queue'[k] = Append(queue[k], Watched(k, policy))
      BY <1>1, <1>2, <2>4
    <3>3. queue'[k] # <<>> /\ queue'[k][Len(queue'[k])] = Watched(k, policy)
      BY <1>3, <3>1, <3>2
    <3> QED  BY <1>3, <2>4, <3>1, <3>3
  <2> QED  BY <2>2, <2>3, <2>4
<1>7. CacheFollowsServer'
  BY <1>6 DEF CacheFollowsServer, Cached, Stables
<1>8. PrivateInv' /\ Untouched
  BY <1>1 DEF IInv, PrivateInv, Untouched
<1> QED  BY <1>4, <1>7, <1>8 DEF IInv

(* Queues lose elements at their ends alone, which are of the right kind.  *)
LEMMA RelistKeeps ==
  ASSUME IInv, Relist
  PROVE  IInv' /\ Untouched
<1>1. PICK n \in [Keys -> 0..MaxQueue] :
        /\ \A k \in Keys : n[k] <= Len(queue[k])
        /\ queue' = [k \in Keys |-> Append(SubSeq(queue[k], 1, n[k]), Listed(k, store[k]))]
  BY DEF Relist
<1>2. UNCHANGED <<store, indexer, heap, held, own>>
  BY DEF Relist
<1>3. /\ store \in [Keys -> Opt(ServerPolicies)] /\ queue \in [Keys -> Seq(Opt(ServerPolicies))]
  BY DEF IInv, TypeOK
<1>4. ASSUME NEW k \in Keys
      PROVE  /\ queue'[k] \in Seq(Opt(ServerPolicies))
             /\ queue'[k] # <<>> /\ queue'[k][Len(queue'[k])] = Listed(k, store[k])
  <2> DEFINE rest == SubSeq(queue[k], 1, n[k])
  <2>1. rest \in Seq(Opt(ServerPolicies))
    <3>1. queue[k] \in Seq(Opt(ServerPolicies)) /\ n[k] \in Nat /\ n[k] <= Len(queue[k])
      BY <1>1, <1>3
    <3>2. \A m \in 1..n[k] : queue[k][m] \in Opt(ServerPolicies)
      BY <3>1
    <3> QED  BY <3>1, <3>2
  <2>2. Listed(k, store[k]) \in Opt(ServerPolicies) /\ queue'[k] = Append(rest, Listed(k, store[k]))
    BY <1>1, <1>3, ListedTyped
  <2> HIDE DEF rest
  <2> QED  BY <2>1, <2>2
<1>5. TypeOK'
  <2>1. queue' \in [Keys -> Seq(Opt(ServerPolicies))]
    BY <1>1, <1>4
  <2> QED  BY <1>2, <2>1 DEF IInv, TypeOK
<1>6. CacheFollowsServer'
  BY <1>2, <1>4 DEF CacheFollowsServer
<1>7. PrivateInv' /\ Untouched
  BY <1>2 DEF IInv, PrivateInv, Untouched
<1> QED  BY <1>5, <1>6, <1>7 DEF IInv

(* A caller takes a pointer into the indexer.                              *)
LEMMA ReceiveKeeps ==
  ASSUME IInv, NEW c \in Callers, NEW k \in Keys, NEW o \in indexer[k], Receive(c, o)
  PROVE  IInv' /\ Untouched
<1>1. /\ held[c] = {} /\ held' = [held EXCEPT ![c] = {o}]
      /\ UNCHANGED <<store, queue, indexer, heap, own>>
  BY DEF Receive
<1>2. /\ indexer \in [Keys -> Opt(Objects)] /\ held \in [Callers -> Opt(Objects)]
      /\ heap \in [Reachable(indexer, held) -> Values] /\ own \in [Callers -> BOOLEAN]
  BY DEF IInv, TypeOK
<1>3. ASSUME NEW p
      PROVE  p \in Alive(indexer, held') <=> p \in Alive(indexer, held)
  <2>1. p \in Alive(indexer, held) <=> (\E l \in Keys : p \in indexer[l]) \/ (\E d \in Callers : p \in held[d])
    BY AliveIff
  <2>2. p \in Alive(indexer, held') <=> (\E l \in Keys : p \in indexer[l]) \/ (\E d \in Callers : p \in held'[d])
    BY AliveIff
  <2>3. \A d \in Callers : held'[d] = IF d = c THEN {o} ELSE held[d]
    BY <1>1, <1>2
  <2> QED  BY <1>1, <2>1, <2>2, <2>3
<1>4. Reachable(indexer, held') = Reachable(indexer, held)
  <2>1. ASSUME NEW a
        PROVE  a \in Reachable(indexer, held') <=> a \in Reachable(indexer, held)
    BY <1>3, ReachableIff
  <2> QED  BY <2>1
<1>5. TypeOK'
  <2>1. {o} \in Opt(Objects)
    BY <1>2 DEF Opt
  <2>2. held' \in [Callers -> Opt(Objects)]
    BY <1>1, <1>2, <2>1
  <2>3. heap' \in [Reachable(indexer', held') -> Values]
    BY <1>1, <1>2, <1>4
  <2> QED  BY <1>1, <2>2, <2>3 DEF IInv, TypeOK
<1>6. CacheFollowsServer'
  <2>1. \A l \in Keys : Cached(l)' = Cached(l)
    BY <1>1, CachedKept
  <2> QED  BY <1>1, <2>1 DEF IInv, CacheFollowsServer, Cached, Stables
<1>7. ~own[c]
  BY <1>1 DEF IInv, PrivateInv
<1>8. PrivateInv'
  BY <1>1, <1>2, <1>7 DEF IInv, PrivateInv
<1> QED  BY <1>1, <1>5, <1>6, <1>8 DEF IInv, Untouched

(* Objects are dropped, and no cell is written.                            *)
LEMMA DropKeeps ==
  ASSUME IInv, NEW c \in Callers, Drop(c)
  PROVE  IInv' /\ Untouched
<1>1. /\ held' = [held EXCEPT ![c] = {}] /\ own' = [own EXCEPT ![c] = FALSE]
      /\ heap' = [a \in Reachable(indexer, held') |-> heap[a]]
      /\ UNCHANGED <<store, queue, indexer>>
  BY DEF Drop, Remember, Kept
<1>2. /\ indexer \in [Keys -> Opt(Objects)] /\ held \in [Callers -> Opt(Objects)]
      /\ heap \in [Reachable(indexer, held) -> Values] /\ own \in [Callers -> BOOLEAN]
  BY DEF IInv, TypeOK
<1>3. Reachable(indexer, held') \subseteq Reachable(indexer, held)
  <2>1. \A d \in Callers : held'[d] \subseteq held[d]
    BY <1>1, <1>2
  <2> QED  BY <2>1, ReachableShrinks
<1>5. TypeOK'
  <2>1. {} \in Opt(Objects)
    BY DEF Opt
  <2>2. held' \in [Callers -> Opt(Objects)]
    BY <1>1, <1>2, <2>1
  <2>3. heap' \in [Reachable(indexer', held') -> Values]
    BY <1>1, <1>2, <1>3
  <2> QED  BY <1>1, <2>2, <2>3 DEF IInv, TypeOK
<1>4. Untouched
  BY <1>1 DEF Untouched
<1>7. CacheFollowsServer'
  <2>1. \A l \in Keys : \A o \in indexer[l] : \A a \in Cells(o) : heap'[a] = heap[a]
    BY <1>1, AliveIff, ReachableIff
  <2>2. \A l \in Keys : Cached(l)' = Cached(l)
    BY <1>1, <2>1, CachedKept
  <2> QED  BY <1>1, <2>2 DEF IInv, CacheFollowsServer, Cached, Stables
<1>8. PrivateInv'
  BY <1>1, <1>2 DEF IInv, PrivateInv
<1> QED  BY <1>4, <1>5, <1>7, <1>8 DEF IInv

(* An event leaves the queue for the indexer.                              *)
LEMMA HeadTaken ==
  ASSUME IInv, NEW k \in Keys, queue[k] # <<>>, queue' = [queue EXCEPT ![k] = Tail(queue[k])],
         store' = store, Cached(k)' = Stables(Head(queue[k])), \A l \in Keys \ {k} : Cached(l)' = Cached(l)
  PROVE  /\ CacheFollowsServer'
         /\ queue' \in [Keys -> Seq(Opt(ServerPolicies))] /\ Head(queue[k]) \in Opt(ServerPolicies)
<1>1. queue \in [Keys -> Seq(Opt(ServerPolicies))] /\ queue[k] \in Seq(Opt(ServerPolicies))
  BY DEF IInv, TypeOK
<1>2. /\ Tail(queue[k]) \in Seq(Opt(ServerPolicies)) /\ Len(Tail(queue[k])) = Len(queue[k]) - 1
      /\ Head(queue[k]) = queue[k][1] /\ Head(queue[k]) \in Opt(ServerPolicies)
      /\ \A i \in 1..(Len(queue[k]) - 1) : Tail(queue[k])[i] = queue[k][i + 1]
      /\ Len(queue[k]) \in Nat \ {0}
      /\ Tail(queue[k]) = <<>> <=> Len(queue[k]) = 1
  <2> DEFINE q == queue[k]
  <2>1. q \in Seq(Opt(ServerPolicies)) /\ q # <<>>
    BY <1>1
  <2> HIDE DEF q
  <2>2. /\ Tail(q) \in Seq(Opt(ServerPolicies)) /\ Len(Tail(q)) = Len(q) - 1
        /\ Head(q) = q[1] /\ Head(q) \in Opt(ServerPolicies)
        /\ Len(q) \in Nat \ {0}
    BY <2>1
  <2>3. \A i \in 1..(Len(q) - 1) : Tail(q)[i] = q[i + 1]
    BY <2>1
  <2>4. Tail(q) = <<>> <=> Len(Tail(q)) = 0
    BY <2>2, EmptySeq
  <2> QED  BY <2>2, <2>3, <2>4 DEF q
<1>3. \A l \in Keys : IF queue[l] = <<>> THEN Cached(l) = Stables(Listed(l, store[l]))
                                        ELSE queue[l][Len(queue[l])] = Listed(l, store[l])
  BY FollowsAsCached DEF IInv
<1>4. ASSUME NEW l \in Keys
      PROVE  IF queue'[l] = <<>> THEN Cached(l)' = Stables(Listed(l, store'[l]))
                                 ELSE queue'[l][Len(queue'[l])] = Listed(l, store'[l])
  <2>1. CASE l # k
    BY <1>1, <1>3, <2>1
  <2>2. CASE l = k
    <3>1. queue'[k] = Tail(queue[k]) /\ Listed(k, store'[k]) = queue[k][Len(queue[k])]
      BY <1>1, <1>3
    <3>2. CASE Len(queue[k]) = 1
      BY <1>2, <2>2, <3>1, <3>2
    <3>3. CASE Len(queue[k]) # 1
      <4>1. Len(queue[k]) - 1 \in 1..(Len(queue[k]) - 1)
        BY <1>2, <3>3
      <4>2. Tail(queue[k])[Len(queue[k]) - 1] = queue[k][Len(queue[k])]
        BY <1>2, <4>1
      <4> QED  BY <1>2, <2>2, <3>1, <3>3, <4>2
    <3> QED  BY <3>2, <3>3
  <2> QED  BY <2>1, <2>2
<1>5. CacheFollowsServer'
  BY <1>4 DEF CacheFollowsServer, Cached, Stables
<1> QED  BY <1>1, <1>2, <1>5

LEMMA DeletionKeeps ==
  ASSUME IInv, NEW k \in Keys, Deliver(k), Head(queue[k]) = {}
  PROVE  IInv' /\ Untouched
<1>1. /\ indexer' = [indexer EXCEPT ![k] = {}]
      /\ heap' = [a \in Reachable(indexer', held) |-> heap[a]]
      /\ queue[k] # <<>> /\ queue' = [queue EXCEPT ![k] = Tail(queue[k])]
      /\ UNCHANGED <<store, held, own>>
  BY DEF Deliver, Remember, Kept
<1>2. /\ indexer \in [Keys -> Opt(Objects)] /\ held \in [Callers -> Opt(Objects)]
      /\ heap \in [Reachable(indexer, held) -> Values] /\ own \in [Callers -> BOOLEAN]
  BY DEF IInv, TypeOK
<1>3. Reachable(indexer', held) \subseteq Reachable(indexer, held)
  <2>1. \A l \in Keys : indexer'[l] \subseteq indexer[l]
    BY <1>1, <1>2
  <2> QED  BY <2>1, ReachableShrinks
<1>4. \A l \in Keys \ {k} : Cached(l)' = Cached(l)
  <2>1. \A l \in Keys \ {k} : indexer'[l] = indexer[l]
    BY <1>1, <1>2
  <2>2. ASSUME NEW l \in Keys, NEW o \in indexer'[l], NEW a \in Cells(o)
        PROVE  heap'[a] = heap[a]
    <3>1. o \in Alive(indexer', held)
      BY AliveIff
    <3>2. a \in Reachable(indexer', held)
      BY <3>1, ReachableIff
    <3> QED  BY <1>1, <3>2
  <2> QED  BY <2>1, <2>2, CachedKept
<1>5. Cached(k)' = {} /\ Stables(Head(queue[k])) = {}
  BY <1>1, <1>2 DEF Cached, Stables
<1>6. CacheFollowsServer' /\ queue' \in [Keys -> Seq(Opt(ServerPolicies))]
  BY <1>1, <1>4, <1>5, HeadTaken
<1>7. TypeOK'
  <2>1. {} \in Opt(Objects)
    BY DEF Opt
  <2>2. indexer' \in [Keys -> Opt(Objects)]
    BY <1>1, <1>2, <2>1
  <2>3. heap' \in [Reachable(indexer', held') -> Values]
    BY <1>1, <1>2, <1>3
  <2> QED  BY <1>1, <1>6, <2>2, <2>3 DEF IInv, TypeOK
<1>8. PrivateInv'
  <2>1. \A l \in Keys : indexer'[l] \subseteq indexer[l]
    BY <1>1, <1>2
  <2> QED  BY <1>1, <2>1 DEF IInv, PrivateInv
<1>9. Untouched
  BY <1>1 DEF Untouched
<1> QED  BY <1>6, <1>7, <1>8, <1>9 DEF IInv

LEMMA IndexingKeeps ==
  ASSUME IInv, NEW k \in Keys, NEW policy \in Head(queue[k]), NEW id \in FreeIds, IndexPolicy(k, policy, id),
         queue[k] # <<>>, queue' = [queue EXCEPT ![k] = Tail(queue[k])], UNCHANGED <<store, own>>
  PROVE  IInv' /\ Untouched
<1> DEFINE new == Decoded(policy, id)
<1>1. /\ indexer' = [indexer EXCEPT ![k] = {new}] /\ held' = held
      /\ heap' = [a \in Reachable(indexer', held) |->
                    IF a[1] = id THEN CHOOSE v \in policy.fields[a[2]] : TRUE ELSE heap[a]]
  BY DEF IndexPolicy, Remember
<1>2. /\ indexer \in [Keys -> Opt(Objects)] /\ held \in [Callers -> Opt(Objects)]
      /\ heap \in [Reachable(indexer, held) -> Values] /\ own \in [Callers -> BOOLEAN]
      /\ queue[k] \in Seq(Opt(ServerPolicies))
  BY DEF IInv, TypeOK
<1>3. Head(queue[k]) \in Opt(ServerPolicies) /\ Head(queue[k]) = {policy} /\ policy \in ServerPolicy
  <2>1. Head(queue[k]) \in Opt(ServerPolicies)
    BY <1>2
  <2> QED  BY <2>1, OptProperties, ServerPoliciesAssumption
<1>4. id \in Ids /\ \A o \in Alive(indexer, held) : o.id # id /\ \A a \in Cells(o) : a[1] # id
  BY Fresh
<1>5. /\ new \in Objects /\ new.id = id /\ new.label = policy.label
      /\ \A f \in PointerFields : new.ptr[f] = IF policy.fields[f] = {} THEN {} ELSE {<<id, f>>}
      /\ \A a \in Cells(new) : a[1] = id /\ a[2] \in PointerFields /\ policy.fields[a[2]] # {}
  <2>1. new.label = policy.label
    BY DEF Decoded
  <2>2. /\ new \in Objects /\ new.id = id
        /\ \A f \in PointerFields : new.ptr[f] = IF policy.fields[f] = {} THEN {} ELSE {<<id, f>>}
    BY <1>3, <1>4, DecodedProperties
  <2>3. \A a \in Cells(new) : a[1] = id /\ a[2] \in PointerFields /\ policy.fields[a[2]] # {}
    BY <1>3, <1>4, DecodedProperties
  <2> QED  BY <2>1, <2>2, <2>3
<1> HIDE DEF new
<1>6. \A l \in Keys : indexer'[l] = IF l = k THEN {new} ELSE indexer[l]
  BY <1>1, <1>2
<1>7. \A o : o \in Alive(indexer', held) => o = new \/ o \in Alive(indexer, held)
  <2>1. ASSUME NEW o \in Alive(indexer', held), o # new
        PROVE  o \in Alive(indexer, held)
    <3>1. (\E l \in Keys : o \in indexer'[l]) \/ (\E c \in Callers : o \in held[c])
      BY AliveIff
    <3>2. (\E l \in Keys : o \in indexer[l]) \/ (\E c \in Callers : o \in held[c])
      BY <1>6, <2>1, <3>1
    <3> QED  BY <3>2, AliveIff
  <2> QED  BY <2>1
<1>8. ASSUME NEW a \in Reachable(indexer', held)
      PROVE  \/ a \in Cells(new)
             \/ a \in Reachable(indexer, held) /\ a[1] # id
  <2>1. PICK o \in Alive(indexer', held) : a \in Cells(o)
    BY ReachableIff
  <2>2. CASE o = new
    BY <2>1, <2>2
  <2>3. CASE o \in Alive(indexer, held)
    <3>1. a \in Reachable(indexer, held)
      BY <2>1, <2>3, ReachableIff
    <3> QED  BY <1>4, <2>1, <2>3, <3>1
  <2> QED  BY <1>7, <2>2, <2>3
<1>9. ASSUME NEW f \in PointerFields, policy.fields[f] # {}
      PROVE  /\ (CHOOSE v \in policy.fields[f] : TRUE) \in Values
             /\ policy.fields[f] = {CHOOSE v \in policy.fields[f] : TRUE}
  <2>1. policy.fields[f] \in Opt(Values)
    BY <1>3 DEF ServerPolicy
  <2>2. (CHOOSE v \in policy.fields[f] : TRUE) \in policy.fields[f]
    BY <1>9
  <2> QED  BY <2>1, <2>2, OptProperties
<1>10. heap' \in [Reachable(indexer', held') -> Values]
  <2>1. ASSUME NEW a \in Reachable(indexer', held)
        PROVE  (IF a[1] = id THEN CHOOSE v \in policy.fields[a[2]] : TRUE ELSE heap[a]) \in Values
    <3>1. CASE a \in Cells(new)
      BY <1>5, <1>9, <3>1
    <3>2. CASE a \in Reachable(indexer, held) /\ a[1] # id
      BY <1>2, <3>2
    <3> QED  BY <1>8, <3>1, <3>2
  <2> QED  BY <1>1, <2>1
<1>11. \A o \in Alive(indexer', held) : \A a \in Cells(o) : a \in Reachable(indexer', held)
  BY ReachableIff
<1>12. ASSUME NEW l \in Keys \ {k}
       PROVE  Cached(l)' = Cached(l)
  <2>1. indexer'[l] = indexer[l]
    BY <1>6
  <2>2. ASSUME NEW o \in indexer[l], NEW a \in Cells(o)
        PROVE  heap'[a] = heap[a]
    <3>1. o \in Alive(indexer', held) /\ o \in Alive(indexer, held)
      BY <2>1, AliveIff
    <3> QED  BY <1>1, <1>4, <1>11, <3>1
  <2> QED  BY <2>1, <2>2, CachedKept
<1>13. Cached(k)' = Stables(Head(queue[k]))
  <2>1. new \in Alive(indexer', held)
    BY <1>6, AliveIff
  <2>2. ASSUME NEW f \in PointerFields
        PROVE  {heap'[a] : a \in new.ptr[f]} = policy.fields[f]
    <3>1. CASE policy.fields[f] = {}
      BY <1>5, <3>1
    <3>2. CASE policy.fields[f] # {}
      <4>1. new.ptr[f] = {<<id, f>>} /\ <<id, f>> \in Cells(new)
        BY <1>5, <3>2 DEF Cells
      <4>2. heap'[<<id, f>>] = CHOOSE v \in policy.fields[f] : TRUE
        BY <1>1, <1>11, <2>1, <4>1
      <4> QED  BY <1>9, <3>2, <4>1, <4>2
    <3> QED  BY <3>1, <3>2
  <2>3. policy = [label |-> policy.label, fields |-> [f \in PointerFields |-> policy.fields[f]]]
    BY <1>3 DEF ServerPolicy
  <2>4. Contents(new)' = policy
    <3>1. [f \in PointerFields |-> {heap'[a] : a \in new.ptr[f]}] = [f \in PointerFields |-> policy.fields[f]]
      BY <2>2
    <3>2. Contents(new)' = [label |-> new.label, fields |-> [f \in PointerFields |-> {heap'[a] : a \in new.ptr[f]}]]
      BY DEF Contents
    <3> QED  BY <1>5, <2>3, <3>1, <3>2
  <2>5. Stable(Contents(new))' = Stable(policy)
    BY <2>4 DEF Stable
  <2> QED  BY <1>3, <1>6, <2>5 DEF Cached, Stables
<1>14. CacheFollowsServer' /\ queue' \in [Keys -> Seq(Opt(ServerPolicies))]
  BY <1>12, <1>13, HeadTaken
<1>15. TypeOK'
  <2>1. {new} \in Opt(Objects)
    BY <1>5 DEF Opt
  <2>2. indexer' \in [Keys -> Opt(Objects)]
    BY <1>1, <1>2, <2>1
  <2> QED  BY <1>1, <1>10, <1>14, <2>2 DEF IInv, TypeOK
<1>16. PrivateInv'
  <2> SUFFICES ASSUME NEW c \in Callers, own[c], NEW o \in held[c], NEW f \in CopiedFields
               PROVE  \A l \in Keys : \A p \in indexer'[l] : <<o.id, f>> \notin Cells(p)
    BY <1>1 DEF IInv, PrivateInv
  <2>1. o.id # id
    BY <1>4, AliveIff
  <2>2. <<o.id, f>> \notin Cells(new)
    BY <1>5, <2>1
  <2> QED  BY <1>6, <2>2 DEF IInv, PrivateInv
<1>17. Untouched
  <2>1. ASSUME NEW a \in Reachable(indexer, held) \cap Reachable(indexer', held')
        PROVE  heap'[a] = heap[a]
    <3>1. a[1] # id
      BY <1>4, ReachableIff
    <3> QED  BY <1>1, <3>1
  <2> QED  BY <2>1 DEF Untouched
<1> QED  BY <1>14, <1>15, <1>16, <1>17 DEF IInv

LEMMA DeliverKeeps ==
  ASSUME IInv, NEW k \in Keys, Deliver(k)
  PROVE  IInv' /\ Untouched
<1>1. queue[k] # <<>> /\ queue' = [queue EXCEPT ![k] = Tail(queue[k])] /\ UNCHANGED <<store, own>>
  BY DEF Deliver
<1>2. CASE Head(queue[k]) = {}
  BY <1>2, DeletionKeeps
<1>3. CASE Head(queue[k]) # {}
  <2>1. PICK policy \in Head(queue[k]), id \in FreeIds : IndexPolicy(k, policy, id)
    BY <1>3 DEF Deliver
  <2> QED  BY <1>1, <2>1, IndexingKeeps
<1> QED  BY <1>2, <1>3

(* A copy shares no cell with the rest that its caller may write to.       *)
LEMMA CopyHeldKeeps ==
  ASSUME IInv, NEW c \in Callers, CopyHeld(c)
  PROVE  IInv' /\ Untouched
<1> DEFINE With(o, id) ==
             /\ held' = [held EXCEPT ![c] = {DeepCopy(o, id)}]
             /\ heap' = [a \in Reachable(indexer, [held EXCEPT ![c] = {DeepCopy(o, id)}]) |->
                           IF a[1] = id THEN CHOOSE v \in {heap[b] : b \in o.ptr[a[2]]} : TRUE ELSE heap[a]]
             /\ indexer' = indexer
<1>0a. \E o \in held[c] : \E id \in FreeIds : With(o, id)
  BY DEF CopyHeld, Remember
<1>0b. PICK o \in held[c] : \E id \in FreeIds : With(o, id)
  BY <1>0a
<1>0c. PICK id \in FreeIds : With(o, id)
  BY <1>0b
<1>1. /\ held' = [held EXCEPT ![c] = {DeepCopy(o, id)}]
      /\ heap' = [a \in Reachable(indexer, held') |->
                    IF a[1] = id THEN CHOOSE v \in {heap[b] : b \in o.ptr[a[2]]} : TRUE ELSE heap[a]]
      /\ indexer' = indexer
  BY <1>0c
<1> HIDE DEF With
<1>2. ~own[c] /\ own' = [own EXCEPT ![c] = TRUE] /\ UNCHANGED <<store, queue>>
  BY DEF CopyHeld
<1>3. /\ indexer \in [Keys -> Opt(Objects)] /\ held \in [Callers -> Opt(Objects)]
      /\ heap \in [Reachable(indexer, held) -> Values] /\ own \in [Callers -> BOOLEAN]
  BY DEF IInv, TypeOK
<1>4. id \in Ids /\ \A p \in Alive(indexer, held) : p.id # id /\ \A a \in Cells(p) : a[1] # id
  BY Fresh
<1>5. o \in Objects /\ o \in Alive(indexer, held)
  <2>1. held[c] \in Opt(Objects)
    BY <1>3
  <2> QED  BY <2>1, OptProperties, AliveIff
<1> DEFINE new == DeepCopy(o, id)
<1>6. /\ new \in Objects /\ new.id = id
      /\ \A f \in PointerFields :
           new.ptr[f] = IF f \in CopiedFields /\ o.ptr[f] # {} THEN {<<id, f>>} ELSE o.ptr[f]
      /\ \A a \in Cells(new) :
           \/ a \in Cells(o)
           \/ a[1] = id /\ a[2] \in PointerFields /\ o.ptr[a[2]] # {}
  <2>1. new \in Objects /\ new.id = id
    BY <1>4, <1>5, DeepCopyProperties
  <2>3. \A f \in PointerFields :
          new.ptr[f] = IF f \in CopiedFields /\ o.ptr[f] # {} THEN {<<id, f>>} ELSE o.ptr[f]
    BY DEF DeepCopy
  <2>2. \A a \in Cells(new) : a \in Cells(o) \/ (a[1] = id /\ a[2] \in PointerFields /\ o.ptr[a[2]] # {})
    BY <1>4, <1>5, DeepCopyProperties
  <2> QED  BY <2>1, <2>2, <2>3
<1>7. held' = [held EXCEPT ![c] = {new}]
  BY <1>1
<1> HIDE DEF new
<1>8. \A d \in Callers : held'[d] = IF d = c THEN {new} ELSE held[d]
  BY <1>3, <1>7
<1>9. ASSUME NEW p \in Alive(indexer, held'), p # new
      PROVE  p \in Alive(indexer, held)
  <2>1. (\E l \in Keys : p \in indexer[l]) \/ (\E d \in Callers : p \in held'[d])
    BY AliveIff
  <2>2. (\E l \in Keys : p \in indexer[l]) \/ (\E d \in Callers : p \in held[d])
    BY <1>8, <1>9, <2>1
  <2> QED  BY <2>2, AliveIff
<1>10. ASSUME NEW a \in Reachable(indexer, held')
       PROVE  \/ a[1] = id /\ a[2] \in PointerFields /\ o.ptr[a[2]] # {}
              \/ a[1] # id /\ a \in Reachable(indexer, held)
  <2>1. PICK p \in Alive(indexer, held') : a \in Cells(p)
    BY ReachableIff
  <2>2. CASE \E q \in Alive(indexer, held) : a \in Cells(q)
    <3>1. a \in Reachable(indexer, held)
      BY <2>2, ReachableIff
    <3> QED  BY <1>4, <2>2, <3>1
  <2>3. CASE p = new
    BY <1>5, <1>6, <2>1, <2>2, <2>3
  <2> QED  BY <1>9, <2>1, <2>2, <2>3
<1>11. heap' \in [Reachable(indexer', held') -> Values]
  <2>1. ASSUME NEW a \in Reachable(indexer, held')
        PROVE  (IF a[1] = id THEN CHOOSE v \in {heap[b] : b \in o.ptr[a[2]]} : TRUE ELSE heap[a]) \in Values
    <3>1. CASE a[1] = id
      <4>1. a[2] \in PointerFields /\ o.ptr[a[2]] # {}
        BY <1>10, <3>1
      <4>2. \A b \in o.ptr[a[2]] : b \in Cells(o)
        BY <4>1 DEF Cells
      <4>3. \A b \in o.ptr[a[2]] : b \in Reachable(indexer, held)
        BY <1>5, <4>2, ReachableIff
      <4>4. \A b \in o.ptr[a[2]] : heap[b] \in Values
        BY <1>3, <4>3
      <4>5. (CHOOSE v \in {heap[b] : b \in o.ptr[a[2]]} : TRUE) \in {heap[b] : b \in o.ptr[a[2]]}
        BY <4>1
      <4> QED  BY <3>1, <4>4, <4>5
    <3>2. CASE a[1] # id
      BY <1>3, <1>10, <3>2
    <3> QED  BY <3>1, <3>2
  <2> QED  BY <1>1, <2>1
<1>12. TypeOK'
  <2>1. {new} \in Opt(Objects)
    BY <1>6 DEF Opt
  <2>2. held' \in [Callers -> Opt(Objects)]
    BY <1>3, <1>7, <2>1
  <2> QED  BY <1>1, <1>2, <1>11, <2>2 DEF IInv, TypeOK
<1>13. CacheFollowsServer'
  <2>1. ASSUME NEW l \in Keys, NEW p \in indexer[l], NEW a \in Cells(p)
        PROVE  heap'[a] = heap[a]
    <3>1. p \in Alive(indexer, held') /\ p \in Alive(indexer, held)
      BY AliveIff
    <3>2. a \in Reachable(indexer, held') /\ a[1] # id
      BY <1>4, <3>1, ReachableIff
    <3> QED  BY <1>1, <3>2
  <2>2. \A l \in Keys : Cached(l)' = Cached(l)
    BY <1>1, <2>1, CachedKept
  <2> QED  BY <1>2, <2>2 DEF IInv, CacheFollowsServer, Cached, Stables
<1>14. PrivateInv'
  <2>1. ASSUME NEW f \in CopiedFields
        PROVE  /\ f \in PointerFields /\ new.ptr[f] \subseteq {<<id, f>>}
               /\ \A p \in Alive(indexer, held) : <<id, f>> \notin Cells(p)
    <3>1. f \in PointerFields
      BY DEF PointerFields, CopiedFields, CopiedByRollingUpdate
    <3> QED  BY <1>4, <1>6, <3>1
  <2>2. /\ \A l \in Keys : \A p \in indexer[l] : p \in Alive(indexer, held)
        /\ \A d \in Callers : \A p \in held[d] : p \in Alive(indexer, held)
    BY AliveIff
  <2>3. ASSUME NEW f \in CopiedFields
        PROVE  /\ new.ptr[f] \subseteq {<<new.id, f>>}
               /\ \A k \in Keys : \A p \in indexer'[k] : <<new.id, f>> \notin Cells(p)
               /\ \A d \in Callers \ {c} : \A p \in held'[d] : <<new.id, f>> \notin Cells(p)
    BY <1>1, <1>6, <1>8, <2>1, <2>2
  <2>4. ASSUME NEW e \in Callers, e # c, own[e], NEW q \in held[e], NEW f \in CopiedFields
        PROVE  /\ q.ptr[f] \subseteq {<<q.id, f>>}
               /\ \A k \in Keys : \A p \in indexer'[k] : <<q.id, f>> \notin Cells(p)
               /\ \A d \in Callers \ {e} : \A p \in held'[d] : <<q.id, f>> \notin Cells(p)
    <3>1. /\ q.ptr[f] \subseteq {<<q.id, f>>}
          /\ \A k \in Keys : \A p \in indexer[k] : <<q.id, f>> \notin Cells(p)
          /\ \A d \in Callers \ {e} : \A p \in held[d] : <<q.id, f>> \notin Cells(p)
      BY <2>4 DEF IInv, PrivateInv
    <3>2. q.id # id /\ <<q.id, f>> \notin Cells(o)
      BY <1>4, <2>2, <2>4, <3>1
    <3>3. <<q.id, f>> \notin Cells(new)
      BY <1>6, <3>2
    <3> QED  BY <1>1, <1>8, <3>1, <3>3
  <2>5. \A e \in Callers : own'[e] = IF e = c THEN TRUE ELSE own[e]
    BY <1>2, <1>3
  <2>6. ASSUME NEW e \in Callers, own'[e]
        PROVE  /\ held'[e] # {}
               /\ \A q \in held'[e] : \A f \in CopiedFields :
                    /\ q.ptr[f] \subseteq {<<q.id, f>>}
                    /\ \A k \in Keys : \A p \in indexer'[k] : <<q.id, f>> \notin Cells(p)
                    /\ \A d \in Callers \ {e} : \A p \in held'[d] : <<q.id, f>> \notin Cells(p)
    <3>1. CASE e = c
      BY <1>8, <2>3, <3>1
    <3>2. CASE e # c
      <4>1. own[e] /\ held'[e] = held[e] /\ held[e] # {}
        BY <1>8, <2>5, <2>6, <3>2 DEF IInv, PrivateInv
      <4> QED  BY <2>4, <3>2, <4>1
    <3> QED  BY <3>1, <3>2
  <2> QED  BY <2>6 DEF PrivateInv
<1>15. Untouched
  <2>1. ASSUME NEW a \in Reachable(indexer, held) \cap Reachable(indexer', held')
        PROVE  heap'[a] = heap[a]
    <3>1. a[1] # id
      BY <1>4, ReachableIff
    <3> QED  BY <1>1, <3>1
  <2> QED  BY <2>1 DEF Untouched
<1> QED  BY <1>12, <1>13, <1>14, <1>15 DEF IInv

(* The cell a caller writes to.  Where others see it, it is a shared bound. *)
WritesCell(c, o, a, v) ==
  /\ own[c] /\ a \in Cells(o) /\ a \in Reachable(indexer, held)
  /\ heap[a] # v /\ heap' = [heap EXCEPT ![a] = v]
  /\ UNCHANGED <<store, queue, indexer, held, own>>
  /\ \A k \in Keys : \A p \in indexer[k] : a \in Cells(p) => a[2] \in LeakyFields
  /\ \A d \in Callers \ {c} : \A p \in held[d] : a \in Cells(p) => a[2] \in LeakyFields

LEMMA ModifiedCell ==
  ASSUME IInv, NEW c \in Callers, NEW f \in ModifiedFields, NEW v, Modify(c, f, v)
  PROVE  \E o \in held[c] : \E a \in o.ptr[f] : WritesCell(c, o, a, v)
<1>0. PICK o \in held[c] : \E a \in o.ptr[f] : heap[a] # v /\ heap' = [heap EXCEPT ![a] = v]
  BY DEF Modify
<1>1. PICK a \in o.ptr[f] : heap[a] # v /\ heap' = [heap EXCEPT ![a] = v]
  BY <1>0
<1>2. own[c] /\ UNCHANGED <<store, queue, indexer, held, own>>
  BY DEF Modify
<1>3. f \in PointerFields
  BY ModifiedFieldsAssumption
<1>4. o \in Objects
  BY OptProperties DEF IInv, TypeOK
<1>5. a \in Cells(o) /\ a[2] = f
  BY <1>3, <1>4, CellsNamed
<1>6. o \in Alive(indexer, held)
  BY AliveIff
<1>7. a \in Reachable(indexer, held)
  BY <1>5, <1>6, ReachableIff
<1>8. /\ \A k \in Keys : \A p \in indexer[k] : a \in Cells(p) => a[2] \in LeakyFields
      /\ \A d \in Callers \ {c} : \A p \in held[d] : a \in Cells(p) => a[2] \in LeakyFields
  <2>1. CASE f \in CopiedFields
    <3>1. /\ o.ptr[f] \subseteq {<<o.id, f>>}
          /\ \A k \in Keys : \A p \in indexer[k] : <<o.id, f>> \notin Cells(p)
          /\ \A d \in Callers \ {c} : \A p \in held[d] : <<o.id, f>> \notin Cells(p)
      BY <1>2, <2>1 DEF IInv, PrivateInv
    <3>2. a = <<o.id, f>>
      BY <3>1
    <3> QED  BY <3>1, <3>2
  <2>2. CASE f \notin CopiedFields
    <3>1. a[2] \in LeakyFields
      BY <1>3, <1>5, <2>2 DEF LeakyFields, SharedFields
    <3> QED  BY <3>1
  <2> QED  BY <2>1, <2>2
<1> QED  BY <1>1, <1>2, <1>5, <1>7, <1>8 DEF WritesCell

LEMMA ModifyKeeps ==
  ASSUME IInv, NEW c \in Callers, NEW f \in ModifiedFields, NEW v \in Values, Modify(c, f, v)
  PROVE  IInv'
<1>0a. PICK o \in held[c] : \E a \in o.ptr[f] : WritesCell(c, o, a, v)
  BY ModifiedCell
<1>0b. PICK a \in o.ptr[f] : WritesCell(c, o, a, v)
  BY <1>0a
<1>1. /\ heap' = [heap EXCEPT ![a] = v]
      /\ UNCHANGED <<store, queue, indexer, held, own>>
      /\ \A k \in Keys : \A p \in indexer[k] : a \in Cells(p) => a[2] \in LeakyFields
  BY <1>0b DEF WritesCell
<1>2. heap \in [Reachable(indexer, held) -> Values]
  BY DEF IInv, TypeOK
<1>3. heap' \in [Reachable(indexer', held') -> Values]
  BY <1>1, <1>2
<1>4. TypeOK'
  BY <1>1, <1>3 DEF IInv, TypeOK
<1>5. CacheFollowsServer'
  <2>1. ASSUME NEW k \in Keys, NEW p \in indexer[k], NEW b \in Cells(p), b[2] \notin LeakyFields
        PROVE  heap'[b] = heap[b]
    <3>1. b # a
      BY <1>1, <2>1
    <3>2. p \in Alive(indexer, held)
      BY AliveIff
    <3>3. b \in Reachable(indexer, held)
      BY <3>2, ReachableIff
    <3> QED  BY <1>1, <1>2, <3>1, <3>3
  <2>2. \A k \in Keys : Cached(k)' = Cached(k)
    BY <1>1, <2>1, CachedKept
  <2> QED  BY <1>1, <2>2 DEF IInv, CacheFollowsServer, Cached, Stables
<1>6. PrivateInv'
  BY <1>1 DEF IInv, PrivateInv
<1> QED  BY <1>4, <1>5, <1>6 DEF IInv

LEMMA NextInv ==
  ASSUME IInv, [Next]_vars
  PROVE  /\ IInv'
         /\ \/ Untouched
            \/ \E c \in Callers, f \in ModifiedFields, v \in Values : Modify(c, f, v)
<1>1. CASE UNCHANGED vars
  <2>1. UNCHANGED <<store, queue, indexer, heap, held, own>>
    BY <1>1 DEF vars
  <2>2. TypeOK'
    BY <2>1 DEF IInv, TypeOK
  <2>3. CacheFollowsServer'
    <3>1. \A k \in Keys : Cached(k)' = Cached(k)
      BY <2>1, CachedKept
    <3> QED  BY <2>1, <3>1 DEF IInv, CacheFollowsServer, Cached, Stables
  <2> QED  BY <2>1, <2>2, <2>3 DEF IInv, PrivateInv, Untouched
<1>2. ASSUME NEW c \in Callers, NEW k \in Keys, Get(c, k)
      PROVE  IInv' /\ Untouched
  BY <1>2, ReceiveKeeps DEF Get
<1>3. ASSUME NEW c \in Callers, NEW namespace, NEW labels, List(c, namespace, labels)
      PROVE  IInv' /\ Untouched
  BY <1>3, ReceiveKeeps DEF List
<1> QED
  BY <1>1, <1>2, <1>3, RelistKeeps, WriteStoreKeeps, DeliverKeeps, CopyHeldKeeps, ModifyKeeps, DropKeeps DEF Next

-----------------------------------------------------------------------------

LEMMA Invariance == Spec => []IInv
<1>1. IInv /\ [Next]_vars => IInv'
  BY NextInv
<1> QED  BY <1>1, InitInv, PTL DEF Spec

(* The variables of the cache and of its callers' memory keep their types. *)
THEOREM TypeCorrect == Spec => []TypeOK
<1>1. IInv => TypeOK
  BY DEF IInv
<1> QED  BY <1>1, Invariance, PTL

(* The indexer follows the API server, for any policies, namespace and     *)
(* selection, however the watch breaks and the policies change; callers    *)
(* may write to all their copies have, and reach the shared rolling-update *)
(* bounds alone.                                                           *)
THEOREM CacheIsFaithful == Spec => []CacheFollowsServer
<1>1. IInv => CacheFollowsServer
  BY DEF IInv
<1> QED  BY <1>1, Invariance, PTL

(* Copies are private but for the rolling-update bounds, whichever fields  *)
(* callers write to.                                                       *)
THEOREM CopiesKept == Spec => CopiesArePrivate
<1> DEFINE Kept1 == \A k \in Keys : indexer'[k] = indexer[k] =>
                      \A o \in indexer[k] : Stable(Contents(o))' = Stable(Contents(o))
           Kept2 == \A c \in Callers : held'[c] = held[c] =>
                      \A o \in held[c] :
                        \/ Stable(Contents(o))' = Stable(Contents(o))
                        \/ own[c] /\ \A d \in Callers \ {c} : ~\E f \in ModifiedFields, v \in Values : Modify(d, f, v)
<1>2. ASSUME IInv, Untouched
      PROVE  Kept1 /\ Kept2
  <2>1. ASSUME NEW o, o \in Alive(indexer, held), o \in Alive(indexer', held')
        PROVE  Stable(Contents(o))' = Stable(Contents(o))
    <3>1. \A a \in Cells(o) : a \in Reachable(indexer, held) /\ a \in Reachable(indexer', held')
      BY <2>1, ReachableIff
    <3>2. \A a \in Cells(o) : heap'[a] = heap[a]
      BY <1>2, <3>1 DEF Untouched
    <3>3. o \in Objects
      BY <1>2, <2>1, AliveTyped
    <3> QED  BY <3>2, <3>3, StableKept
  <2>2. ASSUME NEW k \in Keys, indexer'[k] = indexer[k], NEW o \in indexer[k]
        PROVE  o \in Alive(indexer, held) /\ o \in Alive(indexer', held')
    BY <2>2, AliveIff
  <2>3. ASSUME NEW c \in Callers, held'[c] = held[c], NEW o \in held[c]
        PROVE  o \in Alive(indexer, held) /\ o \in Alive(indexer', held')
    BY <2>3, AliveIff
  <2> QED  BY <2>1, <2>2, <2>3
<1>3. ASSUME IInv, NEW c \in Callers, NEW f \in ModifiedFields, NEW v \in Values, Modify(c, f, v)
      PROVE  Kept1 /\ Kept2
  <2>0a. PICK o \in held[c] : \E a \in o.ptr[f] : WritesCell(c, o, a, v)
    BY <1>3, ModifiedCell
  <2>0b. PICK a \in o.ptr[f] : WritesCell(c, o, a, v)
    BY <2>0a
  <2>1. /\ own[c] /\ a \in Reachable(indexer, held)
        /\ heap[a] # v /\ heap' = [heap EXCEPT ![a] = v]
        /\ \A k \in Keys : \A p \in indexer[k] : a \in Cells(p) => a[2] \in LeakyFields
        /\ \A d \in Callers \ {c} : \A p \in held[d] : a \in Cells(p) => a[2] \in LeakyFields
    BY <2>0b DEF WritesCell
  <2>2. heap \in [Reachable(indexer, held) -> Values]
    BY <1>3 DEF IInv, TypeOK
  <2>3. ASSUME NEW p, p \in Alive(indexer, held), a \in Cells(p) => a[2] \in LeakyFields
        PROVE  Stable(Contents(p))' = Stable(Contents(p))
    <3>1. \A b \in Cells(p) : b \in Reachable(indexer, held)
      BY <2>3, ReachableIff
    <3>2. \A b \in Cells(p) : b[2] \notin LeakyFields => heap'[b] = heap[b]
      BY <2>1, <2>2, <2>3, <3>1
    <3>3. p \in Objects
      BY <1>3, <2>3, AliveTyped
    <3> QED  BY <3>2, <3>3, StableKept
  <2>4. Kept1
    <3>1. \A k \in Keys : \A p \in indexer[k] : p \in Alive(indexer, held)
      BY AliveIff
    <3> QED  BY <2>1, <2>3, <3>1
  <2>5. ASSUME NEW d \in Callers \ {c}, NEW p \in held[d]
        PROVE  Stable(Contents(p))' = Stable(Contents(p))
    <3>1. p \in Alive(indexer, held)
      BY AliveIff
    <3> QED  BY <2>1, <2>3, <2>5, <3>1
  <2>6. ASSUME NEW p \in held[c], a[2] \in LeakyFields
        PROVE  Stable(Contents(p))' = Stable(Contents(p))
    <3>1. p \in Alive(indexer, held)
      BY AliveIff
    <3> QED  BY <2>3, <2>6, <3>1
  <2>7. ASSUME a[2] \notin LeakyFields,
               NEW d \in Callers \ {c}, NEW g \in ModifiedFields, NEW w \in Values, Modify(d, g, w)
        PROVE  FALSE
    <3>0a. PICK q \in held[d] : \E b \in q.ptr[g] : WritesCell(d, q, b, w)
      BY <1>3, <2>7, ModifiedCell
    <3>0b. PICK b \in q.ptr[g] : WritesCell(d, q, b, w)
      BY <3>0a
    <3>1. /\ b \in Reachable(indexer, held) /\ b \in Cells(q)
          /\ heap[b] # w /\ heap' = [heap EXCEPT ![b] = w]
      BY <3>0b DEF WritesCell
    <3>2. b # a
      BY <2>1, <2>7, <3>1
    <3> QED  BY <2>1, <2>2, <3>1, <3>2
  <2> QED  BY <2>1, <2>4, <2>5, <2>6, <2>7
<1>4. IInv /\ [Next]_vars => [Kept1 /\ Kept2]_vars
  BY <1>2, <1>3, NextInv
<1> QED  BY <1>4, Invariance, PTL DEF Spec, CopiesArePrivate

-----------------------------------------------------------------------------

(* What a deep copy does not copy: a write to a rolling-update bound of a  *)
(* caller's copy changes every indexed policy that has its pointer in      *)
(* common with the copy, without any step of the informer.                 *)
THEOREM SharedBoundsShow ==
  Spec => [][\A c \in Callers, f \in LeakyFields, v \in Values : Modify(c, f, v) =>
               \A k \in Keys : \A p \in indexer[k] :
                 (\A o \in held[c] : o.ptr[f] = p.ptr[f]) =>
                   p \in indexer'[k] /\ Contents(p)' # Contents(p)]_vars
<1>1. ASSUME IInv, NEW c \in Callers, NEW f \in LeakyFields, NEW v \in Values, Modify(c, f, v),
             NEW k \in Keys, NEW p \in indexer[k], \A o \in held[c] : o.ptr[f] = p.ptr[f]
      PROVE  p \in indexer'[k] /\ Contents(p)' # Contents(p)
  <2>1. f \in ModifiedFields /\ f \in PointerFields
    BY ModifiedFieldsAssumption DEF LeakyFields
  <2>2. PICK o \in held[c] : \E a \in o.ptr[f] : WritesCell(c, o, a, v)
    BY <1>1, <2>1, ModifiedCell
  <2>3. PICK a \in o.ptr[f] : WritesCell(c, o, a, v)
    BY <2>2
  <2>4. /\ a \in Reachable(indexer, held) /\ heap[a] # v /\ heap' = [heap EXCEPT ![a] = v]
        /\ indexer' = indexer
    BY <2>3 DEF WritesCell
  <2>5. heap \in [Reachable(indexer, held) -> Values]
    BY <1>1 DEF IInv, TypeOK
  <2>6. heap'[a] = v
    BY <2>4, <2>5
  <2>7. p.ptr[f] = {a}
    <3>1. held[c] \in Opt(Objects) /\ o \in Objects
      BY <1>1, OptProperties DEF IInv, TypeOK
    <3>2. o.ptr[f] \in Opt(Address(Ids))
      BY <2>1, <3>1 DEF Objects, Object, Pointers
    <3>3. o.ptr[f] = {a}
      BY <2>3, <3>2, OptProperties
    <3> QED  BY <1>1, <3>3
  <2>8. Contents(p).fields[f] = {heap[a]} /\ Contents(p)'.fields[f] = {heap'[a]}
    BY <2>1, <2>7 DEF Contents
  <2> QED  BY <2>4, <2>6, <2>8
<1>2. IInv /\ [Next]_vars =>
        [\A c \in Callers, f \in LeakyFields, v \in Values : Modify(c, f, v) =>
           \A k \in Keys : \A p \in indexer[k] :
             (\A o \in held[c] : o.ptr[f] = p.ptr[f]) =>
               p \in indexer'[k] /\ Contents(p)' # Contents(p)]_vars
  BY <1>1
<1> QED  BY <1>2, Invariance, PTL DEF Spec

=============================================================================
