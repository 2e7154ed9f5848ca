------------------------- MODULE PolicyClientProofs -------------------------
(***************************************************************************)
(* Proofs about PolicyClient, for any callers, policies, limits and        *)
(* numbers of retries: type correctness, the shared burst, what an Update  *)
(* replaces, and that the client implements PolicyApi.                     *)
(***************************************************************************)
EXTENDS PolicyClient, FiniteSetTheorems, TLAPS

(* The arguments that go with a method.                                    *)
Wellformed(o) ==
  /\ o.method \in AllMethods
  /\ o.method \in {"List", "DeleteCollection"} => o.name = ""
  /\ o.method \notin {"List", "DeleteCollection"} => o.labels = Labels /\ "" \notin {o.name, o.namespace}
  /\ o.method \in Writing => o.body.key.namespace = o.namespace /\ o.body.key.name = o.name

Edits(o, y) == o.body.key = y.key /\ o.body.version = y.version

(* A policy that was received once and the stored one: as long as the      *)
(* versions are the same, so are the contents.                             *)
Fits(y) == y.version <= revision /\ \A x \in store[y.key] : x.version = y.version => x.label = y.label

OpInv(c) == \A o \in op[c] : Wellformed(o) /\ (o.method = "Update" => \E y \in object[c] : Edits(o, y))

PhaseInv(c) ==
  /\ pc[c] = "idle" <=> op[c] = {}
  /\ pc[c] = "answered" <=> reply[c] # {}

ReplyInv(c) ==
  /\ \A r \in reply[c], o \in op[c] : o.method # "List" => r.objects \in Opt(Object)
  /\ \A r \in reply[c] : \A y \in r.objects : Fits(y)
  /\ \A y \in object[c] : Fits(y)

StoreInv == \A k \in Keys : \A x \in store[k] : x.version <= revision

VersionBound == revision + Pending <= MaxVersion

BudgetInv == Shared => budget = tokens["config"]

IInv ==
  /\ \A c \in Callers : OpInv(c) /\ PhaseInv(c) /\ ReplyInv(c)
  /\ StoreInv /\ VersionBound /\ BudgetInv

-----------------------------------------------------------------------------
(* The calls.                                                              *)

LEMMA OptProperties ==
  ASSUME NEW S
  PROVE  /\ {} \in Opt(S)
         /\ \A x \in S : {x} \in Opt(S)
         /\ \A o \in Opt(S) : o \subseteq S /\ \A x \in o : o = {x}
BY DEF Opt

LEMMA KeyProperties ==
  /\ \A k, l \in Keys : k.namespace = l.namespace /\ k.name = l.name => k = l
  /\ \A k \in Keys : k.namespace # "" /\ k.name # "" /\ k.namespace \in Namespaces /\ k.name \in Names
BY KeysAssumption DEF Namespaces, Names

LEMMA RequestTyped ==
  ASSUME NEW o, Wellformed(o), o.namespace \in Namespaces \cup {""}, o.name \in {""} \cup Names,
         o.labels \in Selectors \cup {Labels}, o.body \in Object
  PROVE  RequestOf(o) \in Requests
<1>0. o.name # "" => {o.name} \in Opt(Names)
  BY OptProperties
<1>1. o.method \in Writing => o.body.key.name \in Names /\ {o.body.key.name} \in Opt(Names)
  BY OptProperties, KeyProperties DEF Object
<1>2. {} \in Opt(Names) /\ {} \in Opt(Object) /\ {o.body} \in Opt(Object)
  BY OptProperties
<1> QED
  BY <1>0, <1>1, <1>2
     DEF RequestOf, Requests, Wellformed, AllMethods, Get, List, Create, Update, Delete, DeleteCollection,
         Patch, Request, Writing

LEMMA AskedCases ==
  ASSUME NEW c \in Callers, NEW o \in Asked(c)
  PROVE  \/ \E m \in {"Get", "Delete"}, k \in Reaches(c) : o = Naming(m, k, Blank)
         \/ \E k \in Reaches(c), l \in Written["Create"] : o = Naming("Create", k, Labelled(Blank, k, l))
         \/ \E k \in Reaches(c), l \in Written["Patch"] : o = Naming("Patch", k, Labelled(Blank, k, l))
         \/ \E y \in object[c], l \in Written["Update"] : o = Naming("Update", y.key, Labelled(y, y.key, l))
         \/ \E ns \in Scopes[c], ls \in Selectors : o = Selecting("List", ns, ls)
         \/ \E k \in Reaches(c), ls \in Selectors : o = Selecting("DeleteCollection", k.namespace, ls)
BY DEF Asked

(* The operations callers may ask for are as PolicyInterface has them.     *)
LEMMA OpsTyped ==
  ASSUME TypeOK, NEW c \in Callers, NEW o \in Ops(c)
  PROVE  /\ o \in Operations /\ o.method \in Methods[c]
         /\ Wellformed(o)
         /\ o.method = "Update" => \E y \in object[c] : Edits(o, y)
         /\ RequestOf(o) \in Requests
<1>1. /\ o \in Asked(c) /\ o.method \in Methods[c]
      /\ Methods[c] \subseteq AllMethods /\ Scopes[c] \subseteq Namespaces \cup {""}
  BY CallersAssumption DEF Ops
<1>2. \/ \E m \in {"Get", "Delete"}, k \in Reaches(c) : o = Naming(m, k, Blank)
      \/ \E k \in Reaches(c), l \in Written["Create"] : o = Naming("Create", k, Labelled(Blank, k, l))
      \/ \E k \in Reaches(c), l \in Written["Patch"] : o = Naming("Patch", k, Labelled(Blank, k, l))
      \/ \E y \in object[c], l \in Written["Update"] : o = Naming("Update", y.key, Labelled(y, y.key, l))
      \/ \E ns \in Scopes[c], ls \in Selectors : o = Selecting("List", ns, ls)
      \/ \E k \in Reaches(c), ls \in Selectors : o = Selecting("DeleteCollection", k.namespace, ls)
  BY <1>1, AskedCases
<1>3. Blank \in Object
  <2>1. (CHOOSE k \in Keys : TRUE) \in Keys
    BY KeysAssumption
  <2>2. (CHOOSE l \in Labels : TRUE) \in Labels
    BY SelectorsAssumption
  <2> QED  BY <2>1, <2>2, MaxAssumption DEF Blank, Object, Versions
<1>4. \A x \in Object, k \in Keys, l \in Labels :
        /\ Labelled(x, k, l) \in Object /\ Labelled(x, k, l).key = k
        /\ Labelled(x, k, l).version = x.version
  BY DEF Labelled, Object
<1>5. object[c] \subseteq Object
  <2>1. object[c] \in Opt(Object)
    BY DEF TypeOK
  <2> QED  BY <2>1, OptProperties
<1>6. \A m \in Writing : Written[m] \subseteq Labels
  BY WrittenAssumption
<1> DEFINE Good == /\ Wellformed(o) /\ o.body \in Object /\ o.labels \in Selectors \cup {Labels}
                   /\ o.name \in {""} \cup Names /\ o.namespace \in Namespaces \cup {""}
<1>7. ASSUME NEW m \in AllMethods, NEW k \in Keys, NEW body \in Object, o = Naming(m, k, body),
             m \notin {"List", "DeleteCollection"}, m \in Writing => body.key = k
      PROVE  Good
  BY <1>7, KeyProperties DEF Naming, Op, Wellformed
<1>8. ASSUME NEW m \in {"List", "DeleteCollection"}, NEW ns \in Namespaces \cup {""}, NEW ls \in Selectors,
             o = Selecting(m, ns, ls)
      PROVE  Good
  BY <1>3, <1>8 DEF Selecting, Op, Wellformed, AllMethods, Writing
<1> HIDE DEF Good
<1>9. Good
  <2>1. ASSUME NEW m \in {"Get", "Delete"}, NEW k \in Reaches(c), o = Naming(m, k, Blank)
        PROVE  Good
    BY <1>3, <1>7, <2>1 DEF AllMethods, Writing, Reaches
  <2>2. ASSUME NEW m \in {"Create", "Patch"}, NEW k \in Reaches(c), NEW l \in Written[m],
               o = Naming(m, k, Labelled(Blank, k, l))
        PROVE  Good
    <3>1. l \in Labels
      BY <1>6 DEF Writing
    <3> QED  BY <1>3, <1>4, <1>7, <2>2, <3>1 DEF AllMethods, Writing, Reaches
  <2>3. ASSUME NEW y \in object[c], NEW l \in Written["Update"], o = Naming("Update", y.key, Labelled(y, y.key, l))
        PROVE  Good
    <3>1. y \in Object /\ y.key \in Keys
      BY <1>5 DEF Object
    <3>2. l \in Labels
      BY <1>6 DEF Writing
    <3> QED  BY <1>4, <1>7, <2>3, <3>1, <3>2 DEF AllMethods, Writing
  <2>4. ASSUME NEW ns \in Scopes[c], NEW ls \in Selectors, o = Selecting("List", ns, ls)
        PROVE  Good
    BY <1>1, <1>8, <2>4
  <2>5. ASSUME NEW k \in Reaches(c), NEW ls \in Selectors, o = Selecting("DeleteCollection", k.namespace, ls)
        PROVE  Good
    BY <1>8, <2>5, KeyProperties DEF Reaches
  <2> QED  BY <1>2, <2>1, <2>2, <2>3, <2>4, <2>5
<1>10. ASSUME o.method = "Update"
       PROVE  \E y \in object[c] : Edits(o, y)
  <2>1. PICK y \in object[c], l \in Written["Update"] : o = Naming("Update", y.key, Labelled(y, y.key, l))
    <3>1. /\ \A m, k, body : Naming(m, k, body).method = m
          /\ \A m, ns, ls : Selecting(m, ns, ls).method = m
      BY DEF Naming, Selecting, Op
    <3> QED  BY <1>2, <1>10, <3>1
  <2>2. y \in Object /\ y.key \in Keys /\ l \in Labels
    BY <1>5, <1>6 DEF Object, Writing
  <2> QED  BY <1>4, <2>1, <2>2 DEF Edits, Naming, Op
<1>11. o = [method |-> o.method, namespace |-> o.namespace, name |-> o.name, labels |-> o.labels, body |-> o.body]
  BY <1>2 DEF Naming, Selecting, Op
<1>12. RequestOf(o) \in Requests
  BY <1>9, RequestTyped DEF Good
<1> QED  BY <1>1, <1>9, <1>10, <1>11, <1>12 DEF Good, Operations

-----------------------------------------------------------------------------
(* What the API server makes of a request.                                 *)

Aimed(o) == Targets(RequestOf(o))

(* The errors that come from a look at the request.                        *)
Excusable(o, kind) ==
  \/ kind = "notFound" /\ o.method \in {"Get", "Delete"} /\ Aimed(o) = {}
  \/ kind = "notFound" /\ o.method \in {"Update", "Patch"} /\ store[o.body.key] = {}
  \/ kind = "conflict" /\ o.method = "Update"
  \/ kind = "alreadyExists" /\ o.method = "Create" /\ store[o.body.key] # {}

Kinds == {"ok", "notFound", "alreadyExists", "conflict", "failed", "busy", "lost"}

ServedRead(c, o) ==
  /\ o.method = "List" \/ (o.method = "Get" /\ Aimed(o) # {})
  /\ Answer(c, "ok", UNION {Stored(k) : k \in Aimed(o)})
  /\ UNCHANGED <<store, revision>>

ServedRemoval(c, o) ==
  \/ /\ o.method = "DeleteCollection" \/ (o.method = "Delete" /\ Aimed(o) # {})
     /\ Remove(c, Aimed(o), "ok")
  \/ /\ o.method = "DeleteCollection"
     /\ \E ks \in SUBSET Aimed(o) : Remove(c, ks, "failed")

ServedWrite(c, o) ==
  /\ o.method \in Writing
  /\ o.method = "Create" <=> store[o.body.key] = {}
  /\ o.method = "Update" => \E x \in store[o.body.key] : x.version = o.body.version
  /\ Write(c, o.body.key, o.body.label)

LEMMA HowServed ==
  ASSUME NEW c \in Callers, Serve(c), \A o \in op[c] : Wellformed(o)
  PROVE  /\ pc[c] = "sent"
         /\ \E o \in op[c] : \/ \E kind \in Kinds : Excusable(o, kind) /\ Refuse(c, kind)
                             \/ ServedRead(c, o) \/ ServedRemoval(c, o) \/ ServedWrite(c, o)
<1>1. PICK o \in op[c] :
        LET req == RequestOf(o)
        IN  \/ ServeGet(c, req) \/ ServeDelete(c, req) \/ ServeDeleteFails(c, req)
            \/ ServePost(c, req) \/ ServePut(c, req) \/ ServePatch(c, req)
  BY DEF Serve
<1> DEFINE req == RequestOf(o)
           Goal == \/ \E kind \in Kinds : Excusable(o, kind) /\ Refuse(c, kind)
                   \/ ServedRead(c, o) \/ ServedRemoval(c, o) \/ ServedWrite(c, o)
<1>2. o.method \in AllMethods
  BY DEF Wellformed
<1>3. /\ req.verb \in {"get", "post", "put", "delete", "patch"}
      /\ req.verb = "get" => o.method \in {"Get", "List"} /\ (req.name = {} <=> o.method = "List")
      /\ req.verb = "delete" =>
           o.method \in {"Delete", "DeleteCollection"} /\ (req.name = {} <=> o.method = "DeleteCollection")
      /\ req.verb = "post" => o.method = "Create" /\ req.body = {o.body}
      /\ req.verb = "put" => o.method = "Update" /\ req.body = {o.body}
      /\ req.verb = "patch" => o.method = "Patch" /\ req.body = {o.body}
  BY <1>2 DEF RequestOf, AllMethods, Get, List, Create, Update, Delete, DeleteCollection, Patch, Request
<1>4. Aimed(o) = Targets(req)
  BY DEF Aimed
<1> HIDE DEF req
<1>5. Goal
  <2> USE DEF Kinds, Excusable
  <2>1. CASE ServeGet(c, req)
    BY <1>3, <1>4, <2>1 DEF ServeGet, ServedRead
  <2>2. CASE ServeDelete(c, req)
    BY <1>3, <1>4, <2>2 DEF ServeDelete, ServedRemoval
  <2>3. CASE ServeDeleteFails(c, req)
    BY <1>3, <1>4, <2>3 DEF ServeDeleteFails, ServedRemoval
  <2>4. CASE ServePost(c, req)
    BY <1>3, <2>4 DEF ServePost, ServedWrite, Writing
  <2>5. CASE ServePut(c, req)
    BY <1>3, <2>5 DEF ServePut, ServedWrite, Writing
  <2>6. CASE ServePatch(c, req)
    BY <1>3, <2>6 DEF ServePatch, ServedWrite, Writing
  <2> QED  BY <1>1, <2>1, <2>2, <2>3, <2>4, <2>5, <2>6 DEF req
<1> QED  BY <1>5 DEF Serve

LEMMA AimedSingly ==
  ASSUME NEW o, Wellformed(o)
  PROVE  /\ Aimed(o) \in SUBSET Keys
         /\ o.method \in {"Get", "Delete"} => \A k, l \in Aimed(o) : k = l
<1>1. Aimed(o) \in SUBSET Keys
  BY DEF Aimed, Targets
<1>2. ASSUME o.method \in {"Get", "Delete"}
      PROVE  \A k \in Aimed(o) : k.namespace = o.namespace /\ k.name = o.name
  <2>1. /\ RequestOf(o).namespace = o.namespace /\ o.namespace # ""
        /\ RequestOf(o).name = {o.name}
    BY <1>2 DEF RequestOf, Get, Delete, Request, Wellformed
  <2> QED  BY <2>1 DEF Aimed, Targets
<1> QED  BY <1>1, <1>2, KeyProperties

-----------------------------------------------------------------------------
(* Bookkeeping of the writes under way.                                    *)

Writers == {c \in Callers : pc[c] \in {"throttled", "sent"} /\ \E o \in op[c] : o.method \in Writing}

LEMMA PendingProperties ==
  /\ Pending \in Nat /\ Pending' \in Nat
  /\ Writers' \subseteq Writers => Pending' <= Pending
  /\ \A c \in Callers : Writers' \subseteq Writers \cup {c} => Pending' <= Pending + 1
  /\ \A c \in Writers : Writers' \subseteq Writers \ {c} => Pending' <= Pending - 1
<1>1. /\ Writers \in SUBSET Callers /\ Writers' \in SUBSET Callers
      /\ Pending = Cardinality(Writers) /\ Pending' = Cardinality(Writers')
  BY DEF Writers, Pending
<1>2. IsFiniteSet(Writers) /\ Cardinality(Writers) \in Nat /\ Cardinality(Writers') \in Nat
  <2>1. \A T \in SUBSET Callers : IsFiniteSet(T) /\ Cardinality(T) \in Nat
    BY CallersAssumption, FS_Subset, FS_CardinalityType
  <2> QED  BY <1>1, <2>1
<1>3. ASSUME NEW T, IsFiniteSet(T), Writers' \subseteq T
      PROVE  Cardinality(Writers') <= Cardinality(T)
  BY <1>3, FS_Subset
<1>4. ASSUME NEW c \in Callers
      PROVE  /\ IsFiniteSet(Writers \cup {c}) /\ Cardinality(Writers \cup {c}) <= Cardinality(Writers) + 1
             /\ IsFiniteSet(Writers \ {c})
             /\ c \in Writers => Cardinality(Writers \ {c}) = Cardinality(Writers) - 1
  <2>1. /\ IsFiniteSet(Writers \cup {c})
        /\ Cardinality(Writers \cup {c}) = IF c \in Writers THEN Cardinality(Writers) ELSE Cardinality(Writers) + 1
    BY <1>2, FS_AddElement
  <2>2. /\ IsFiniteSet(Writers \ {c})
        /\ Cardinality(Writers \ {c}) = IF c \in Writers THEN Cardinality(Writers) - 1 ELSE Cardinality(Writers)
    BY <1>2, FS_RemoveElement
  <2> QED  BY <1>2, <2>1, <2>2
<1>5. ASSUME NEW c \in Callers, Writers' \subseteq Writers \cup {c}
      PROVE  Pending' <= Pending + 1
  <2>1. Cardinality(Writers') <= Cardinality(Writers \cup {c})
    BY <1>3, <1>4, <1>5
  <2>2. Cardinality(Writers \cup {c}) \in Nat /\ Cardinality(Writers \cup {c}) <= Cardinality(Writers) + 1
    BY <1>4, FS_CardinalityType
  <2> QED  BY <1>1, <1>2, <2>1, <2>2
<1>6. ASSUME NEW c \in Writers, Writers' \subseteq Writers \ {c}
      PROVE  Pending' <= Pending - 1
  <2>1. c \in Callers
    BY <1>1
  <2>2. Cardinality(Writers') <= Cardinality(Writers \ {c})
    BY <1>3, <1>4, <1>6, <2>1
  <2> QED  BY <1>1, <1>4, <2>1, <2>2
<1>7. Writers' \subseteq Writers => Pending' <= Pending
  BY <1>1, <1>2, <1>3
<1> QED  BY <1>1, <1>2, <1>5, <1>6, <1>7

LEMMA BoundKept ==
  ASSUME TypeOK, IInv, revision' = revision,
         \/ Writers' \subseteq Writers
         \/ revision + Pending < MaxVersion /\ \E c \in Callers : Writers' \subseteq Writers \cup {c}
  PROVE  VersionBound'
<1>1. revision \in Nat /\ Pending \in Nat /\ Pending' \in Nat
  BY PendingProperties DEF TypeOK, Versions
<1>2. revision + Pending <= MaxVersion
  BY DEF IInv, VersionBound
<1>3. Pending' <= Pending \/ (revision + Pending < MaxVersion /\ Pending' <= Pending + 1)
  BY PendingProperties
<1>4. MaxVersion \in Int
  BY MaxAssumption
<1> DEFINE now == Pending
           next == Pending'
<1>5. now \in Nat /\ next \in Nat /\ revision + now <= MaxVersion
  BY <1>1, <1>2
<1>6. next <= now \/ (revision + now < MaxVersion /\ next <= now + 1)
  BY <1>3
<1> HIDE DEF now, next
<1>7. revision + next <= MaxVersion
  BY <1>1, <1>4, <1>5, <1>6
<1> QED  BY <1>7 DEF VersionBound, next

-----------------------------------------------------------------------------
(* The inductive invariant.                                                *)

LEMMA InitInv == Init => TypeOK /\ IInv
<1> SUFFICES ASSUME Init
             PROVE  TypeOK /\ IInv
  OBVIOUS
<1>1. /\ store \in [Keys -> Opt([label : Written["Create"], version : {1}])] /\ revision = 1
      /\ tokens = [l \in Limiters |-> Burst] /\ budget = Burst
      /\ pc = [c \in Callers |-> "idle"] /\ op = [c \in Callers |-> {}]
      /\ retries = [c \in Callers |-> 0] /\ reply = [c \in Callers |-> {}]
      /\ object = [c \in Callers |-> {}]
  BY DEF Init
<1>2. \A k \in Keys : \A x \in store[k] : x.version = 1
  <2>1. \A k \in Keys : store[k] \subseteq [label : Written["Create"], version : {1}]
    BY <1>1, OptProperties
  <2> QED  BY <2>1
<1>3. store \in [Keys -> Opt([label : Labels, version : Versions])]
  <2>1. Written["Create"] \subseteq Labels /\ 1 \in Versions
    BY WrittenAssumption, MaxAssumption DEF Writing, Versions
  <2>2. [label : Written["Create"], version : {1}] \subseteq [label : Labels, version : Versions]
    BY <2>1
  <2>3. Opt([label : Written["Create"], version : {1}]) \subseteq Opt([label : Labels, version : Versions])
    BY <2>2 DEF Opt
  <2> QED  BY <1>1, <2>3
<1>4. tokens \in [Limiters -> 0..Burst] /\ budget \in Int
  BY <1>1, BurstAssumption
<1>6. TypeOK
  <2>2. {} \in Opt(Operations) /\ {} \in Opt(Replies) /\ {} \in Opt(Object)
    BY OptProperties
  <2>3. revision \in Versions /\ retries \in [Callers -> 0..MaxRetries]
    BY <1>1, MaxAssumption DEF Versions
  <2> QED  BY <1>1, <1>3, <1>4, <2>2, <2>3 DEF TypeOK
<1>7. VersionBound
  <2>1. Writers = {}
    BY <1>1 DEF Writers
  <2>2. Pending = 0
    BY <2>1, FS_EmptySet DEF Pending, Writers
  <2> QED  BY <1>1, <2>2, MaxAssumption DEF VersionBound
<1>8. StoreInv
  BY <1>1, <1>2 DEF StoreInv
<1>9. BudgetInv
  BY <1>1 DEF BudgetInv, Limiters
<1>10. \A c \in Callers : OpInv(c) /\ PhaseInv(c) /\ ReplyInv(c)
  BY <1>1 DEF OpInv, PhaseInv, ReplyInv
<1> QED  BY <1>6, <1>7, <1>8, <1>9, <1>10 DEF IInv

(* An answer to a call. The change of the store it comes with keeps what   *)
(* everybody knows of the policies.                                        *)
LEMMA AnswerKeeps ==
  ASSUME TypeOK, IInv, NEW c \in Callers, pc[c] \in {"sent", "answered"},
         NEW kind \in Kinds, NEW objects \in SUBSET Object, Answer(c, kind, objects),
         \A o \in op[c] : o.method # "List" => objects \in Opt(Object),
         \A y \in objects : Fits(y)',
         store' \in [Keys -> Opt([label : Labels, version : Versions])], StoreInv',
         \A y \in Object : Fits(y) => Fits(y)',
         revision' \in Versions, revision' = revision \/ (c \in Writers /\ revision' = revision + 1)
  PROVE  TypeOK' /\ IInv'
<1> DEFINE r == [kind |-> kind, objects |-> objects]
<1>1. r \in Replies /\ r.objects = objects
  BY DEF Replies, Kinds
<1>2. /\ pc' = [pc EXCEPT ![c] = "answered"] /\ reply' = [reply EXCEPT ![c] = {r}]
      /\ retries' = [retries EXCEPT ![c] = 0]
      /\ tokens' = tokens /\ budget' = budget /\ op' = op /\ object' = object
  BY DEF Answer, Goto
<1>3. /\ pc \in [Callers -> {"idle", "throttled", "sent", "answered"}] /\ reply \in [Callers -> Opt(Replies)]
      /\ retries \in [Callers -> 0..MaxRetries] /\ object \in [Callers -> Opt(Object)]
      /\ revision \in Versions
  BY DEF TypeOK
<1> HIDE DEF r
<1>4. TypeOK'
  <2>1. {r} \in Opt(Replies)
    BY <1>1, OptProperties
  <2>2. reply' \in [Callers -> Opt(Replies)]
    BY <1>2, <1>3, <2>1
  <2>3. /\ pc' \in [Callers -> {"idle", "throttled", "sent", "answered"}]
        /\ retries' \in [Callers -> 0..MaxRetries]
    BY <1>2, <1>3, MaxAssumption
  <2> QED  BY <1>2, <2>2, <2>3 DEF TypeOK
<1>5. VersionBound'
  <2>1. Writers' \subseteq Writers \ {c}
    BY <1>2, <1>3 DEF Writers
  <2>2. Pending' <= Pending /\ (c \in Writers => Pending' <= Pending - 1)
    BY <2>1, PendingProperties
  <2>3. Pending \in Nat /\ Pending' \in Nat /\ revision \in Nat
    BY <1>3, PendingProperties DEF Versions
  <2>4. revision + Pending <= MaxVersion
    BY DEF IInv, VersionBound
  <2> QED  BY <2>2, <2>3, <2>4, MaxAssumption DEF VersionBound
<1>6. BudgetInv'
  BY <1>2 DEF IInv, BudgetInv
<1>7. ASSUME NEW d \in Callers
      PROVE  OpInv(d)' /\ PhaseInv(d)' /\ ReplyInv(d)'
  <2>1. OpInv(d) /\ PhaseInv(d) /\ ReplyInv(d)
    BY DEF IInv
  <2>2. OpInv(d)'
    BY <1>2, <2>1 DEF OpInv
  <2>3. PhaseInv(d)'
    BY <1>2, <1>3, <2>1 DEF PhaseInv
  <2>4. \A x \in reply'[d], o \in op'[d] : o.method # "List" => x.objects \in Opt(Object)
    BY <1>1, <1>2, <1>3, <2>1 DEF ReplyInv
  <2>5. \A x \in reply[d] : x.objects \subseteq Object
    <3>1. reply[d] \subseteq Replies
      BY <1>3, OptProperties
    <3> QED  BY <3>1 DEF Replies
  <2>6. \A x \in reply'[d] : \A y \in x.objects : Fits(y)'
    BY <1>1, <1>2, <1>3, <2>1, <2>5 DEF ReplyInv
  <2>7. object[d] \subseteq Object
    BY <1>3, OptProperties
  <2>8. \A y \in object'[d] : Fits(y)'
    BY <1>2, <2>1, <2>7 DEF ReplyInv
  <2> QED  BY <2>2, <2>3, <2>4, <2>6, <2>8 DEF ReplyInv
<1> QED  BY <1>4, <1>5, <1>6, <1>7 DEF IInv

(* What the steps of a call do to the answer, the store and its versions.  *)

LEMMA RefuseKeeps ==
  ASSUME TypeOK, IInv, NEW c \in Callers, pc[c] \in {"sent", "answered"},
         NEW kind \in Kinds, Refuse(c, kind)
  PROVE  TypeOK' /\ IInv'
<1>1. Answer(c, kind, {}) /\ store' = store /\ revision' = revision
  BY DEF Refuse
<1>2. {} \in Opt(Object) /\ {} \in SUBSET Object
  BY OptProperties
<1>3. /\ store' \in [Keys -> Opt([label : Labels, version : Versions])] /\ revision' \in Versions
      /\ StoreInv' /\ \A y \in Object : Fits(y) => Fits(y)'
  BY <1>1 DEF TypeOK, IInv, StoreInv, Fits
<1> QED  BY <1>1, <1>2, <1>3, AnswerKeeps

LEMMA StoredProperties ==
  ASSUME TypeOK, NEW k \in Keys
  PROVE  /\ store[k] \in Opt([label : Labels, version : Versions])
         /\ Stored(k) \in Opt(Object)
         /\ \A y \in Stored(k) : y.key = k /\ \E x \in store[k] : y.label = x.label /\ y.version = x.version
<1>1. store[k] \in Opt([label : Labels, version : Versions])
  BY DEF TypeOK
<1>2. store[k] \subseteq [label : Labels, version : Versions] /\ \A x, y \in store[k] : x = y
  BY <1>1 DEF Opt
<1>3. Stored(k) \subseteq Object /\ \A x, y \in Stored(k) : x = y
  BY <1>2 DEF Stored, Object
<1>4. \A y \in Stored(k) : y.key = k /\ \E x \in store[k] : y.label = x.label /\ y.version = x.version
  BY DEF Stored
<1> QED  BY <1>1, <1>3, <1>4 DEF Opt

LEMMA ReadKeeps ==
  ASSUME TypeOK, IInv, NEW c \in Callers, pc[c] = "sent", NEW o \in op[c], ServedRead(c, o)
  PROVE  TypeOK' /\ IInv'
<1> DEFINE objects == UNION {Stored(k) : k \in Aimed(o)}
<1>1. Answer(c, "ok", objects) /\ store' = store /\ revision' = revision
  BY DEF ServedRead
<1>2. Wellformed(o) /\ \A p \in op[c] : p = o
  <2>1. op[c] \in Opt(Operations) /\ OpInv(c)
    BY DEF TypeOK, IInv
  <2> QED  BY <2>1 DEF OpInv, Opt
<1>3. Aimed(o) \in SUBSET Keys /\ (o.method = "Get" => \A k, l \in Aimed(o) : k = l)
  BY <1>2, AimedSingly
<1>4. objects \in SUBSET Object
  BY <1>3, StoredProperties, OptProperties
<1>5. o.method # "List" => objects \in Opt(Object)
  <2> SUFFICES ASSUME o.method # "List"
               PROVE  objects \in Opt(Object)
    OBVIOUS
  <2>1. PICK k \in Aimed(o) : Aimed(o) = {k}
    BY <1>3 DEF ServedRead
  <2>2. k \in Keys /\ objects = Stored(k)
    BY <1>3, <2>1
  <2> QED  BY <2>2, StoredProperties
<1>6. \A y \in objects : Fits(y)
  <2> SUFFICES ASSUME NEW k \in Aimed(o), NEW y \in Stored(k)
               PROVE  Fits(y)
    OBVIOUS
  <2>1. PICK x \in store[k] : y.key = k /\ y.label = x.label /\ y.version = x.version
    BY <1>3, StoredProperties
  <2>2. x.version <= revision /\ \A z \in store[k] : z = x
    BY <1>3, StoredProperties DEF IInv, StoreInv, Opt
  <2> QED  BY <2>1, <2>2 DEF Fits
<1>7. /\ store' \in [Keys -> Opt([label : Labels, version : Versions])] /\ revision' \in Versions
      /\ StoreInv' /\ \A y \in Object : Fits(y) => Fits(y)'
  BY <1>1 DEF TypeOK, IInv, StoreInv, Fits
<1> HIDE DEF objects
<1>8. \A y \in objects : Fits(y)'
  BY <1>4, <1>6, <1>7
<1>9. \A p \in op[c] : p.method # "List" => objects \in Opt(Object)
  BY <1>2, <1>5
<1>10. "ok" \in Kinds
  BY DEF Kinds
<1> QED  BY <1>1, <1>4, <1>7, <1>8, <1>9, <1>10, AnswerKeeps

LEMMA RemoveKeeps ==
  ASSUME TypeOK, IInv, NEW c \in Callers, pc[c] = "sent", NEW ks, NEW kind \in Kinds, Remove(c, ks, kind)
  PROVE  TypeOK' /\ IInv'
<1>1. /\ Answer(c, kind, {}) /\ revision' = revision
      /\ store' = [k \in Keys |-> IF k \in ks THEN {} ELSE store[k]]
  BY DEF Remove
<1>2. {} \in Opt(Object) /\ {} \in SUBSET Object /\ {} \in Opt([label : Labels, version : Versions])
  BY OptProperties
<1>3. store' \in [Keys -> Opt([label : Labels, version : Versions])] /\ revision' \in Versions
  BY <1>1, <1>2 DEF TypeOK
<1>4. \A k \in Keys : store'[k] \subseteq store[k]
  BY <1>1
<1>5. StoreInv' /\ \A y \in Object : Fits(y) => Fits(y)'
  BY <1>1, <1>4 DEF IInv, StoreInv, Fits, Object
<1> QED  BY <1>1, <1>2, <1>3, <1>5, AnswerKeeps

LEMMA WriteKeeps ==
  ASSUME TypeOK, IInv, NEW c \in Callers, pc[c] = "sent", NEW o \in op[c], ServedWrite(c, o)
  PROVE  TypeOK' /\ IInv'
<1> DEFINE k == o.body.key
           new == [label |-> o.body.label, version |-> revision + 1]
           told == [key |-> k, label |-> o.body.label, version |-> revision + 1]
<1>1. /\ Answer(c, "ok", {told}) /\ revision' = revision + 1 /\ store' = [store EXCEPT ![k] = {new}]
  BY DEF ServedWrite, Write
<1>2. o \in Operations
  <2>1. op[c] \in Opt(Operations)
    BY DEF TypeOK
  <2> QED  BY <2>1, OptProperties
<1>3. k \in Keys /\ o.body.label \in Labels
  BY <1>2 DEF Operations, Object
<1>4. c \in Writers
  BY DEF Writers, ServedWrite
<1>5. revision + 1 \in Versions /\ revision \in Nat
  <2>1. Pending \in Nat /\ Pending # 0
    <3>1. Writers # {} /\ IsFiniteSet(Writers)
      BY <1>4, CallersAssumption, FS_Subset DEF Writers
    <3> QED  BY <3>1, FS_EmptySet, PendingProperties DEF Pending, Writers
  <2>2. revision + Pending <= MaxVersion /\ revision \in 0..MaxVersion
    BY DEF IInv, VersionBound, TypeOK, Versions
  <2> QED  BY <2>1, <2>2, MaxAssumption DEF Versions
<1>6. /\ new \in [label : Labels, version : Versions] /\ told \in Object
      /\ {new} \in Opt([label : Labels, version : Versions]) /\ {told} \in Opt(Object)
  <2>1. new \in [label : Labels, version : Versions] /\ told \in Object
    BY <1>3, <1>5 DEF Object
  <2> HIDE DEF new, told
  <2> QED  BY <2>1, OptProperties
<1>7. store \in [Keys -> Opt([label : Labels, version : Versions])]
  BY DEF TypeOK
<1>8. store' \in [Keys -> Opt([label : Labels, version : Versions])] /\ revision' \in Versions
  BY <1>1, <1>5, <1>6, <1>7
<1>9. \A l \in Keys : store'[l] = IF l = k THEN {new} ELSE store[l]
  BY <1>1, <1>7
<1>10. \A l \in Keys : \A x \in store[l] : x.version \in Nat /\ x.version <= revision
  <2>1. ASSUME NEW l \in Keys
        PROVE  store[l] \subseteq [label : Labels, version : Versions]
    <3>1. store[l] \in Opt([label : Labels, version : Versions])
      BY StoredProperties
    <3> QED  BY <3>1 DEF Opt
  <2>2. ASSUME NEW l \in Keys, NEW x \in store[l]
        PROVE  x.version \in Nat
    <3>1. x \in [label : Labels, version : Versions]
      BY <2>1
    <3> QED  BY <3>1, MaxAssumption DEF Versions
  <2> QED  BY <2>2 DEF IInv, StoreInv
<1>11. StoreInv'
  BY <1>1, <1>5, <1>9, <1>10 DEF StoreInv
<1>12. ASSUME NEW y \in Object, Fits(y)
       PROVE  Fits(y)'
  <2>1. y.key \in Keys /\ y.version \in Nat /\ y.version <= revision
    BY <1>12 DEF Fits, Object, Versions
  <2>2. new.version # y.version /\ y.version <= revision'
    BY <1>1, <1>5, <2>1
  <2> QED  BY <1>9, <1>12, <2>1, <2>2 DEF Fits
<1>13. \A y \in {told} : Fits(y)'
  <2>1. told.version <= revision'
    BY <1>1, <1>5
  <2>2. \A x \in store'[told.key] : x.label = told.label
    BY <1>3, <1>9
  <2> QED  BY <2>1, <2>2 DEF Fits
<1>14. "ok" \in Kinds
  BY DEF Kinds
<1> HIDE DEF new, told
<1>15. {told} \in SUBSET Object
  BY <1>6
<1> QED  BY <1>1, <1>4, <1>6, <1>8, <1>11, <1>12, <1>13, <1>14, <1>15, AnswerKeeps

LEMMA ServeKeeps ==
  ASSUME TypeOK, IInv, NEW c \in Callers, Serve(c)
  PROVE  TypeOK' /\ IInv'
<1>1. \A o \in op[c] : Wellformed(o)
  BY DEF IInv, OpInv
<1>2. PICK o \in op[c] : \/ \E kind \in Kinds : Excusable(o, kind) /\ Refuse(c, kind)
                         \/ ServedRead(c, o) \/ ServedRemoval(c, o) \/ ServedWrite(c, o)
  BY <1>1, HowServed
<1>3. pc[c] = "sent"
  BY DEF Serve
<1>4. ASSUME ServedRemoval(c, o)
      PROVE  TypeOK' /\ IInv'
  BY <1>3, <1>4, RemoveKeeps DEF ServedRemoval, Kinds
<1> QED  BY <1>2, <1>3, <1>4, RefuseKeeps, ReadKeeps, WriteKeeps

LEMMA TokenTaken ==
  ASSUME TypeOK, IInv, NEW client \in RestClients, TakeToken(client)
  PROVE  tokens' \in [Limiters -> 0..Burst] /\ budget' \in Int /\ BudgetInv'
<1>1. Limiter(client) \in Limiters /\ "config" \in Limiters /\ (Shared => Limiter(client) = "config")
  BY DEF Limiter, Limiters
<1>2. /\ tokens \in [Limiters -> 0..Burst] /\ budget \in Int
      /\ tokens[Limiter(client)] > 0 /\ budget' = budget - 1
      /\ tokens' = [tokens EXCEPT ![Limiter(client)] = tokens[Limiter(client)] - 1]
  BY DEF TypeOK, TakeToken
<1>3. tokens' \in [Limiters -> 0..Burst] /\ budget' \in Int
  BY <1>1, <1>2, BurstAssumption
<1>4. Shared => budget = tokens["config"]
  BY DEF IInv, BudgetInv
<1> QED  BY <1>1, <1>2, <1>3, <1>4 DEF BudgetInv, Shared

LEMMA RefillKeeps ==
  ASSUME TypeOK, IInv, Refill
  PROVE  TypeOK' /\ IInv'
<1>1. tokens \in [Limiters -> 0..Burst] /\ budget \in Int /\ (Shared => budget = tokens["config"])
  BY DEF TypeOK, IInv, BudgetInv
<1>2. /\ tokens' = [l \in Limiters |-> Lesser(tokens[l] + 1, Burst)] /\ budget' = Lesser(budget + 1, Burst)
      /\ UNCHANGED <<store, revision, pc, op, retries, reply, object>>
  BY DEF Refill, callVars
<1>3. \A n \in 0..Burst : Lesser(n + 1, Burst) \in 0..Burst
  BY BurstAssumption DEF Lesser
<1>4. tokens' \in [Limiters -> 0..Burst]
  BY <1>1, <1>2, <1>3
<1>5. budget' \in Int
  BY <1>1, <1>2, BurstAssumption DEF Lesser
<1>6. BudgetInv'
  BY <1>1, <1>2 DEF BudgetInv, Shared, Limiters
<1>7. TypeOK'
  BY <1>2, <1>4, <1>5 DEF TypeOK
<1>8. VersionBound' /\ StoreInv'
  BY <1>2 DEF IInv, VersionBound, StoreInv, Pending
<1>9. \A c \in Callers : OpInv(c)' /\ PhaseInv(c)' /\ ReplyInv(c)'
  BY <1>2 DEF IInv, OpInv, PhaseInv, ReplyInv, Fits
<1> QED  BY <1>6, <1>7, <1>8, <1>9 DEF IInv

LEMMA DiscoverKeeps ==
  ASSUME TypeOK, IInv, Discover
  PROVE  TypeOK' /\ IInv'
<1>1. tokens' \in [Limiters -> 0..Burst] /\ budget' \in Int /\ BudgetInv'
  BY TokenTaken DEF Discover, RestClients
<1>2. UNCHANGED <<store, revision, pc, op, retries, reply, object>>
  BY DEF Discover, callVars
<1>3. TypeOK'
  BY <1>1, <1>2 DEF TypeOK
<1>4. VersionBound' /\ StoreInv'
  BY <1>2 DEF IInv, VersionBound, StoreInv, Pending
<1>5. \A c \in Callers : OpInv(c)' /\ PhaseInv(c)' /\ ReplyInv(c)'
  BY <1>2 DEF IInv, OpInv, PhaseInv, ReplyInv, Fits
<1> QED  BY <1>1, <1>3, <1>4, <1>5 DEF IInv

LEMMA CallKeeps ==
  ASSUME TypeOK, IInv, NEW c \in Callers, NEW o \in Ops(c), Call(c, o)
  PROVE  TypeOK' /\ IInv'
<1>1. /\ pc[c] = "idle" /\ (o.method \in Writing => revision + Pending < MaxVersion)
      /\ pc' = [pc EXCEPT ![c] = "throttled"] /\ op' = [op EXCEPT ![c] = {o}]
      /\ UNCHANGED <<store, revision, tokens, budget, retries, reply, object>>
  BY DEF Call, Goto
<1>2. /\ o \in Operations /\ o.method \in Methods[c] /\ Wellformed(o) /\ RequestOf(o) \in Requests
      /\ o.method = "Update" => \E y \in object[c] : Edits(o, y)
  BY OpsTyped
<1>3. /\ pc \in [Callers -> {"idle", "throttled", "sent", "answered"}] /\ op \in [Callers -> Opt(Operations)]
      /\ \A d \in Callers : \A p \in op[d] : p.method \in Methods[d] /\ RequestOf(p) \in Requests
  BY DEF TypeOK
<1>4. TypeOK'
  <2>1. op' \in [Callers -> Opt(Operations)]
    BY <1>1, <1>2, <1>3, OptProperties
  <2>2. pc' \in [Callers -> {"idle", "throttled", "sent", "answered"}]
    BY <1>1, <1>3
  <2>3. \A d \in Callers : \A p \in op'[d] : p.method \in Methods[d] /\ RequestOf(p) \in Requests
    BY <1>1, <1>2, <1>3
  <2> QED  BY <1>1, <2>1, <2>2, <2>3 DEF TypeOK
<1>5. VersionBound'
  <2>1. Writers' \subseteq Writers \cup {c} /\ (o.method \notin Writing => Writers' \subseteq Writers)
    BY <1>1, <1>3 DEF Writers
  <2> QED  BY <1>1, <2>1, BoundKept
<1>6. BudgetInv' /\ StoreInv'
  BY <1>1 DEF IInv, BudgetInv, StoreInv
<1>7. ASSUME NEW d \in Callers
      PROVE  OpInv(d)' /\ PhaseInv(d)' /\ ReplyInv(d)'
  <2>1. OpInv(d) /\ PhaseInv(d) /\ ReplyInv(d)
    BY DEF IInv
  <2>2. OpInv(d)'
    BY <1>1, <1>2, <1>3, <2>1 DEF OpInv
  <2>3. PhaseInv(d)'
    BY <1>1, <1>3, <2>1 DEF PhaseInv
  <2>4. d = c => reply[d] = {}
    BY <1>1, <2>1 DEF PhaseInv
  <2>5. ReplyInv(d)'
    BY <1>1, <1>3, <2>1, <2>4 DEF ReplyInv, Fits
  <2> QED  BY <2>2, <2>3, <2>5
<1> QED  BY <1>4, <1>5, <1>6, <1>7 DEF IInv

(* A request waits for its token, or is sent with it.                      *)
LEMMA RequestKeeps ==
  ASSUME TypeOK, IInv, NEW c \in Callers, pc[c] \in {"throttled", "sent"}, NEW phase \in {"throttled", "sent"},
         Goto(c, phase), tokens' \in [Limiters -> 0..Burst], budget' \in Int, BudgetInv',
         retries' \in [Callers -> 0..MaxRetries],
         UNCHANGED <<store, revision, op, reply, object>>
  PROVE  TypeOK' /\ IInv'
<1>1. pc' = [pc EXCEPT ![c] = phase] /\ pc \in [Callers -> {"idle", "throttled", "sent", "answered"}]
  BY DEF Goto, TypeOK
<1>2. pc' \in [Callers -> {"idle", "throttled", "sent", "answered"}]
  BY <1>1
<1>3. TypeOK'
  BY <1>2 DEF TypeOK
<1>4. VersionBound'
  <2>1. Writers' \subseteq Writers
    BY <1>1 DEF Writers
  <2> QED  BY <2>1, BoundKept
<1>5. StoreInv'
  BY DEF IInv, StoreInv
<1>6. ASSUME NEW d \in Callers
      PROVE  OpInv(d)' /\ PhaseInv(d)' /\ ReplyInv(d)'
  <2>1. OpInv(d) /\ PhaseInv(d) /\ ReplyInv(d)
    BY DEF IInv
  <2>2. OpInv(d)' /\ ReplyInv(d)'
    BY <2>1 DEF OpInv, ReplyInv, Fits
  <2>3. PhaseInv(d)'
    BY <1>1, <2>1 DEF PhaseInv
  <2> QED  BY <2>2, <2>3
<1> QED  BY <1>3, <1>4, <1>5, <1>6 DEF IInv

LEMMA SendKeeps ==
  ASSUME TypeOK, IInv, NEW c \in Callers, Send(c)
  PROVE  TypeOK' /\ IInv'
<1>1. tokens' \in [Limiters -> 0..Burst] /\ budget' \in Int /\ BudgetInv'
  BY TokenTaken DEF Send, RestClients
<1>2. pc[c] = "throttled" /\ Goto(c, "sent") /\ UNCHANGED <<store, revision, op, retries, reply, object>>
  BY DEF Send
<1>3. retries \in [Callers -> 0..MaxRetries]
  BY DEF TypeOK
<1> QED  BY <1>1, <1>2, <1>3, RequestKeeps

LEMMA BusyKeeps ==
  ASSUME TypeOK, IInv, NEW c \in Callers, Busy(c)
  PROVE  TypeOK' /\ IInv'
<1>1. CASE retries[c] < MaxRetries
  <2>1. /\ pc[c] = "sent" /\ Goto(c, "throttled") /\ retries' = [retries EXCEPT ![c] = @ + 1]
        /\ UNCHANGED <<store, revision, tokens, budget, op, reply, object>>
    BY <1>1 DEF Busy, SendAgain
  <2>2. retries \in [Callers -> 0..MaxRetries] /\ tokens \in [Limiters -> 0..Burst] /\ budget \in Int
    BY DEF TypeOK
  <2>3. retries' \in [Callers -> 0..MaxRetries]
    BY <1>1, <2>1, <2>2, MaxAssumption
  <2>4. BudgetInv'
    BY <2>1 DEF IInv, BudgetInv
  <2> QED  BY <2>1, <2>2, <2>3, <2>4, RequestKeeps
<1>2. CASE ~(retries[c] < MaxRetries)
  BY <1>2, RefuseKeeps DEF Busy, Kinds
<1> QED  BY <1>1, <1>2

LEMMA ReturnKeeps ==
  ASSUME TypeOK, IInv, NEW c \in Callers, Return(c)
  PROVE  TypeOK' /\ IInv'
<1> DEFINE kept == IF Received(c) = {} THEN object[c] ELSE Received(c)
<1>1. /\ pc[c] = "answered" /\ pc' = [pc EXCEPT ![c] = "idle"] /\ object' = [object EXCEPT ![c] = kept]
      /\ op' = [op EXCEPT ![c] = {}] /\ reply' = [reply EXCEPT ![c] = {}]
      /\ UNCHANGED <<store, revision, tokens, budget, retries>>
  BY DEF Return, Finish, Goto
<1>2. /\ pc \in [Callers -> {"idle", "throttled", "sent", "answered"}] /\ op \in [Callers -> Opt(Operations)]
      /\ reply \in [Callers -> Opt(Replies)] /\ object \in [Callers -> Opt(Object)]
      /\ \A d \in Callers : \A p \in op[d] : p.method \in Methods[d] /\ RequestOf(p) \in Requests
  BY DEF TypeOK
<1>3. OpInv(c) /\ PhaseInv(c) /\ ReplyInv(c)
  BY DEF IInv
<1>4. kept \in Opt(Object) /\ \A y \in kept : Fits(y)
  <2>1. object[c] \in Opt(Object) /\ \A y \in object[c] : Fits(y)
    BY <1>2, <1>3 DEF ReplyInv
  <2>2. ASSUME Received(c) # {}
        PROVE  Received(c) \in Opt(Object) /\ \A y \in Received(c) : Fits(y)
    <3>1. PICK o \in op[c] : TRUE
      BY <1>1, <1>3 DEF PhaseInv
    <3>2. PICK r \in reply[c] : reply[c] = {r}
      BY <1>1, <1>2, <1>3, OptProperties DEF PhaseInv
    <3>3. o.method # "List" /\ Received(c) = r.objects
      BY <2>2, <3>1, <3>2 DEF Received
    <3> QED  BY <1>3, <3>1, <3>2, <3>3 DEF ReplyInv
  <2> QED  BY <2>1, <2>2
<1> HIDE DEF kept
<1>5. TypeOK'
  <2>1. {} \in Opt(Operations) /\ {} \in Opt(Replies)
    BY OptProperties
  <2>2. op' \in [Callers -> Opt(Operations)] /\ reply' \in [Callers -> Opt(Replies)]
    BY <1>1, <1>2, <2>1
  <2>3. object' \in [Callers -> Opt(Object)] /\ pc' \in [Callers -> {"idle", "throttled", "sent", "answered"}]
    BY <1>1, <1>2, <1>4
  <2>4. \A d \in Callers : \A p \in op'[d] : p.method \in Methods[d] /\ RequestOf(p) \in Requests
    BY <1>1, <1>2
  <2> QED  BY <1>1, <2>2, <2>3, <2>4 DEF TypeOK
<1>6. VersionBound'
  <2>1. Writers' \subseteq Writers
    BY <1>1, <1>2 DEF Writers
  <2> QED  BY <1>1, <2>1, BoundKept
<1>7. BudgetInv' /\ StoreInv'
  BY <1>1 DEF IInv, BudgetInv, StoreInv
<1>8. ASSUME NEW d \in Callers
      PROVE  OpInv(d)' /\ PhaseInv(d)' /\ ReplyInv(d)'
  <2>1. OpInv(d) /\ PhaseInv(d) /\ ReplyInv(d)
    BY DEF IInv
  <2>2. OpInv(d)'
    BY <1>1, <1>2, <2>1 DEF OpInv
  <2>3. PhaseInv(d)'
    BY <1>1, <1>2, <2>1 DEF PhaseInv
  <2>4. ReplyInv(d)'
    BY <1>1, <1>2, <1>4, <2>1 DEF ReplyInv, Fits
  <2> QED  BY <2>2, <2>3, <2>4
<1> QED  BY <1>5, <1>6, <1>7, <1>8 DEF IInv

LEMMA NextInv == TypeOK /\ IInv /\ [Next]_vars => TypeOK' /\ IInv'
<1> SUFFICES ASSUME TypeOK, IInv, [Next]_vars
             PROVE  TypeOK' /\ IInv'
  OBVIOUS
<1>1. CASE UNCHANGED vars
  <2>1. UNCHANGED <<store, revision, tokens, budget, pc, op, retries, reply, object>>
    BY <1>1 DEF vars, callVars
  <2>2. TypeOK'
    BY <2>1 DEF TypeOK
  <2>3. StoreInv' /\ VersionBound' /\ BudgetInv'
    BY <2>1 DEF IInv, StoreInv, VersionBound, Pending, BudgetInv
  <2>4. \A c \in Callers : OpInv(c)' /\ PhaseInv(c)' /\ ReplyInv(c)'
    BY <2>1 DEF IInv, OpInv, PhaseInv, ReplyInv, Fits
  <2> QED  BY <2>2, <2>3, <2>4 DEF IInv
<1>2. ASSUME NEW c \in Callers, LoseRequest(c) \/ LoseAnswer(c)
      PROVE  TypeOK' /\ IInv'
  BY <1>2, RefuseKeeps DEF LoseRequest, LoseAnswer, Kinds
<1> QED
  BY <1>1, <1>2, RefillKeeps, DiscoverKeeps, CallKeeps, SendKeeps, ServeKeeps, BusyKeeps, ReturnKeeps DEF Next

LEMMA Invariance == Spec => [](TypeOK /\ IInv)
BY InitInv, NextInv, PTL DEF Spec

(* The variables of the client and of the API server keep their types,     *)
(* for any callers, policies and bounds.                                   *)
THEOREM TypeCorrect == Spec => []TypeOK
BY Invariance, PTL

(* However the discovery client and the callers draw on it, the one        *)
(* limiter of NewForConfig lets out no more than QPS and Burst allow.      *)
THEOREM SharedBurst == Spec => []BurstIsShared
<1>1. TypeOK /\ IInv => BurstIsShared
  <2> SUFFICES ASSUME TypeOK, IInv, Shared
               PROVE  budget >= 0
    BY DEF BurstIsShared
  <2>1. tokens["config"] \in 0..Burst
    BY DEF TypeOK, Limiters
  <2> QED  BY <2>1, BurstAssumption DEF IInv, BudgetInv
<1> QED  BY <1>1, Invariance, PTL

-----------------------------------------------------------------------------
(* What an Update replaces.                                                *)

(* The version that a caller sends back with an edited policy makes sure   *)
(* that the API server still has the policy the caller has edited.         *)
THEOREM UpdatesReplace == Spec => UpdatesReplaceWhatWasRead
<1> DEFINE Replaces == \A c \in Callers : \A o \in op[c] :
                         o.method = "Update" /\ reply'[c] # reply[c] /\ store' # store
                           => Stored(o.body.key) = object[c]
<1>1. ASSUME TypeOK, IInv, Next
      PROVE  Replaces
  <2> SUFFICES ASSUME NEW c \in Callers, NEW o \in op[c], o.method = "Update",
                      reply'[c] # reply[c], store' # store
               PROVE  Stored(o.body.key) = object[c]
    OBVIOUS
  <2>1. /\ reply \in [Callers -> Opt(Replies)]
        /\ op[c] \in Opt(Operations) /\ object[c] \in Opt(Object)
    BY <1>1 DEF TypeOK
  <2>2. /\ \A p \in op[c] : p = o
        /\ o \in Operations /\ object[c] \subseteq Object /\ \A y \in object[c] : object[c] = {y}
    BY <2>1, OptProperties DEF Opt
  <2>3. PICK d \in Callers : Serve(d)
    BY <1>1 DEF Next, Refill, Discover, Call, Send, Busy, SendAgain, LoseRequest, LoseAnswer, Refuse, Return, Finish
  <2>4. \A p \in op[d] : Wellformed(p)
    BY <1>1 DEF IInv, OpInv
  <2>5. PICK p \in op[d] : ServedRemoval(d, p) \/ ServedWrite(d, p)
    BY <2>3, <2>4, HowServed DEF Refuse, ServedRead
  <2>6. d = c
    <3>1. PICK r : reply' = [reply EXCEPT ![d] = r]
      BY <2>5 DEF ServedRemoval, Remove, ServedWrite, Write, Answer
    <3> QED  BY <2>1, <3>1
  <2>7. p = o
    BY <2>2, <2>6
  <2>8. ServedWrite(c, o)
    BY <2>5, <2>6, <2>7 DEF ServedRemoval
  <2> DEFINE k == o.body.key
  <2>9. k \in Keys /\ OpInv(c) /\ ReplyInv(c)
    BY <1>1, <2>2 DEF IInv, Operations, Object
  <2>10. PICK x \in store[k] : x.version = o.body.version
    BY <2>8 DEF ServedWrite
  <2>11. PICK y \in object[c] : Edits(o, y)
    BY <2>9 DEF OpInv
  <2>12. y.key = k /\ y.version = x.version /\ y \in Object /\ object[c] = {y}
    BY <2>2, <2>10, <2>11 DEF Edits
  <2>13. x.label = y.label
    BY <2>9, <2>10, <2>12 DEF ReplyInv, Fits
  <2>14. store[k] = {x}
    <3>1. store[k] \in Opt([label : Labels, version : Versions])
      BY <1>1, <2>9, StoredProperties
    <3> QED  BY <2>10, <3>1 DEF Opt
  <2>15. y = [key |-> k, label |-> x.label, version |-> x.version]
    BY <2>12, <2>13 DEF Object
  <2> HIDE DEF k
  <2> QED  BY <2>12, <2>14, <2>15 DEF Stored, k
<1>2. TypeOK /\ IInv /\ [Next]_vars => [Replaces]_vars
  BY <1>1
<1> QED  BY <1>2, Invariance, PTL DEF Spec, UpdatesReplaceWhatWasRead

-----------------------------------------------------------------------------
(* The client implements PolicyApi.                                        *)

ApiOperations ==
  [method : UNION {Methods[c] : c \in Callers}, namespace : Namespaces \cup {""}, name : {""} \cup Names,
   labels : Selectors \cup {Labels}, body : [key : Keys, label : Labels]]

LEMMA PlainTyped ==
  ASSUME NEW c \in Callers, NEW o \in Operations, o.method \in Methods[c]
  PROVE  /\ PlainOp(o) \in ApiOperations
         /\ PlainOp(o).method = o.method /\ PlainOp(o).namespace = o.namespace
         /\ PlainOp(o).name = o.name /\ PlainOp(o).labels = o.labels
         /\ PlainOp(o).body = Plain(o.body)
<1>1. Plain(o.body) \in [key : Keys, label : Labels]
  BY DEF Operations, Object, Plain
<1>2. o.method \in UNION {Methods[d] : d \in Callers}
  OBVIOUS
<1> QED  BY <1>1, <1>2 DEF PlainOp, Operations, ApiOperations

LEMMA ApiInit == Init => Api!Init
<1> SUFFICES ASSUME Init
             PROVE  Api!Init
  OBVIOUS
<1>1. /\ store \in [Keys -> Opt([label : Labels, version : Versions])]
      /\ op = [c \in Callers |-> {}] /\ reply = [c \in Callers |-> {}]
  BY InitInv DEF TypeOK, Init
<1>2. Labels \subseteq {o.body.label : o \in ApiOperations}
  <2> SUFFICES ASSUME NEW l \in Labels
               PROVE  \E o \in ApiOperations : o.body.label = l
    OBVIOUS
  <2>0. PICK c \in Callers : Methods[c] # {}
    BY CallersAssumption
  <2>1. PICK m \in Methods[c] : TRUE
    BY <2>0
  <2>2. PICK k \in Keys : TRUE
    BY KeysAssumption
  <2> DEFINE o == [method |-> m, namespace |-> "", name |-> "", labels |-> Labels, body |-> [key |-> k, label |-> l]]
  <2>3. m \in UNION {Methods[d] : d \in Callers}
    BY <2>1
  <2>4. o \in ApiOperations /\ o.body.label = l
    BY <2>2, <2>3 DEF ApiOperations
  <2> QED  BY <2>4
<1>3. ASSUME NEW k \in Keys
      PROVE  {x.label : x \in store[k]} \in Opt({o.body.label : o \in ApiOperations})
  <2>1. store[k] \subseteq [label : Labels, version : Versions] /\ \A x, y \in store[k] : x = y
    BY <1>1 DEF Opt
  <2> QED  BY <1>2, <2>1 DEF Opt
<1>4. [k \in Keys |-> {x.label : x \in store[k]}] \in [Keys -> Opt({o.body.label : o \in ApiOperations})]
  BY <1>3
<1>5. /\ [c \in Callers |-> {PlainOp(o) : o \in op[c]}] = [c \in Callers |-> {}]
      /\ [c \in Callers |-> {PlainReply(r) : r \in reply[c]}] = [c \in Callers |-> {}]
  BY <1>1
<1>6. \A S : Api!Opt(S) = Opt(S)
  BY DEF Api!Opt, Opt
<1> QED  BY <1>4, <1>5, <1>6 DEF Api!Init, ApiOperations

(* How the two sides see a request, a policy and an answer.                *)

LEMMA AimedMaps ==
  ASSUME TypeOK, NEW c \in Callers, NEW o \in Operations, Wellformed(o), o.method \in Methods[c],
         o.method # "Create"
  PROVE  Api!Addressed(PlainOp(o)) = Aimed(o)
<1>1. /\ RequestOf(o).namespace = o.namespace /\ RequestOf(o).labels = o.labels
      /\ RequestOf(o).name = {} <=> o.name = ""
      /\ o.name # "" => RequestOf(o).name = {o.name}
  BY DEF RequestOf, Get, List, Update, Delete, DeleteCollection, Patch, Request, Wellformed, AllMethods, Writing
<1> DEFINE q == PlainOp(o)
           policies == [l \in Keys |-> {x.label : x \in store[l]}]
<1>3. q.namespace = o.namespace /\ q.name = o.name /\ q.labels = o.labels
  BY PlainTyped
<1> HIDE DEF q
<1>4. ASSUME NEW k \in Keys
      PROVE  (\E l \in policies[k] : l \in o.labels) <=> (\E x \in store[k] : x.label \in o.labels)
  OBVIOUS
<1> HIDE DEF policies
<1>5. Aimed(o) = {k \in Keys : /\ o.namespace = "" \/ k.namespace = o.namespace
                               /\ o.name = "" \/ k.name = o.name
                               /\ \E x \in store[k] : x.label \in o.labels}
  BY <1>1 DEF Aimed, Targets
<1>6. Api!Addressed(q) = {k \in Keys : /\ o.namespace = "" \/ k.namespace = o.namespace
                                       /\ o.name = "" \/ k.name = o.name
                                       /\ \E l \in policies[k] : l \in o.labels}
  BY <1>3 DEF Api!Addressed, policies
<1> QED  BY <1>4, <1>5, <1>6 DEF q

LEMMA ContentsMap ==
  ASSUME NEW ks \in SUBSET Keys
  PROVE  Api!Contents(ks) = {Plain(x) : x \in UNION {Stored(k) : k \in ks}}
<1> DEFINE policies == [k \in Keys |-> {x.label : x \in store[k]}]
<1>1. \A k \in ks : policies[k] = {x.label : x \in store[k]}
  OBVIOUS
<1> HIDE DEF policies
<1>2. ASSUME NEW p
      PROVE  p \in {q \in [key : ks, label : UNION {policies[k] : k \in ks}] : q.label \in policies[q.key]}
             <=> \E k \in ks : \E x \in store[k] : p = [key |-> k, label |-> x.label]
  BY <1>1
<1>3. ASSUME NEW p
      PROVE  p \in {Plain(x) : x \in UNION {Stored(k) : k \in ks}}
             <=> \E k \in ks : \E x \in store[k] : p = [key |-> k, label |-> x.label]
  <2>1. \A y : y \in UNION {Stored(k) : k \in ks}
                <=> \E k \in ks : \E x \in store[k] : y = [key |-> k, label |-> x.label, version |-> x.version]
    BY DEF Stored
  <2>2. \A k, l, v : Plain([key |-> k, label |-> l, version |-> v]) = [key |-> k, label |-> l]
    BY DEF Plain
  <2>3. ASSUME p \in {Plain(x) : x \in UNION {Stored(k) : k \in ks}}
        PROVE  \E k \in ks : \E x \in store[k] : p = [key |-> k, label |-> x.label]
    <3>1. PICK y \in UNION {Stored(k) : k \in ks} : p = Plain(y)
      BY <2>3
    <3>2. PICK k \in ks : \E x \in store[k] : y = [key |-> k, label |-> x.label, version |-> x.version]
      BY <2>1
    <3> QED  BY <2>2, <3>1, <3>2
  <2>4. ASSUME NEW k \in ks, NEW x \in store[k], p = [key |-> k, label |-> x.label]
        PROVE  p \in {Plain(y) : y \in UNION {Stored(l) : l \in ks}}
    <3> DEFINE y == [key |-> k, label |-> x.label, version |-> x.version]
    <3>1. y \in UNION {Stored(l) : l \in ks} /\ p = Plain(y)
      BY <2>1, <2>2, <2>4
    <3> HIDE DEF y
    <3> QED  BY <3>1
  <2> QED  BY <2>3, <2>4
<1> QED  BY <1>2, <1>3 DEF Api!Contents, policies

LEMMA AnswerMaps ==
  ASSUME TypeOK, NEW c \in Callers, NEW kind, NEW objects, Answer(c, kind, objects)
  PROVE  /\ Api!Answer(c, kind, {Plain(x) : x \in objects})
         /\ op' = op
<1>1. reply' = [reply EXCEPT ![c] = {[kind |-> kind, objects |-> objects]}] /\ DOMAIN reply = Callers
  BY DEF Answer, TypeOK
<1>2. PlainReply([kind |-> kind, objects |-> objects]) = [kind |-> kind, objects |-> {Plain(x) : x \in objects}]
  BY DEF PlainReply
<1>3. \A d \in Callers : {PlainReply(r) : r \in reply'[d]}
                           = IF d = c THEN {[kind |-> kind, objects |-> {Plain(x) : x \in objects}]}
                             ELSE {PlainReply(r) : r \in reply[d]}
  BY <1>1, <1>2
<1> QED  BY <1>3 DEF Api!Answer, Answer

LEMMA ServeMaps ==
  ASSUME TypeOK, IInv, NEW c \in Callers, Serve(c)
  PROVE  Api!Perform(c)
<1>1. pc[c] = "sent" /\ \A o \in op[c] : Wellformed(o)
  BY DEF Serve, IInv, OpInv
<1>2. PICK o \in op[c] : \/ \E kind \in Kinds : Excusable(o, kind) /\ Refuse(c, kind)
                         \/ ServedRead(c, o) \/ ServedRemoval(c, o) \/ ServedWrite(c, o)
  BY <1>1, HowServed
<1>3. op[c] \in Opt(Operations) /\ o.method \in Methods[c]
  BY DEF TypeOK
<1>4. o \in Operations /\ Wellformed(o)
  BY <1>1, <1>3, OptProperties
<1> DEFINE q == PlainOp(o)
<1>5. /\ q.method = o.method /\ q.namespace = o.namespace /\ q.name = o.name
      /\ q.body.key = o.body.key /\ q.body.label = o.body.label
  <2>1. /\ q.method = o.method /\ q.namespace = o.namespace /\ q.name = o.name
        /\ q.body = Plain(o.body)
    BY <1>3, <1>4, PlainTyped
  <2>2. Plain(o.body).key = o.body.key /\ Plain(o.body).label = o.body.label
    BY DEF Plain
  <2> QED  BY <2>1, <2>2
<1>6. q \in {PlainOp(p) : p \in op[c]}
  OBVIOUS
<1>7. o.method # "Create" => Api!Addressed(q) = Aimed(o)
  BY <1>3, <1>4, AimedMaps
<1>8. Aimed(o) \in SUBSET Keys /\ o.body.key \in Keys
  BY <1>4, AimedSingly DEF Operations, Object
<1> HIDE DEF q
<1>9. reply[c] = {}
  BY <1>1 DEF IInv, PhaseInv
<1>10. op' = op /\ \A k, os : Answer(c, k, os) => Api!Answer(c, k, {Plain(x) : x \in os})
  BY <1>2, AnswerMaps DEF Refuse, ServedRead, ServedRemoval, Remove, ServedWrite, Write, Answer
<1>11. \A k : Answer(c, k, {}) => Api!Answer(c, k, {})
  <2>1. {Plain(x) : x \in {}} = {}
    OBVIOUS
  <2> QED  BY <1>10, <2>1
<1> DEFINE policies == [k \in Keys |-> {x.label : x \in store[k]}]
<1>12. \A k \in Keys : policies[k] = {x.label : x \in store[k]} /\ (policies[k] = {} <=> store[k] = {})
  OBVIOUS
<1>13. store' = store => policies' = policies
  OBVIOUS
<1>14. ASSUME NEW kind \in Kinds, Excusable(o, kind), Refuse(c, kind)
       PROVE  Api!Reject(c, q)
  <2>1. store[o.body.key] = {} => o.method \notin {"Update", "Patch"} \/ Api!Addressed(q) = {}
    <3>1. \A k \in Keys : k.namespace = o.body.key.namespace /\ k.name = o.body.key.name => k = o.body.key
      BY <1>8, KeyProperties
    <3>2. o.method \in {"Update", "Patch"} =>
            /\ o.body.key.namespace = o.namespace /\ o.body.key.name = o.name /\ o.name # "" /\ o.namespace # ""
      BY <1>4 DEF Wellformed, Writing
    <3> QED  BY <1>5, <3>1, <3>2 DEF Api!Addressed
  <2>2. Api!Excused(q, kind)
    BY <1>5, <1>7, <1>8, <1>12, <1>14, <2>1 DEF Api!Excused, Excusable, policies
  <2>3. Api!Answer(c, kind, {}) /\ policies' = policies
    BY <1>11, <1>13, <1>14 DEF Refuse
  <2> QED  BY <1>14, <2>2, <2>3 DEF Api!Reject, Excusable, policies
<1>15. ASSUME ServedRead(c, o)
       PROVE  Api!Read(c, q)
  <2>1. Api!Answer(c, "ok", Api!Contents(Aimed(o)))
    <3> DEFINE os == UNION {Stored(k) : k \in Aimed(o)}
    <3>1. Answer(c, "ok", os)
      BY <1>15 DEF ServedRead
    <3>2. Api!Contents(Aimed(o)) = {Plain(x) : x \in os}
      BY <1>8, ContentsMap
    <3> HIDE DEF os
    <3> QED  BY <3>1, <3>2, AnswerMaps DEF Api!Answer
  <2>2. policies' = policies
    BY <1>13, <1>15 DEF ServedRead
  <2>3. q.method = "List" \/ (q.method = "Get" /\ Aimed(o) # {})
    BY <1>5, <1>15 DEF ServedRead
  <2>4. Api!Addressed(q) = Aimed(o)
    BY <1>5, <1>7, <2>3
  <2>5. Api!Answer(c, "ok", Api!Contents(Api!Addressed(q)))
    BY <2>1, <2>4 DEF Api!Answer
  <2>6. UNCHANGED [k \in Keys |-> {x.label : x \in store[k]}]
    BY <2>2 DEF policies
  <2> HIDE DEF policies
  <2> QED  BY <2>3, <2>4, <2>5, <2>6 DEF Api!Read
<1>16. ASSUME NEW ks, NEW kind, Remove(c, ks, kind)
       PROVE  Api!Remove(c, ks, kind)
  <2>1. \A k \in Keys : {x.label : x \in store'[k]} = IF k \in ks THEN {} ELSE policies[k]
    BY <1>12, <1>16 DEF Remove
  <2>2. policies' = [k \in Keys |-> IF k \in ks THEN {} ELSE policies[k]]
    BY <2>1
  <2>3. Api!Answer(c, kind, {})
    BY <1>11, <1>16 DEF Remove
  <2> QED  BY <2>2, <2>3 DEF Api!Remove, policies
<1>17. ASSUME ServedRemoval(c, o)
       PROVE  Api!Erase(c, q)
  BY <1>5, <1>7, <1>16, <1>17 DEF Api!Erase, ServedRemoval
<1>18. ASSUME ServedWrite(c, o)
       PROVE  Api!Put(c, q)
  <2>1. /\ store' = [store EXCEPT ![o.body.key] = {[label |-> o.body.label, version |-> revision + 1]}]
        /\ Answer(c, "ok", {[key |-> o.body.key, label |-> o.body.label, version |-> revision + 1]})
    BY <1>18 DEF ServedWrite, Write
  <2>2. \A k \in Keys : store'[k] = IF k = o.body.key THEN {[label |-> o.body.label, version |-> revision + 1]}
                                    ELSE store[k]
    BY <2>1 DEF TypeOK
  <2>3. \A k \in Keys : {x.label : x \in store'[k]} = IF k = o.body.key THEN {o.body.label} ELSE policies[k]
    <3> SUFFICES ASSUME NEW k \in Keys
                 PROVE  {x.label : x \in store'[k]} = IF k = o.body.key THEN {o.body.label} ELSE policies[k]
      OBVIOUS
    <3>1. CASE k = o.body.key
      <4>1. store'[k] = {[label |-> o.body.label, version |-> revision + 1]}
        BY <2>2, <3>1
      <4> QED  BY <3>1, <4>1
    <3>2. CASE k # o.body.key
      BY <1>12, <2>2, <3>2
    <3> QED  BY <3>1, <3>2
  <2>4. policies' = [policies EXCEPT ![q.body.key] = {q.body.label}]
    BY <1>5, <1>8, <2>3
  <2>5. Plain([key |-> o.body.key, label |-> o.body.label, version |-> revision + 1])
          = [key |-> q.body.key, label |-> q.body.label]
    BY <1>5 DEF Plain
  <2>6. Api!Answer(c, "ok", {[key |-> q.body.key, label |-> q.body.label]})
    BY <1>10, <2>1, <2>5
  <2>7. \/ q.method = "Create" /\ policies[q.body.key] = {}
        \/ q.method \in {"Update", "Patch"} /\ policies[q.body.key] # {}
    BY <1>5, <1>8, <1>12, <1>18 DEF ServedWrite, Writing
  <2> QED  BY <2>4, <2>6, <2>7 DEF Api!Put, policies
<1>19. Api!Read(c, q) \/ Api!Put(c, q) \/ Api!Erase(c, q) \/ Api!Reject(c, q)
  BY <1>2, <1>14, <1>15, <1>17, <1>18
<1> QED  BY <1>6, <1>9, <1>10, <1>19 DEF Api!Perform

LEMMA RefusalMaps ==
  ASSUME TypeOK, IInv, NEW c \in Callers, pc[c] \in {"sent", "answered"}, NEW kind, Refuse(c, kind)
  PROVE  /\ kind = "busy" /\ pc[c] = "sent" => Api!Perform(c)
         /\ kind = "lost" => Api!Lose(c)
<1>1. PICK o \in op[c] : TRUE
  BY DEF IInv, PhaseInv
<1>2. PlainOp(o) \in {PlainOp(p) : p \in op[c]}
  BY <1>1
<1>3. {Plain(x) : x \in {}} = {}
  OBVIOUS
<1>4. Api!Answer(c, kind, {}) /\ op' = op /\ store' = store
  BY <1>3, AnswerMaps DEF Refuse
<1>5. pc[c] = "sent" => reply[c] = {}
  BY DEF IInv, PhaseInv
<1>6. kind = "busy" => Api!Reject(c, PlainOp(o))
  BY <1>4 DEF Api!Reject, Api!Excused
<1> QED  BY <1>2, <1>4, <1>5, <1>6 DEF Api!Perform, Api!Lose

LEMMA CallMaps ==
  ASSUME TypeOK, IInv, NEW c \in Callers, NEW o \in Ops(c), Call(c, o)
  PROVE  Api!Invoke(c)
<1>1. pc[c] = "idle" /\ op' = [op EXCEPT ![c] = {o}] /\ store' = store /\ reply' = reply /\ op[c] = {}
  BY DEF Call, IInv, PhaseInv
<1>2. PlainOp(o) \in ApiOperations
  BY OpsTyped, PlainTyped
<1>3. DOMAIN op = Callers
  BY DEF TypeOK
<1> DEFINE call == [d \in Callers |-> {PlainOp(p) : p \in op[d]}]
<1>4. \A d \in Callers : {PlainOp(p) : p \in op'[d]} = IF d = c THEN {PlainOp(o)} ELSE {PlainOp(p) : p \in op[d]}
  BY <1>1, <1>3
<1>5. call[c] = {} /\ call' = [call EXCEPT ![c] = {PlainOp(o)}]
  BY <1>1, <1>4
<1>6. call'[c] = {PlainOp(o)}
  BY <1>4
<1> QED  BY <1>1, <1>2, <1>5, <1>6 DEF Api!Invoke, ApiOperations, call

LEMMA ReturnMaps ==
  ASSUME TypeOK, IInv, NEW c \in Callers, Return(c)
  PROVE  Api!Return(c)
<1>1. /\ pc[c] = "answered" /\ op' = [op EXCEPT ![c] = {}] /\ reply' = [reply EXCEPT ![c] = {}]
      /\ store' = store /\ reply[c] # {}
  BY DEF Return, Finish, IInv, PhaseInv
<1>2. DOMAIN op = Callers /\ DOMAIN reply = Callers
  BY DEF TypeOK
<1>3. [d \in Callers |-> {PlainOp(p) : p \in op[d]}]'
        = [[d \in Callers |-> {PlainOp(p) : p \in op[d]}] EXCEPT ![c] = {}]
  <2>1. \A d \in Callers : {PlainOp(p) : p \in op'[d]} = IF d = c THEN {} ELSE {PlainOp(p) : p \in op[d]}
    BY <1>1, <1>2
  <2> QED  BY <2>1
<1>4. [d \in Callers |-> {PlainReply(r) : r \in reply[d]}]'
        = [[d \in Callers |-> {PlainReply(r) : r \in reply[d]}] EXCEPT ![c] = {}]
  <2>1. \A d \in Callers : {PlainReply(r) : r \in reply'[d]} = IF d = c THEN {} ELSE {PlainReply(r) : r \in reply[d]}
    BY <1>1, <1>2
  <2> QED  BY <2>1
<1>5. [d \in Callers |-> {PlainReply(r) : r \in reply[d]}][c] # {}
  BY <1>1
<1> QED  BY <1>1, <1>3, <1>4, <1>5 DEF Api!Return

(* The client and the API server keep what PolicyApi promises: for any     *)
(* callers, policies and limits, a call takes effect once, within its      *)
(* scope, and is answered accordingly.                                     *)
THEOREM ClientImplementsApi == Spec => ApiSpec
<1>1. ASSUME TypeOK, IInv, [Next]_vars
      PROVE  [Api!Next]_(Api!apiVars)
  <2>1. ASSUME UNCHANGED <<store, op, reply>>
        PROVE  UNCHANGED Api!apiVars
    BY <2>1 DEF Api!apiVars
  <2>2. ASSUME NEW c \in Callers, Busy(c)
        PROVE  Api!Perform(c) \/ UNCHANGED <<store, op, reply>>
    BY <1>1, <2>2, RefusalMaps DEF Busy, SendAgain
  <2>3. ASSUME NEW c \in Callers, LoseRequest(c) \/ LoseAnswer(c)
        PROVE  Api!Lose(c)
    BY <1>1, <2>3, RefusalMaps DEF LoseRequest, LoseAnswer
  <2>4. ASSUME Refill \/ Discover \/ (\E c \in Callers : Send(c)) \/ UNCHANGED vars
        PROVE  UNCHANGED <<store, op, reply>>
    BY <2>4 DEF Refill, Discover, Send, vars, callVars
  <2>5. ASSUME NEW c \in Callers,
               (\E o \in Ops(c) : Call(c, o)) \/ Serve(c) \/ Busy(c) \/ LoseRequest(c) \/ LoseAnswer(c) \/ Return(c)
        PROVE  Api!Next \/ UNCHANGED <<store, op, reply>>
    BY <1>1, <2>2, <2>3, <2>5, CallMaps, ServeMaps, ReturnMaps DEF Api!Next
  <2> QED  BY <1>1, <2>1, <2>4, <2>5 DEF Next
<1>2. TypeOK /\ IInv /\ [Next]_vars => [Api!Next]_(Api!apiVars)
  BY <1>1
<1> QED  BY <1>2, ApiInit, Invariance, PTL DEF Spec, ApiSpec, Api!Spec

=============================================================================
