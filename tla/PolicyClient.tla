---------------------------- MODULE PolicyClient ----------------------------
(***************************************************************************)
(* The typed client: pkg/client/generated/clientset/versioned, clientset.go*)
(* and typed/barbossa/v1alpha1.                                            *)
(*                                                                         *)
(* Each method of HighAvailabilityPolicyInterface builds one request.  The *)
(* REST client takes a token for it from a rate limiter, sends it, sends   *)
(* it again when the API server is too busy to look at it, and decodes the *)
(* answer.  Goroutines share the client, and the clientset's discovery     *)
(* client may share its rate limiter.                                      *)
(***************************************************************************)
EXTENDS Optional, Integers, FiniteSets

CONSTANTS
  Callers,        \* goroutines that use the client
  Methods,        \* for each of them, the methods it calls
  Scopes,         \* for each of them, the namespaces it has a client for, "" for all
  Keys,           \* namespace and name of the policies
  Labels,         \* the contents of a policy: what selectors can tell apart
  Written,        \* for each writing method, the labels it sets
  Selectors,      \* the label sets that list options select
  Constructor,    \* the function that made the clientset
  QPS,            \* config.QPS; config.RateLimiter is nil
  Burst,          \* config.Burst, or the default one when QPS is 0
  MaxRetries,     \* how often a request is sent again
  MaxVersion      \* bound of the resource versions

Namespaces == {k.namespace : k \in Keys}
Names == {k.name : k \in Keys}

AllMethods == {"Get", "List", "Create", "Update", "Delete", "DeleteCollection", "Patch"}

ASSUME KeysAssumption ==
  Keys # {} /\ \A k \in Keys : k = [namespace |-> k.namespace, name |-> k.name] /\ "" \notin {k.namespace, k.name}
ASSUME CallersAssumption ==
  /\ IsFiniteSet(Callers)
  /\ Methods \in [Callers -> SUBSET AllMethods] /\ \E c \in Callers : Methods[c] # {}
  /\ Scopes \in [Callers -> SUBSET (Namespaces \cup {""})]
ASSUME SelectorsAssumption == Labels # {} /\ Selectors \subseteq SUBSET Labels
ASSUME BurstAssumption == QPS \in Nat /\ Burst \in Nat \ {0}
ASSUME MaxAssumption == MaxRetries \in Nat /\ MaxVersion \in Nat \ {0}
ASSUME ConstructorAssumption == Constructor \in {"NewForConfig", "NewForConfigOrDie"}

Versions == 0..MaxVersion

Writing == {"Create", "Update", "Patch"}

ASSUME WrittenAssumption == Written \in [Writing -> SUBSET Labels]

(* A policy as it is sent and received.                                    *)
Object == [key : Keys, label : Labels, version : Versions]

VARIABLES
  store,      \* the API server's policies
  revision,   \* the last resource version the API server has given out
  tokens,     \* the tokens left in each rate limiter
  budget,     \* history: what QPS and Burst leave of all that has been sent
  pc,         \* how far a call has come
  op,         \* the method called and its arguments
  retries,    \* how often its request has been sent again
  reply,      \* what the API server has answered
  object      \* the policy the caller has received last

callVars == <<pc, op, retries, reply, object>>
vars == <<store, revision, tokens, budget, callVars>>

-----------------------------------------------------------------------------
(* The requests, as rest.Request collects them.                            *)

Request(verb, namespace, name, labels, body) ==
  [verb |-> verb, namespace |-> namespace, name |-> name, labels |-> labels, body |-> body]

Requests ==
  [verb : {"get", "post", "put", "delete", "patch"}, namespace : Namespaces \cup {""},
   name : Opt(Names), labels : Selectors \cup {Labels}, body : Opt(Object)]

Get(o) == Request("get", o.namespace, {o.name}, Labels, {})

List(o) == Request("get", o.namespace, {}, o.labels, {})

Create(o) == Request("post", o.namespace, {}, Labels, {o.body})

(* Mutant: the object is sent with the version the server has now.         *)
UpdateLatest(o) ==
  Request("put", o.namespace, {o.body.key.name}, Labels,
          {[o.body EXCEPT !.version = x.version] : x \in store[o.body.key]})

Update(o) == Request("put", o.namespace, {o.body.key.name}, Labels, {o.body})

Delete(o) == Request("delete", o.namespace, {o.name}, Labels, {})

(* Mutant: the list options are forgotten.                                 *)
DeleteCollectionOfAll(o) == Request("delete", o.namespace, {}, Labels, {})

DeleteCollection(o) == Request("delete", o.namespace, {}, o.labels, {})

Patch(o) == Request("patch", o.namespace, {o.name}, Labels, {o.body})

RequestOf(o) ==
  CASE o.method = "Get"              -> Get(o)
    [] o.method = "List"             -> List(o)
    [] o.method = "Create"           -> Create(o)
    [] o.method = "Update"           -> Update(o)
    [] o.method = "Delete"           -> Delete(o)
    [] o.method = "DeleteCollection" -> DeleteCollection(o)
    [] o.method = "Patch"            -> Patch(o)

Op(method, namespace, name, labels, body) ==
  [method |-> method, namespace |-> namespace, name |-> name, labels |-> labels, body |-> body]

Blank == [key |-> CHOOSE k \in Keys : TRUE, label |-> CHOOSE l \in Labels : TRUE, version |-> 0]

Naming(method, k, body) == Op(method, k.namespace, k.name, Labels, body)

Selecting(method, namespace, labels) == Op(method, namespace, "", labels, Blank)

Reaches(c) == {k \in Keys : k.namespace \in Scopes[c]}

Labelled(x, k, label) == [x EXCEPT !.key = k, !.label = label]

(* What a caller may ask for: it creates policies without a version, and   *)
(* edits the label of one it has received.                                 *)
Asked(c) ==
  {Naming(m, k, Blank) : m \in {"Get", "Delete"}, k \in Reaches(c)}
  \cup {Naming("Create", k, Labelled(Blank, k, l)) : k \in Reaches(c), l \in Written["Create"]}
  \cup {Naming("Patch", k, Labelled(Blank, k, l)) : k \in Reaches(c), l \in Written["Patch"]}
  \cup {Naming("Update", y.key, Labelled(y, y.key, l)) : y \in object[c], l \in Written["Update"]}
  \cup {Selecting("List", ns, ls) : ns \in Scopes[c], ls \in Selectors}
  \cup {Selecting("DeleteCollection", k.namespace, ls) : k \in Reaches(c), ls \in Selectors}

Ops(c) == {o \in Asked(c) : o.method \in Methods[c]}

-----------------------------------------------------------------------------
(* The rate limiters.                                                      *)

RestClients == {"policies", "discovery"}

(* Mutant: each REST client makes a limiter of its own from the config.    *)
LimiterOfEach(client) == client

(* NewForConfig puts one limiter into the copy of the config from which it *)
(* makes both clients, unless QPS is left to its default; otherwise, as    *)
(* after NewForConfigOrDie, each client makes its own.                     *)
Shared == Constructor = "NewForConfig" /\ QPS > 0

Limiter(client) == IF Shared THEN "config" ELSE client

Limiters == RestClients \cup {"config"}

Lesser(m, n) == IF m <= n THEN m ELSE n

TakeToken(client) ==
  /\ tokens[Limiter(client)] > 0
  /\ tokens' = [tokens EXCEPT ![Limiter(client)] = @ - 1]
  /\ budget' = budget - 1

Refill ==
  /\ budget < Burst \/ \E l \in Limiters : tokens[l] < Burst
  /\ tokens' = [l \in Limiters |-> Lesser(tokens[l] + 1, Burst)]
  /\ budget' = Lesser(budget + 1, Burst)
  /\ UNCHANGED <<store, revision, callVars>>

(* A discovery request, which changes nothing.                             *)
Discover ==
  /\ TakeToken("discovery")
  /\ UNCHANGED <<store, revision, callVars>>

-----------------------------------------------------------------------------
(* A call.                                                                 *)

Init ==
  /\ store \in [Keys -> Opt([label : Written["Create"], version : {1}])]
  /\ revision = 1
  /\ tokens = [l \in Limiters |-> Burst]
  /\ budget = Burst
  /\ pc = [c \in Callers |-> "idle"]
  /\ op = [c \in Callers |-> {}]
  /\ retries = [c \in Callers |-> 0]
  /\ reply = [c \in Callers |-> {}]
  /\ object = [c \in Callers |-> {}]

Goto(c, phase) == pc' = [pc EXCEPT ![c] = phase]

(* Writes under way, each of which may take a resource version.            *)
Pending ==
  Cardinality({c \in Callers : pc[c] \in {"throttled", "sent"} /\ \E o \in op[c] : o.method \in Writing})

Call(c, o) ==
  /\ pc[c] = "idle"
  /\ o.method \in Writing => revision + Pending < MaxVersion
  /\ Goto(c, "throttled")
  /\ op' = [op EXCEPT ![c] = {o}]
  /\ UNCHANGED <<store, revision, tokens, budget, retries, reply, object>>

Send(c) ==
  /\ pc[c] = "throttled"
  /\ TakeToken("policies")
  /\ Goto(c, "sent")
  /\ UNCHANGED <<store, revision, op, retries, reply, object>>

Answer(c, kind, objects) ==
  /\ Goto(c, "answered")
  /\ reply' = [reply EXCEPT ![c] = {[kind |-> kind, objects |-> objects]}]
  /\ retries' = [retries EXCEPT ![c] = 0]
  /\ UNCHANGED <<tokens, budget, op, object>>

Refuse(c, kind) == Answer(c, kind, {}) /\ UNCHANGED <<store, revision>>

(* The API server looks at the request.                                    *)
Targets(req) ==
  {k \in Keys : /\ req.namespace = "" \/ k.namespace = req.namespace
                /\ req.name = {} \/ k.name \in req.name
                /\ \E x \in store[k] : x.label \in req.labels}

Stored(k) == {[key |-> k, label |-> x.label, version |-> x.version] : x \in store[k]}

ServeGet(c, req) ==
  /\ req.verb = "get"
  /\ IF req.name # {} /\ Targets(req) = {}
     THEN Refuse(c, "notFound")
     ELSE /\ Answer(c, "ok", UNION {Stored(k) : k \in Targets(req)})
          /\ UNCHANGED <<store, revision>>

Remove(c, ks, kind) ==
  /\ store' = [k \in Keys |-> IF k \in ks THEN {} ELSE store[k]]
  /\ Answer(c, kind, {})
  /\ UNCHANGED revision

ServeDelete(c, req) ==
  /\ req.verb = "delete"
  /\ IF req.name # {} /\ Targets(req) = {}
     THEN Refuse(c, "notFound")
     ELSE Remove(c, Targets(req), "ok")

(* A collection is deleted one by one, and an error in between ends that.  *)
ServeDeleteFails(c, req) ==
  /\ req.verb = "delete" /\ req.name = {}
  /\ \E ks \in SUBSET Targets(req) : Remove(c, ks, "failed")

Write(c, k, label) ==
  /\ store' = [store EXCEPT ![k] = {[label |-> label, version |-> revision + 1]}]
  /\ revision' = revision + 1
  /\ Answer(c, "ok", {[key |-> k, label |-> label, version |-> revision + 1]})

ServePost(c, req) ==
  /\ req.verb = "post"
  /\ \E b \in req.body :
       IF store[b.key] # {} THEN Refuse(c, "alreadyExists") ELSE Write(c, b.key, b.label)

(* Custom resources are not updated without the version they have.         *)
ServePut(c, req) ==
  /\ req.verb = "put"
  /\ \E b \in req.body :
       CASE store[b.key] = {} -> Refuse(c, "notFound")
         [] \E x \in store[b.key] : x.version # b.version -> Refuse(c, "conflict")
         [] \E x \in store[b.key] : x.version = b.version -> Write(c, b.key, b.label)

ServePatch(c, req) ==
  /\ req.verb = "patch"
  /\ \E b \in req.body :
       IF store[b.key] = {} THEN Refuse(c, "notFound") ELSE Write(c, b.key, b.label)

Serve(c) ==
  /\ pc[c] = "sent"
  /\ \E o \in op[c] :
       LET req == RequestOf(o)
       IN  \/ ServeGet(c, req) \/ ServeDelete(c, req) \/ ServeDeleteFails(c, req)
           \/ ServePost(c, req) \/ ServePut(c, req) \/ ServePatch(c, req)

SendAgain(c) ==
  /\ Goto(c, "throttled")
  /\ retries' = [retries EXCEPT ![c] = @ + 1]
  /\ UNCHANGED <<store, revision, tokens, budget, op, reply, object>>

(* The API server asks to come back later, without a look at the request.  *)
Busy(c) ==
  /\ pc[c] = "sent"
  /\ IF retries[c] < MaxRetries THEN SendAgain(c) ELSE Refuse(c, "busy")

(* The connection breaks before the request has taken effect.              *)
LoseRequest(c) == pc[c] = "sent" /\ Refuse(c, "lost")

(* The connection breaks after it has.                                     *)
LoseAnswer(c) ==
  /\ pc[c] = "answered"
  /\ \E r \in reply[c] : r.kind \notin {"busy", "lost"}
  /\ Refuse(c, "lost")

(* The policy in the answer, which a caller that edits policies keeps.     *)
Received(c) ==
  {x \in UNION {r.objects : r \in reply[c]} :
     "Update" \in Methods[c] /\ \A o \in op[c] : o.method # "List"}

Finish(c, kept) ==
  /\ pc[c] = "answered"
  /\ Goto(c, "idle")
  /\ object' = [object EXCEPT ![c] = kept]
  /\ op' = [op EXCEPT ![c] = {}]
  /\ reply' = [reply EXCEPT ![c] = {}]
  /\ UNCHANGED <<store, revision, tokens, budget, retries>>

(* Mutant: a list is decoded as if it were a policy.                       *)
ReturnList(c) == Finish(c, UNION {r.objects : r \in reply[c]})

(* Mutant: a failed request is made once more, whatever the error.         *)
ReturnTriesAgain(c) ==
  \/ /\ \E r \in reply[c] : r.kind = "ok"
     /\ Finish(c, Received(c))
  \/ /\ pc[c] = "answered" /\ \E r \in reply[c] : r.kind # "ok"
     /\ Goto(c, "throttled")
     /\ UNCHANGED <<store, revision, tokens, budget, op, retries, reply, object>>

(* Do().Into(result): the answer is decoded, or its error returned.        *)
Return(c) == Finish(c, IF Received(c) = {} THEN object[c] ELSE Received(c))

Next ==
  \/ Refill
  \/ Discover
  \/ \E c \in Callers :
       \/ \E o \in Ops(c) : Call(c, o)
       \/ Send(c) \/ Serve(c) \/ Busy(c) \/ LoseRequest(c) \/ LoseAnswer(c) \/ Return(c)

Spec == Init /\ [][Next]_vars

(* Time passes, a goroutine that waits for a token has its turn, and a     *)
(* request is answered or its connection breaks.                           *)
Fairness ==
  /\ WF_<<tokens, budget>>(Refill)
  /\ \A c \in Callers :
       /\ SF_pc(Send(c))
       /\ WF_pc(Serve(c) \/ Busy(c) \/ LoseRequest(c))
       /\ WF_pc(Return(c))

FairSpec == Spec /\ Fairness

-----------------------------------------------------------------------------

Replies ==
  [kind : {"ok", "notFound", "alreadyExists", "conflict", "failed", "busy", "lost"}, objects : SUBSET Object]

Operations ==
  [method : AllMethods, namespace : Namespaces \cup {""}, name : {""} \cup Names,
   labels : Selectors \cup {Labels}, body : Object]

TypeOK ==
  /\ store \in [Keys -> Opt([label : Labels, version : Versions])]
  /\ revision \in Versions
  /\ tokens \in [Limiters -> 0..Burst]
  /\ budget \in Int
  /\ pc \in [Callers -> {"idle", "throttled", "sent", "answered"}]
  /\ op \in [Callers -> Opt(Operations)]
  /\ \A c \in Callers : \A o \in op[c] : o.method \in Methods[c] /\ RequestOf(o) \in Requests
  /\ retries \in [Callers -> 0..MaxRetries]
  /\ reply \in [Callers -> Opt(Replies)]
  /\ object \in [Callers -> Opt(Object)]

(* The operation and the answer as callers see them, without versions.     *)
Plain(x) == [key |-> x.key, label |-> x.label]

PlainOp(o) == [o EXCEPT !.body = Plain(o.body)]

PlainReply(r) == [r EXCEPT !.objects = {Plain(x) : x \in r.objects}]

Api == INSTANCE PolicyApi WITH
  Operations <- [method : UNION {Methods[c] : c \in Callers}, namespace : Namespaces \cup {""},
                 name : {""} \cup Names, labels : Selectors \cup {Labels},
                 body : [key : Keys, label : Labels]],
  policies <- [k \in Keys |-> {x.label : x \in store[k]}],
  call <- [c \in Callers |-> {PlainOp(o) : o \in op[c]}],
  outcome <- [c \in Callers |-> {PlainReply(r) : r \in reply[c]}]

(* However often its request is sent, a call takes effect once at most, on *)
(* no policy outside its namespace, its name and its list options. Results *)
(* are what the API server held at that moment, an error means that        *)
(* nothing has changed. A broken connection leaves it open what has been   *)
(* done, and so does a collection whose deletion failed.                   *)
ApiSpec == Api!Spec

(* The policy an Update replaces is, to the letter, the one the caller has *)
(* received and edited: no change of another caller is overwritten unseen. *)
UpdatesReplaceWhatWasRead ==
  [][\A c \in Callers : \A o \in op[c] :
       o.method = "Update" /\ reply'[c] # reply[c] /\ store' # store => Stored(o.body.key) = object[c]]_vars

(* clientset.go:71-73: the clients that NewForConfig makes of one config   *)
(* stay within its QPS and Burst together.                                 *)
BurstIsShared == Shared => budget >= 0

(* Every call returns, whoever else draws on the limiter.                  *)
EveryCallReturns == \A c \in Callers : (pc[c] # "idle") ~> (pc[c] = "idle")

=============================================================================
