------------------------ MODULE SharedInformerFactory ------------------------
(***************************************************************************)
(* pkg/client/generated/informers/externalversions/factory.go: the factory *)
(* hands out one shared informer per type, runs each of them once, and     *)
(* waits for the caches of those it has started.                           *)
(*                                                                         *)
(* Goroutines call it at any time.  The mutex covers InformerFor, Start    *)
(* and the collection of started informers, but not the wait for their     *)
(* caches, and not the sequence of the calls.  ForResource, Informer() and *)
(* Lister() reach the factory through InformerFor alone.                   *)
(***************************************************************************)
EXTENDS Optional, Naturals, Sequences

CONSTANTS
  Callers,        \* goroutines that use the factory
  Types,          \* object types there may be informers for
  StopChannels    \* channels that callers pass to Start and WaitForCacheSync

VARIABLES
  lock,               \* f.lock: the caller that holds it
  informers,          \* f.informers: the informer of a type, as its number
  startedInformers,   \* f.startedInformers
  made,               \* how many informers newFunc has made for a type
  runs,               \* the stop channels Run was called with, for each type
  synced,             \* the types whose informer HasSynced
  closed,             \* the channels that are closed
  handedOut,          \* the informers that callers have been given
  pc, informerType, informer, stopCh, todo, res,   \* local to a call
  due                 \* history: what the call has to cover

factoryVars == <<lock, informers, startedInformers, made, handedOut>>
environmentVars == <<synced, closed>>
callVars == <<pc, informerType, informer, stopCh, todo, res, due>>
vars == <<factoryVars, runs, environmentVars, callVars>>

Registered == {t \in Types : informers[t] # {}}

Goto(c, phase) == pc' = [pc EXCEPT ![c] = phase]

-----------------------------------------------------------------------------

Init ==
  /\ lock = {} /\ startedInformers = {} /\ handedOut = {}
  /\ synced = {} /\ closed = {}
  /\ informers = [t \in Types |-> {}]
  /\ made = [t \in Types |-> 0]
  /\ runs = [t \in Types |-> <<>>]
  /\ pc = [c \in Callers |-> "idle"]
  /\ informerType = [c \in Callers |-> {}]
  /\ informer = [c \in Callers |-> {}]
  /\ stopCh = [c \in Callers |-> {}]
  /\ todo = [c \in Callers |-> {}]
  /\ res = [c \in Callers |-> {}]
  /\ due = [c \in Callers |-> {}]

Call(c, phase, type, channel, covered) ==
  /\ pc[c] = "idle"
  /\ Goto(c, phase)
  /\ informerType' = [informerType EXCEPT ![c] = type]
  /\ stopCh' = [stopCh EXCEPT ![c] = channel]
  /\ due' = [due EXCEPT ![c] = covered]
  /\ UNCHANGED <<factoryVars, runs, environmentVars, informer, todo, res>>

InformerFor(c, t) == Call(c, "informerFor", {t}, {}, {})

Start(c, channel) == Call(c, "start", {}, {channel}, Registered)

WaitForCacheSync(c, channel) == Call(c, "wait", {}, {channel}, startedInformers)

(* Where each operation goes on once it has the lock.                      *)
Locked == [informerFor |-> "lookup", start |-> "starting", wait |-> "collecting"]

(* Mutant: the operations do not exclude each other.                       *)
LockFactoryShared(c) ==
  /\ pc[c] \in DOMAIN Locked
  /\ lock' = lock \cup {c}
  /\ Goto(c, Locked[pc[c]])
  /\ todo' = [todo EXCEPT ![c] = IF pc[c] = "start" THEN Registered ELSE {}]
  /\ UNCHANGED <<informers, startedInformers, made, handedOut, runs, environmentVars,
                 informerType, informer, stopCh, res, due>>

(* f.lock.Lock(); Start then ranges over the informers there are.          *)
LockFactory(c) ==
  /\ pc[c] \in DOMAIN Locked
  /\ lock = {}
  /\ lock' = {c}
  /\ Goto(c, Locked[pc[c]])
  /\ todo' = [todo EXCEPT ![c] = IF pc[c] = "start" THEN Registered ELSE {}]
  /\ UNCHANGED <<informers, startedInformers, made, handedOut, runs, environmentVars,
                 informerType, informer, stopCh, res, due>>

(* The call returns, and its deferred Unlock runs.                         *)
Unlock(c) == lock' = lock \ {c}

Return(c) ==
  /\ Goto(c, "idle")
  /\ informerType' = [informerType EXCEPT ![c] = {}]
  /\ informer' = [informer EXCEPT ![c] = {}]
  /\ stopCh' = [stopCh EXCEPT ![c] = {}]
  /\ todo' = [todo EXCEPT ![c] = {}]
  /\ res' = [res EXCEPT ![c] = {}]
  /\ due' = [due EXCEPT ![c] = {}]

HandOut(t, n) == handedOut' = handedOut \cup {<<t, n>>}

FoundInformer(c) ==
  /\ pc[c] = "lookup"
  /\ \E t \in informerType[c] : \E n \in informers[t] : HandOut(t, n)
  /\ Unlock(c)
  /\ Return(c)
  /\ UNCHANGED <<informers, startedInformers, made, runs, environmentVars>>

(* informer = newFunc(f.client, f.defaultResync)                           *)
NewInformer(c) ==
  /\ pc[c] = "lookup"
  /\ \E t \in informerType[c] :
       /\ informers[t] = {}
       /\ made' = [made EXCEPT ![t] = @ + 1]
       /\ informer' = [informer EXCEPT ![c] = {made[t] + 1}]
  /\ Goto(c, "insert")
  /\ UNCHANGED <<lock, informers, startedInformers, handedOut, runs, environmentVars,
                 informerType, stopCh, todo, res, due>>

InsertInformer(c) ==
  /\ pc[c] = "insert"
  /\ \E t \in informerType[c], n \in informer[c] :
       /\ informers' = [informers EXCEPT ![t] = {n}]
       /\ HandOut(t, n)
  /\ Unlock(c)
  /\ Return(c)
  /\ UNCHANGED <<startedInformers, made, runs, environmentVars>>

(* Mutant: the informer is not marked as started.                          *)
StartInformerUnmarked(c, t) ==
  /\ pc[c] = "starting"
  /\ t \in todo[c]
  /\ IF t \in startedInformers
     THEN UNCHANGED runs
     ELSE \E channel \in stopCh[c] : runs' = [runs EXCEPT ![t] = Append(@, channel)]
  /\ todo' = [todo EXCEPT ![c] = @ \ {t}]
  /\ UNCHANGED <<factoryVars, environmentVars, pc, informerType, informer, stopCh, res, due>>

(* Mutant: the first informer that runs already ends the loop.             *)
StartInformerBreaks(c, t) ==
  /\ pc[c] = "starting"
  /\ t \in todo[c]
  /\ IF t \in startedInformers
     THEN /\ todo' = [todo EXCEPT ![c] = {}]
          /\ UNCHANGED <<startedInformers, runs>>
     ELSE /\ \E channel \in stopCh[c] : runs' = [runs EXCEPT ![t] = Append(@, channel)]
          /\ startedInformers' = startedInformers \cup {t}
          /\ todo' = [todo EXCEPT ![c] = @ \ {t}]
  /\ UNCHANGED <<lock, informers, made, handedOut, environmentVars,
                 pc, informerType, informer, stopCh, res, due>>

(* Mutant: without "go", Run comes back when its channel is closed.        *)
StartInformerBlocks(c, t) ==
  /\ pc[c] = "starting"
  /\ t \in todo[c]
  /\ IF t \in startedInformers
     THEN UNCHANGED <<startedInformers, runs>>
     ELSE /\ \E channel \in stopCh[c] \cap closed : runs' = [runs EXCEPT ![t] = Append(@, channel)]
          /\ startedInformers' = startedInformers \cup {t}
  /\ todo' = [todo EXCEPT ![c] = @ \ {t}]
  /\ UNCHANGED <<lock, informers, made, handedOut, environmentVars,
                 pc, informerType, informer, stopCh, res, due>>

(* One iteration of Start's loop: "go informer.Run(stopCh)", once.         *)
StartInformer(c, t) ==
  /\ pc[c] = "starting"
  /\ t \in todo[c]
  /\ IF t \in startedInformers
     THEN UNCHANGED <<startedInformers, runs>>
     ELSE /\ \E channel \in stopCh[c] : runs' = [runs EXCEPT ![t] = Append(@, channel)]
          /\ startedInformers' = startedInformers \cup {t}
  /\ todo' = [todo EXCEPT ![c] = @ \ {t}]
  /\ UNCHANGED <<lock, informers, made, handedOut, environmentVars,
                 pc, informerType, informer, stopCh, res, due>>

StartReturns(c) ==
  /\ pc[c] = "starting"
  /\ todo[c] = {}
  /\ Unlock(c)
  /\ Return(c)
  /\ UNCHANGED <<informers, startedInformers, made, handedOut, runs, environmentVars>>

(* Mutant: informers nobody has started are waited for as well.            *)
CollectRegistered(c) ==
  /\ pc[c] = "collecting"
  /\ todo' = [todo EXCEPT ![c] = Registered]
  /\ Unlock(c)
  /\ Goto(c, "waiting")
  /\ UNCHANGED <<informers, startedInformers, made, handedOut, runs, environmentVars,
                 informerType, informer, stopCh, res, due>>

(* The function literal in WaitForCacheSync, which unlocks at its end.     *)
CollectStarted(c) ==
  /\ pc[c] = "collecting"
  /\ todo' = [todo EXCEPT ![c] = Registered \cap startedInformers]
  /\ Unlock(c)
  /\ Goto(c, "waiting")
  /\ UNCHANGED <<informers, startedInformers, made, handedOut, runs, environmentVars,
                 informerType, informer, stopCh, res, due>>

Record(c, t, result) ==
  /\ pc[c] = "waiting"
  /\ t \in todo[c]
  /\ res' = [res EXCEPT ![c] = @ \cup {<<t, result>>}]
  /\ todo' = [todo EXCEPT ![c] = @ \ {t}]
  /\ UNCHANGED <<factoryVars, runs, environmentVars, pc, informerType, informer, stopCh, due>>

CacheSynced(c, t) == t \in synced /\ Record(c, t, TRUE)

(* Mutant: a closed channel counts as success.                             *)
WaitStoppedSilently(c, t) == stopCh[c] \cap closed # {} /\ Record(c, t, TRUE)

(* cache.WaitForCacheSync gives up, perhaps without a last look.           *)
WaitStopped(c, t) == stopCh[c] \cap closed # {} /\ Record(c, t, FALSE)

WaitReturns(c) ==
  /\ pc[c] = "waiting"
  /\ todo[c] = {}
  /\ Return(c)
  /\ UNCHANGED <<factoryVars, runs, environmentVars>>

-----------------------------------------------------------------------------
(* Informers and callers outside of the factory.                           *)

(* An informer that runs fills its cache.                                  *)
SyncInformer(t) ==
  /\ runs[t] # <<>>
  /\ t \notin synced
  /\ synced' = synced \cup {t}
  /\ UNCHANGED <<factoryVars, runs, closed, callVars>>

CloseChannel(channel) ==
  /\ channel \notin closed
  /\ closed' = closed \cup {channel}
  /\ UNCHANGED <<factoryVars, runs, synced, callVars>>

(* What a call does next once it has the lock or needs none.               *)
Step(c) ==
  \/ FoundInformer(c) \/ NewInformer(c) \/ InsertInformer(c)
  \/ StartReturns(c) \/ CollectStarted(c) \/ WaitReturns(c)
  \/ \E t \in Types : StartInformer(c, t) \/ CacheSynced(c, t) \/ WaitStopped(c, t)

Next ==
  \/ \E t \in Types : SyncInformer(t)
  \/ \E channel \in StopChannels : CloseChannel(channel)
  \/ \E c \in Callers :
       \/ \E t \in Types : InformerFor(c, t)
       \/ \E channel \in StopChannels : Start(c, channel) \/ WaitForCacheSync(c, channel)
       \/ LockFactory(c)
       \/ Step(c)

Spec == Init /\ [][Next]_vars

(* A goroutine that can run does, and a mutex that is free again and again *)
(* is had in the end.  Every step of a call changes pc or todo.            *)
CallersRun == \A c \in Callers : WF_<<pc, todo>>(Step(c)) /\ SF_pc(LockFactory(c))

(* The informer goroutine fills its cache unless it is stopped before.     *)
InformersRun ==
  \A t \in Types :
    WF_synced(SyncInformer(t) /\ \A i \in DOMAIN runs[t] : runs[t][i] \notin closed)

FairSpec == Spec /\ CallersRun /\ InformersRun

-----------------------------------------------------------------------------

Phases == {"idle", "informerFor", "lookup", "insert", "start", "starting",
           "wait", "collecting", "waiting"}

TypeOK ==
  /\ lock \in Opt(Callers)
  /\ informers \in [Types -> Opt(Nat)]
  /\ startedInformers \subseteq Types
  /\ made \in [Types -> Nat]
  /\ runs \in [Types -> Seq(StopChannels)]
  /\ synced \subseteq Types
  /\ closed \subseteq StopChannels
  /\ handedOut \subseteq Types \X Nat
  /\ pc \in [Callers -> Phases]
  /\ informerType \in [Callers -> Opt(Types)]
  /\ informer \in [Callers -> Opt(Nat)]
  /\ stopCh \in [Callers -> Opt(StopChannels)]
  /\ todo \in [Callers -> SUBSET Types]
  /\ res \in [Callers -> SUBSET (Types \X BOOLEAN)]
  /\ due \in [Callers -> SUBSET Types]

(* highavailabilitypolicy.go:54 of the informers, "prefer using an         *)
(* informer factory to get a shared informer": all callers that ask for a  *)
(* type get one and the same informer, the one Start will run.             *)
OneInformerPerType ==
  \A given \in handedOut : informers[given[1]] = {given[2]}

(* factory.go:49-50: Start may be called "multiple times safely", by       *)
(* several goroutines; no informer runs twice, and none runs that has not  *)
(* been asked for.                                                         *)
StartedOnce ==
  \A t \in Types : runs[t] # <<>> => Len(runs[t]) = 1 /\ t \in Registered

(* factory.go:73: when Start returns, every informer that had been asked   *)
(* for when it was called has been run, by this call or by another.        *)
StartCoversRegistered ==
  [][\A c \in Callers :
       pc[c] = "starting" /\ pc'[c] = "idle" => \A t \in due[c] : runs[t] # <<>>]_vars

(* factory.go:86: a wait reports on every informer that was started when   *)
(* it was called, and reports a cache as synced only if it is; otherwise   *)
(* its channel has been closed.                                            *)
WaitCoversStarted ==
  [][\A c \in Callers :
       pc[c] = "waiting" /\ pc'[c] = "idle" =>
         /\ \A t \in due[c] : \E result \in BOOLEAN : <<t, result>> \in res[c]
         /\ \A r \in res[c] : IF r[2] THEN r[1] \in synced ELSE stopCh[c] \cap closed # {}]_vars

(* InformerFor and Start return whatever the caches and the waits for them *)
(* do: nobody keeps the lock.                                              *)
RegistrationEnds ==
  \A c \in Callers : (pc[c] \in {"informerFor", "start"}) ~> (pc[c] = "idle")

StoppedEarly(t) == t \notin synced /\ \E i \in DOMAIN runs[t] : runs[t][i] \in closed

(* A wait ends, unless one of its informers has been stopped before its    *)
(* cache was full, for a stopped informer is never run again.              *)
WaitEnds ==
  \A c \in Callers :
    (pc[c] = "wait") ~> (pc[c] = "idle" \/ \E t \in todo[c] : StoppedEarly(t))

=============================================================================
