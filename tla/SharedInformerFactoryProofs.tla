--------------------- MODULE SharedInformerFactoryProofs ---------------------
(***************************************************************************)
(* Proofs about SharedInformerFactory, for any number of goroutines, types *)
(* and channels.  The inductive invariant says that the caller between its *)
(* Lock and its Unlock is the one that holds the mutex, that the informers *)
(* started are those that were run, once each, and of every call how far   *)
(* it has come with what it has to cover.  At the end, that the lock is    *)
(* never kept.                                                             *)
(***************************************************************************)
EXTENDS SharedInformerFactory, TLAPS

Holding == {"lookup", "insert", "starting", "collecting"}

LockInv == \A c \in Callers : c \in lock <=> pc[c] \in Holding

RunInv ==
  /\ startedInformers \subseteq Registered
  /\ \A t \in Types : /\ t \notin startedInformers => runs[t] = <<>>
                      /\ t \in startedInformers => Len(runs[t]) = 1

CallInv(c) ==
  /\ pc[c] # "waiting" => res[c] = {}
  /\ pc[c] = "insert" => \A t \in informerType[c] : informers[t] = {}
  /\ pc[c] = "start" => due[c] \subseteq Registered
  /\ pc[c] = "starting" => /\ due[c] \subseteq todo[c] \cup startedInformers
                           /\ todo[c] \subseteq Registered
  /\ pc[c] \in {"wait", "collecting"} => due[c] \subseteq startedInformers
  /\ pc[c] = "waiting" =>
       /\ \A t \in due[c] : t \in todo[c] \/ \E result \in BOOLEAN : <<t, result>> \in res[c]
       /\ \A r \in res[c] : IF r[2] THEN r[1] \in synced ELSE stopCh[c] \cap closed # {}

IInv ==
  /\ TypeOK
  /\ LockInv
  /\ OneInformerPerType
  /\ RunInv
  /\ \A c \in Callers : CallInv(c)

-----------------------------------------------------------------------------
(* Types.                                                                  *)

LEMMA OptFacts ==
  /\ \A S : {} \in Opt(S)
  /\ \A S, x : x \in S => {x} \in Opt(S)
  BY DEF Opt

LEMMA TypeInit == Init => TypeOK
  BY OptFacts DEF Init, TypeOK, Phases

(* The actions that return leave the call's variables empty.               *)
LEMMA ReturnType ==
  ASSUME TypeOK, NEW c \in Callers, Return(c)
  PROVE  /\ pc' \in [Callers -> Phases]
         /\ informerType' \in [Callers -> Opt(Types)]
         /\ informer' \in [Callers -> Opt(Nat)]
         /\ stopCh' \in [Callers -> Opt(StopChannels)]
         /\ todo' \in [Callers -> SUBSET Types]
         /\ res' \in [Callers -> SUBSET (Types \X BOOLEAN)]
         /\ due' \in [Callers -> SUBSET Types]
  BY OptFacts DEF TypeOK, Return, Goto, Phases

LEMMA UnlockType ==
  ASSUME TypeOK, NEW c \in Callers, Unlock(c)
  PROVE  lock' \in Opt(Callers)
  BY DEF TypeOK, Unlock, Opt

LEMMA CallType ==
  ASSUME TypeOK, NEW c \in Callers, NEW phase \in Phases, NEW type \in Opt(Types),
         NEW channel \in Opt(StopChannels), NEW covered \in SUBSET Types,
         Call(c, phase, type, channel, covered)
  PROVE  TypeOK'
  BY DEF TypeOK, Call, Goto, factoryVars, environmentVars

LEMMA TypeStep == TypeOK /\ [Next]_vars => TypeOK'
<1> SUFFICES ASSUME TypeOK, [Next]_vars
             PROVE  TypeOK'
  OBVIOUS
<1>1. ASSUME NEW t \in Types, SyncInformer(t)
      PROVE  TypeOK'
  BY <1>1 DEF SyncInformer, TypeOK, factoryVars, callVars
<1>2. ASSUME NEW channel \in StopChannels, CloseChannel(channel)
      PROVE  TypeOK'
  BY <1>2 DEF CloseChannel, TypeOK, factoryVars, callVars
<1>3. ASSUME NEW c \in Callers, NEW t \in Types, InformerFor(c, t)
      PROVE  TypeOK'
  <2>1. {t} \in Opt(Types) /\ {} \in Opt(StopChannels) /\ "informerFor" \in Phases
    BY OptFacts DEF Phases
  <2>2. Call(c, "informerFor", {t}, {}, {})
    BY <1>3 DEF InformerFor
  <2>3. {} \in SUBSET Types
    OBVIOUS
  <2> QED  BY <2>1, <2>2, <2>3, CallType
<1>4. ASSUME NEW c \in Callers, NEW channel \in StopChannels, Start(c, channel)
      PROVE  TypeOK'
  <2>1. {} \in Opt(Types) /\ {channel} \in Opt(StopChannels) /\ "start" \in Phases
    BY OptFacts DEF Phases
  <2>2. Call(c, "start", {}, {channel}, Registered)
    BY <1>4 DEF Start
  <2>3. Registered \in SUBSET Types
    BY DEF Registered
  <2> QED  BY <2>1, <2>2, <2>3, CallType
<1>5. ASSUME NEW c \in Callers, NEW channel \in StopChannels, WaitForCacheSync(c, channel)
      PROVE  TypeOK'
  <2>1. {} \in Opt(Types) /\ {channel} \in Opt(StopChannels) /\ "wait" \in Phases
    BY OptFacts DEF Phases
  <2>2. Call(c, "wait", {}, {channel}, startedInformers)
    BY <1>5 DEF WaitForCacheSync
  <2>3. startedInformers \in SUBSET Types
    BY DEF TypeOK
  <2> QED  BY <2>1, <2>2, <2>3, CallType
<1>6. ASSUME NEW c \in Callers, LockFactory(c)
      PROVE  TypeOK'
  <2>1. Locked[pc[c]] \in Phases /\ {c} \in Opt(Callers) /\ Registered \subseteq Types
    BY <1>6, OptFacts DEF LockFactory, Locked, Phases, Registered
  <2> QED  BY <1>6, <2>1 DEF LockFactory, TypeOK, Goto, environmentVars
<1>7. ASSUME NEW c \in Callers, FoundInformer(c)
      PROVE  TypeOK'
  <2>1. handedOut' \subseteq Types \X Nat
    BY <1>7 DEF FoundInformer, HandOut, TypeOK, Opt
  <2> QED  BY <1>7, <2>1, ReturnType, UnlockType DEF FoundInformer, TypeOK, environmentVars
<1>8. ASSUME NEW c \in Callers, NewInformer(c)
      PROVE  TypeOK'
  <2>1. PICK t \in informerType[c] :
          /\ made' = [made EXCEPT ![t] = @ + 1]
          /\ informer' = [informer EXCEPT ![c] = {made[t] + 1}]
    BY <1>8 DEF NewInformer
  <2>2. t \in Types
    BY DEF TypeOK, Opt
  <2>3. made[t] + 1 \in Nat /\ made' = [made EXCEPT ![t] = made[t] + 1]
    BY <2>1, <2>2 DEF TypeOK
  <2>4. made' \in [Types -> Nat]
    BY <2>2, <2>3 DEF TypeOK
  <2>5. {made[t] + 1} \in Opt(Nat)
    BY <2>3, OptFacts
  <2>6. informer' \in [Callers -> Opt(Nat)]
    BY <2>1, <2>5 DEF TypeOK
  <2> QED  BY <1>8, <2>4, <2>6 DEF NewInformer, TypeOK, Goto, Phases, environmentVars
<1>9. ASSUME NEW c \in Callers, InsertInformer(c)
      PROVE  TypeOK'
  <2>1. PICK t \in informerType[c], n \in informer[c] :
          informers' = [informers EXCEPT ![t] = {n}] /\ HandOut(t, n)
    BY <1>9 DEF InsertInformer
  <2>2. t \in Types /\ n \in Nat
    BY DEF TypeOK, Opt
  <2>3. {n} \in Opt(Nat)
    BY <2>2, OptFacts
  <2>4. informers' \in [Types -> Opt(Nat)]
    BY <2>1, <2>3 DEF TypeOK
  <2>5. handedOut' \subseteq Types \X Nat
    BY <2>1, <2>2 DEF HandOut, TypeOK
  <2> QED  BY <1>9, <2>4, <2>5, ReturnType, UnlockType DEF InsertInformer, TypeOK, environmentVars
<1>10. ASSUME NEW c \in Callers, NEW t \in Types, StartInformer(c, t)
       PROVE  TypeOK'
  <2>1. \A channel \in stopCh[c] : channel \in StopChannels
    BY DEF TypeOK, Opt
  <2>2. \A channel \in stopCh[c] : Append(runs[t], channel) \in Seq(StopChannels)
    BY <2>1 DEF TypeOK
  <2>3. CASE t \in startedInformers
    BY <1>10, <2>3 DEF StartInformer, TypeOK, environmentVars
  <2>4. CASE t \notin startedInformers
    <3>1. PICK channel \in stopCh[c] : runs' = [runs EXCEPT ![t] = Append(@, channel)]
      BY <1>10, <2>4 DEF StartInformer
    <3>2. runs' \in [Types -> Seq(StopChannels)]
      BY <2>2, <3>1 DEF TypeOK
    <3>3. startedInformers' \subseteq Types
      BY <1>10, <2>4 DEF StartInformer, TypeOK
    <3> QED  BY <1>10, <3>2, <3>3 DEF StartInformer, TypeOK, environmentVars
  <2> QED  BY <2>3, <2>4
<1>11. ASSUME NEW c \in Callers, StartReturns(c)
       PROVE  TypeOK'
  BY <1>11, ReturnType, UnlockType DEF StartReturns, TypeOK, environmentVars
<1>12. ASSUME NEW c \in Callers, CollectStarted(c)
       PROVE  TypeOK'
  BY <1>12, UnlockType DEF CollectStarted, TypeOK, Goto, Phases, environmentVars
<1>13. ASSUME NEW c \in Callers, NEW t \in Types, NEW result \in BOOLEAN, Record(c, t, result)
       PROVE  TypeOK'
  BY <1>13 DEF Record, TypeOK, factoryVars, environmentVars
<1>14. ASSUME NEW c \in Callers, WaitReturns(c)
       PROVE  TypeOK'
  BY <1>14, ReturnType DEF WaitReturns, TypeOK, factoryVars, environmentVars
<1>15. CASE UNCHANGED vars
  BY <1>15 DEF vars, TypeOK, factoryVars, environmentVars, callVars
<1> QED
  BY <1>1, <1>2, <1>3, <1>4, <1>5, <1>6, <1>7, <1>8, <1>9, <1>10, <1>11, <1>12, <1>13,
     <1>14, <1>15 DEF Next, Step, CacheSynced, WaitStopped

(* The factory's variables keep their types.                               *)
THEOREM TypeCorrect == Spec => []TypeOK
  BY TypeInit, TypeStep, PTL DEF Spec

-----------------------------------------------------------------------------
(* The inductive invariant.                                                *)

(* Whoever holds the mutex holds it alone.                                 *)
LEMMA MutualExclusion ==
  ASSUME TypeOK, LockInv, NEW c \in Callers, NEW d \in Callers,
         pc[c] \in Holding, pc[d] \in Holding
  PROVE  c = d
  BY DEF TypeOK, LockInv, Opt

(* What is known of a call stays true while others go on.                  *)
LEMMA OthersKeep ==
  ASSUME NEW d \in Callers, CallInv(d),
         pc'[d] = pc[d], informerType'[d] = informerType[d], due'[d] = due[d],
         stopCh'[d] = stopCh[d], todo'[d] = todo[d], res'[d] = res[d],
         Registered \subseteq Registered', startedInformers \subseteq startedInformers',
         synced \subseteq synced', closed \subseteq closed',
         pc[d] = "insert" => informers' = informers
  PROVE  CallInv(d)'
<1>0. (pc[d] # "waiting" => res[d] = {})'
  BY DEF CallInv
<1>1. (pc[d] = "insert" => \A t \in informerType[d] : informers[t] = {})'
  BY DEF CallInv
<1>2. (pc[d] = "start" => due[d] \subseteq Registered)'
  BY DEF CallInv
<1>3. (pc[d] = "starting" => /\ due[d] \subseteq todo[d] \cup startedInformers
                             /\ todo[d] \subseteq Registered)'
  BY DEF CallInv
<1>4. (pc[d] \in {"wait", "collecting"} => due[d] \subseteq startedInformers)'
  BY DEF CallInv
<1>5. (pc[d] = "waiting" =>
         /\ \A t \in due[d] : t \in todo[d] \/ \E result \in BOOLEAN : <<t, result>> \in res[d]
         /\ \A r \in res[d] : IF r[2] THEN r[1] \in synced ELSE stopCh[d] \cap closed # {})'
  BY DEF CallInv
<1> QED  BY <1>0, <1>1, <1>2, <1>3, <1>4, <1>5 DEF CallInv

LEMMA InvInit == Init => IInv
<1> SUFFICES ASSUME Init PROVE IInv
  OBVIOUS
<1>1. LockInv /\ OneInformerPerType /\ RunInv
  BY DEF Init, LockInv, OneInformerPerType, RunInv, Holding, Registered
<1>2. \A c \in Callers : CallInv(c)
  BY DEF Init, CallInv
<1> QED  BY <1>1, <1>2, TypeInit DEF IInv

(* A step that leaves the maps alone keeps what is known of them.          *)
LEMMA MapsKept ==
  ASSUME IInv, UNCHANGED <<informers, startedInformers, runs, handedOut>>
  PROVE  OneInformerPerType' /\ RunInv' /\ Registered' = Registered
  BY DEF IInv, OneInformerPerType, RunInv, Registered

LEMMA CallsBegin ==
  ASSUME IInv, NEW c \in Callers, NEW phase, NEW type, NEW channel, NEW covered,
         Call(c, phase, type, channel, covered),
         \/ phase = "informerFor"
         \/ phase = "start" /\ covered = Registered
         \/ phase = "wait" /\ covered = startedInformers
  PROVE  LockInv' /\ OneInformerPerType' /\ RunInv' /\ \A d \in Callers : CallInv(d)'
<1> USE DEF IInv
<1>1. UNCHANGED <<factoryVars, runs, environmentVars, todo, res>>
  BY DEF Call
<1>2. OneInformerPerType' /\ RunInv' /\ Registered' = Registered
  BY <1>1, MapsKept DEF factoryVars
<1>3. /\ pc' = [pc EXCEPT ![c] = phase] /\ phase \notin Holding /\ pc[c] = "idle"
      /\ pc[c] \notin Holding
  BY DEF Call, Goto, Holding
<1>4. LockInv'
  BY <1>1, <1>3 DEF LockInv, TypeOK, factoryVars
<1>5. CallInv(c)'
  <2>1. pc'[c] = phase /\ due'[c] = covered
    BY DEF Call, Goto, TypeOK
  <2>2. res'[c] = {}
    BY <1>1, <1>3 DEF CallInv
  <2> QED  BY <1>1, <1>2, <2>1, <2>2 DEF CallInv, factoryVars
<1>6. ASSUME NEW d \in Callers, d # c
      PROVE  CallInv(d)'
  <2>1. /\ pc'[d] = pc[d] /\ informerType'[d] = informerType[d] /\ due'[d] = due[d]
        /\ stopCh'[d] = stopCh[d] /\ todo'[d] = todo[d] /\ res'[d] = res[d]
    BY <1>1, <1>6 DEF Call, Goto, TypeOK
  <2> QED  BY <1>1, <1>2, <2>1, OthersKeep DEF factoryVars, environmentVars
<1> QED  BY <1>2, <1>4, <1>5, <1>6

(* The caller that holds the mutex is alone in it, and nobody else's call  *)
(* changes when it goes on.                                                *)
LEMMA HolderSteps ==
  ASSUME IInv, NEW c \in Callers, pc[c] \in Holding, NEW d \in Callers, d # c
  PROVE  pc[d] \notin Holding
  BY MutualExclusion DEF IInv

LEMMA LockFactoryInv ==
  ASSUME IInv, NEW c \in Callers, LockFactory(c)
  PROVE  LockInv' /\ OneInformerPerType' /\ RunInv' /\ \A d \in Callers : CallInv(d)'
<1> USE DEF IInv
<1>1. /\ UNCHANGED <<informers, startedInformers, handedOut, runs, environmentVars>>
      /\ UNCHANGED <<informerType, informer, stopCh, res, due>>
  BY DEF LockFactory
<1>2. OneInformerPerType' /\ RunInv' /\ Registered' = Registered
  BY <1>1, MapsKept
<1>3. /\ lock = {} /\ lock' = {c} /\ pc' = [pc EXCEPT ![c] = Locked[pc[c]]]
      /\ pc[c] \in {"informerFor", "start", "wait"}
      /\ todo' = [todo EXCEPT ![c] = IF pc[c] = "start" THEN Registered ELSE {}]
  BY DEF LockFactory, Goto, Locked
<1>4. Locked[pc[c]] \in Holding
  BY <1>3 DEF Locked, Holding
<1>5. LockInv'
  BY <1>3, <1>4 DEF LockInv, TypeOK
<1>6. CallInv(c)'
  <2>1. /\ pc[c] = "informerFor" => pc'[c] = "lookup"
        /\ pc[c] = "start" => pc'[c] = "starting" /\ todo'[c] = Registered
        /\ pc[c] = "wait" => pc'[c] = "collecting"
    BY <1>3 DEF Locked, TypeOK
  <2> QED  BY <1>1, <1>2, <1>3, <2>1 DEF CallInv
<1>7. ASSUME NEW d \in Callers, d # c
      PROVE  CallInv(d)'
  BY <1>1, <1>2, <1>3, <1>7, OthersKeep DEF TypeOK, environmentVars
<1> QED  BY <1>2, <1>5, <1>6, <1>7

(* A call that returns with the mutex, or that never had it.               *)
LEMMA CallsReturn ==
  ASSUME IInv, NEW c \in Callers, Return(c), UNCHANGED environmentVars,
         lock' = lock \ {c}, Registered \subseteq Registered',
         startedInformers \subseteq startedInformers',
         informers' = informers \/ pc[c] \in Holding
  PROVE  LockInv' /\ \A d \in Callers : CallInv(d)'
<1> USE DEF IInv
<1>1. pc' = [pc EXCEPT ![c] = "idle"]
  BY DEF Return, Goto
<1>2. LockInv'
  BY <1>1 DEF LockInv, TypeOK, Holding
<1>3. CallInv(c)'
  <2>1. pc'[c] = "idle" /\ res'[c] = {}
    BY <1>1 DEF Return, TypeOK
  <2> QED  BY <2>1 DEF CallInv
<1>4. ASSUME NEW d \in Callers, d # c
      PROVE  CallInv(d)'
  <2>1. /\ pc'[d] = pc[d] /\ informerType'[d] = informerType[d] /\ due'[d] = due[d]
        /\ stopCh'[d] = stopCh[d] /\ todo'[d] = todo[d] /\ res'[d] = res[d]
    BY <1>4 DEF Return, Goto, TypeOK
  <2>2. pc[d] = "insert" => informers' = informers
    BY <1>4, HolderSteps DEF Holding
  <2> QED  BY <2>1, <2>2, OthersKeep DEF environmentVars
<1> QED  BY <1>2, <1>3, <1>4

LEMMA FoundInformerInv ==
  ASSUME IInv, NEW c \in Callers, FoundInformer(c)
  PROVE  LockInv' /\ OneInformerPerType' /\ RunInv' /\ \A d \in Callers : CallInv(d)'
<1> USE DEF IInv
<1>1. UNCHANGED <<informers, startedInformers, runs, environmentVars>>
  BY DEF FoundInformer
<1>2. LockInv' /\ \A d \in Callers : CallInv(d)'
  BY <1>1, CallsReturn DEF FoundInformer, Unlock, Registered
<1>3. RunInv'
  BY <1>1 DEF RunInv, Registered
<1>4. OneInformerPerType'
  <2>1. PICK t \in informerType[c] :
          \E n \in informers[t] : handedOut' = handedOut \cup {<<t, n>>}
    BY DEF FoundInformer, HandOut
  <2>2. PICK n \in informers[t] : handedOut' = handedOut \cup {<<t, n>>}
    BY <2>1
  <2>3. informers[t] = {n}
    BY DEF TypeOK, Opt
  <2> QED  BY <1>1, <2>2, <2>3 DEF OneInformerPerType
<1> QED  BY <1>2, <1>3, <1>4

LEMMA NewInformerInv ==
  ASSUME IInv, NEW c \in Callers, NewInformer(c)
  PROVE  LockInv' /\ OneInformerPerType' /\ RunInv' /\ \A d \in Callers : CallInv(d)'
<1> USE DEF IInv
<1>1. /\ UNCHANGED <<lock, informers, startedInformers, handedOut, runs, environmentVars>>
      /\ UNCHANGED <<informerType, stopCh, todo, res, due>>
      /\ pc[c] = "lookup" /\ pc' = [pc EXCEPT ![c] = "insert"]
  BY DEF NewInformer, Goto
<1>2. OneInformerPerType' /\ RunInv' /\ Registered' = Registered
  BY <1>1, MapsKept
<1>3. LockInv'
  BY <1>1 DEF LockInv, TypeOK, Holding
<1>4. CallInv(c)'
  <2>1. PICK t \in informerType[c] : informers[t] = {}
    BY DEF NewInformer
  <2>2. \A u \in informerType[c] : u = t
    BY DEF TypeOK, Opt
  <2>3. pc'[c] = "insert" /\ \A u \in informerType[c] : informers[u] = {}
    BY <1>1, <2>1, <2>2 DEF TypeOK
  <2> QED  BY <1>1, <2>3 DEF CallInv
<1>5. ASSUME NEW d \in Callers, d # c
      PROVE  CallInv(d)'
  BY <1>1, <1>2, <1>5, OthersKeep DEF TypeOK, environmentVars
<1> QED  BY <1>2, <1>3, <1>4, <1>5

(* The mutex makes sure that nobody has put in an informer of that type,   *)
(* so no other can have been handed out.                                   *)
LEMMA InsertInformerInv ==
  ASSUME IInv, NEW c \in Callers, InsertInformer(c)
  PROVE  LockInv' /\ OneInformerPerType' /\ RunInv' /\ \A d \in Callers : CallInv(d)'
<1> USE DEF IInv
<1>1. PICK t \in informerType[c], n \in informer[c] :
        informers' = [informers EXCEPT ![t] = {n}] /\ handedOut' = handedOut \cup {<<t, n>>}
  BY DEF InsertInformer, HandOut
<1>2. t \in Types
  BY DEF TypeOK, Opt
<1>3. informers[t] = {} /\ pc[c] \in Holding
  BY DEF InsertInformer, CallInv, Holding
<1>4. UNCHANGED <<startedInformers, runs, environmentVars>>
  BY DEF InsertInformer
<1>5. /\ informers'[t] = {n}
      /\ \A u \in Types : u # t => informers'[u] = informers[u]
  BY <1>1, <1>2 DEF TypeOK
<1>6. Registered \subseteq Registered'
  BY <1>3, <1>5 DEF Registered
<1>7. LockInv' /\ \A d \in Callers : CallInv(d)'
  BY <1>3, <1>4, <1>6, CallsReturn DEF InsertInformer, Unlock
<1>8. RunInv'
  BY <1>4, <1>6 DEF RunInv
<1>9. OneInformerPerType'
  <2>1. ASSUME NEW given \in handedOut
        PROVE  informers'[given[1]] = {given[2]}
    <3>1. informers[given[1]] = {given[2]} /\ given[1] \in Types
      BY DEF OneInformerPerType, TypeOK
    <3> QED  BY <1>3, <1>5, <3>1
  <2> QED  BY <1>1, <1>5, <2>1 DEF OneInformerPerType
<1> QED  BY <1>7, <1>8, <1>9

(* Start's loop: what is started was registered, and is run for the first  *)
(* time, because the mutex keeps a second Start out of it.                 *)
LEMMA StartInformerInv ==
  ASSUME IInv, NEW c \in Callers, NEW t \in Types, StartInformer(c, t)
  PROVE  LockInv' /\ OneInformerPerType' /\ RunInv' /\ \A d \in Callers : CallInv(d)'
<1> USE DEF IInv
<1>1. /\ UNCHANGED <<lock, informers, handedOut, environmentVars>>
      /\ UNCHANGED <<pc, informerType, stopCh, res, due>>
      /\ pc[c] = "starting" /\ t \in todo[c] /\ todo' = [todo EXCEPT ![c] = todo[c] \ {t}]
  BY DEF StartInformer
<1>2. LockInv' /\ OneInformerPerType' /\ Registered' = Registered
  BY <1>1 DEF LockInv, OneInformerPerType, Registered
<1>3. startedInformers' = startedInformers \cup {t}
  BY DEF StartInformer
<1>4. t \in Registered
  BY <1>1 DEF CallInv
<1>5. RunInv'
  <2>1. startedInformers' \subseteq Registered'
    BY <1>2, <1>3, <1>4 DEF RunInv
  <2>2. CASE t \in startedInformers
    BY <1>3, <2>1, <2>2 DEF StartInformer, RunInv
  <2>3. CASE t \notin startedInformers
    <3>1. PICK channel \in stopCh[c] : runs' = [runs EXCEPT ![t] = Append(runs[t], channel)]
      BY <2>3 DEF StartInformer
    <3>2. runs[t] = <<>>
      BY <2>3 DEF RunInv
    <3>3. Len(Append(runs[t], channel)) = 1
      BY <3>2
    <3>4. Len(runs'[t]) = 1 /\ \A u \in Types : u # t => runs'[u] = runs[u]
      BY <3>1, <3>3 DEF TypeOK
    <3> QED  BY <1>3, <2>1, <3>4 DEF RunInv
  <2> QED  BY <2>2, <2>3
<1>6. CallInv(c)'
  <2>1. todo'[c] = todo[c] \ {t}
    BY <1>1 DEF TypeOK
  <2>2. due[c] \subseteq todo[c] \cup startedInformers /\ todo[c] \subseteq Registered
    BY <1>1 DEF CallInv
  <2> QED  BY <1>1, <1>2, <1>3, <2>1, <2>2 DEF CallInv
<1>7. ASSUME NEW d \in Callers, d # c
      PROVE  CallInv(d)'
  BY <1>1, <1>2, <1>3, <1>7, OthersKeep DEF TypeOK, environmentVars
<1> QED  BY <1>2, <1>5, <1>6, <1>7

LEMMA StartReturnsInv ==
  ASSUME IInv, NEW c \in Callers, StartReturns(c)
  PROVE  LockInv' /\ OneInformerPerType' /\ RunInv' /\ \A d \in Callers : CallInv(d)'
<1>1. UNCHANGED <<informers, startedInformers, handedOut, runs, environmentVars>>
  BY DEF StartReturns
<1>2. OneInformerPerType' /\ RunInv' /\ Registered' = Registered
  BY <1>1, MapsKept
<1>3. LockInv' /\ \A d \in Callers : CallInv(d)'
  BY <1>1, <1>2, CallsReturn DEF StartReturns, Unlock
<1> QED  BY <1>2, <1>3

LEMMA CollectStartedInv ==
  ASSUME IInv, NEW c \in Callers, CollectStarted(c)
  PROVE  LockInv' /\ OneInformerPerType' /\ RunInv' /\ \A d \in Callers : CallInv(d)'
<1> USE DEF IInv
<1>1. /\ UNCHANGED <<informers, startedInformers, handedOut, runs, environmentVars>>
      /\ UNCHANGED <<informerType, stopCh, res, due>>
      /\ pc[c] = "collecting" /\ pc' = [pc EXCEPT ![c] = "waiting"]
      /\ lock' = lock \ {c}
      /\ todo' = [todo EXCEPT ![c] = Registered \cap startedInformers]
  BY DEF CollectStarted, Goto, Unlock
<1>2. OneInformerPerType' /\ RunInv' /\ Registered' = Registered
  BY <1>1, MapsKept
<1>3. LockInv'
  BY <1>1 DEF LockInv, TypeOK, Holding
<1>4. CallInv(c)'
  <2>1. res[c] = {}
    BY <1>1 DEF CallInv
  <2>2. due[c] \subseteq Registered \cap startedInformers
    BY <1>1 DEF CallInv, RunInv
  <2>3. pc'[c] = "waiting" /\ todo'[c] = Registered \cap startedInformers
    BY <1>1 DEF TypeOK
  <2> QED  BY <1>1, <2>1, <2>2, <2>3 DEF CallInv
<1>5. ASSUME NEW d \in Callers, d # c
      PROVE  CallInv(d)'
  BY <1>1, <1>2, <1>5, OthersKeep DEF TypeOK, environmentVars
<1> QED  BY <1>2, <1>3, <1>4, <1>5

(* The outcome of one wait, TRUE of a synced cache and FALSE of a channel  *)
(* that has been closed.                                                   *)
LEMMA RecordInv ==
  ASSUME IInv, NEW c \in Callers, NEW t \in Types, NEW result \in BOOLEAN,
         Record(c, t, result), IF result THEN t \in synced ELSE stopCh[c] \cap closed # {}
  PROVE  LockInv' /\ OneInformerPerType' /\ RunInv' /\ \A d \in Callers : CallInv(d)'
<1> USE DEF IInv
<1>1. /\ UNCHANGED <<lock, informers, startedInformers, handedOut, runs, environmentVars>>
      /\ UNCHANGED <<pc, informerType, stopCh, due>>
      /\ pc[c] = "waiting" /\ todo' = [todo EXCEPT ![c] = todo[c] \ {t}]
      /\ res' = [res EXCEPT ![c] = res[c] \cup {<<t, result>>}]
  BY DEF Record, factoryVars
<1>2. OneInformerPerType' /\ RunInv' /\ Registered' = Registered
  BY <1>1, MapsKept
<1>3. LockInv'
  BY <1>1 DEF LockInv
<1>4. CallInv(c)'
  <2>1. /\ todo'[c] = todo[c] \ {t} /\ res'[c] = res[c] \cup {<<t, result>>}
    BY <1>1 DEF TypeOK
  <2>2. /\ \A u \in due[c] : u \in todo[c] \/ \E b \in BOOLEAN : <<u, b>> \in res[c]
        /\ \A r \in res[c] : IF r[2] THEN r[1] \in synced ELSE stopCh[c] \cap closed # {}
    BY <1>1 DEF CallInv
  <2>3. \A u \in due[c] : u \in todo'[c] \/ \E b \in BOOLEAN : <<u, b>> \in res'[c]
    BY <2>1, <2>2
  <2>4. \A r \in res'[c] : IF r[2] THEN r[1] \in synced ELSE stopCh[c] \cap closed # {}
    BY <2>1, <2>2
  <2> QED  BY <1>1, <2>3, <2>4 DEF CallInv, environmentVars
<1>5. ASSUME NEW d \in Callers, d # c
      PROVE  CallInv(d)'
  BY <1>1, <1>2, <1>5, OthersKeep DEF TypeOK, environmentVars
<1> QED  BY <1>2, <1>3, <1>4, <1>5

LEMMA WaitReturnsInv ==
  ASSUME IInv, NEW c \in Callers, WaitReturns(c)
  PROVE  LockInv' /\ OneInformerPerType' /\ RunInv' /\ \A d \in Callers : CallInv(d)'
<1>1. UNCHANGED <<lock, informers, startedInformers, handedOut, runs, environmentVars>>
  BY DEF WaitReturns, factoryVars
<1>2. OneInformerPerType' /\ RunInv' /\ Registered' = Registered
  BY <1>1, MapsKept
<1>3. c \notin lock
  BY DEF WaitReturns, IInv, LockInv, Holding
<1>4. LockInv' /\ \A d \in Callers : CallInv(d)'
  BY <1>1, <1>2, <1>3, CallsReturn DEF WaitReturns
<1> QED  BY <1>2, <1>4

(* What the informers do, and a stuttering step.                           *)
LEMMA EnvironmentInv ==
  ASSUME IInv, UNCHANGED <<factoryVars, runs, callVars>>,
         synced \subseteq synced', closed \subseteq closed'
  PROVE  LockInv' /\ OneInformerPerType' /\ RunInv' /\ \A d \in Callers : CallInv(d)'
<1>1. OneInformerPerType' /\ RunInv' /\ Registered' = Registered
  BY MapsKept DEF factoryVars
<1>2. LockInv'
  BY DEF IInv, LockInv, factoryVars, callVars
<1>3. ASSUME NEW d \in Callers
      PROVE  CallInv(d)'
  BY <1>1, OthersKeep DEF IInv, factoryVars, callVars
<1> QED  BY <1>1, <1>2, <1>3

LEMMA InvStep == IInv /\ [Next]_vars => IInv'
<1> SUFFICES ASSUME IInv, [Next]_vars
             PROVE  LockInv' /\ OneInformerPerType' /\ RunInv' /\ \A d \in Callers : CallInv(d)'
  BY TypeStep DEF IInv
<1>1. ASSUME NEW t \in Types, SyncInformer(t)
      PROVE  LockInv' /\ OneInformerPerType' /\ RunInv' /\ \A d \in Callers : CallInv(d)'
  BY <1>1, EnvironmentInv DEF SyncInformer
<1>2. ASSUME NEW channel \in StopChannels, CloseChannel(channel)
      PROVE  LockInv' /\ OneInformerPerType' /\ RunInv' /\ \A d \in Callers : CallInv(d)'
  BY <1>2, EnvironmentInv DEF CloseChannel
<1>3. ASSUME NEW c \in Callers, NEW t \in Types, InformerFor(c, t)
      PROVE  LockInv' /\ OneInformerPerType' /\ RunInv' /\ \A d \in Callers : CallInv(d)'
  BY <1>3, CallsBegin DEF InformerFor
<1>4. ASSUME NEW c \in Callers, NEW channel \in StopChannels, Start(c, channel)
      PROVE  LockInv' /\ OneInformerPerType' /\ RunInv' /\ \A d \in Callers : CallInv(d)'
  BY <1>4, CallsBegin DEF Start
<1>5. ASSUME NEW c \in Callers, NEW channel \in StopChannels, WaitForCacheSync(c, channel)
      PROVE  LockInv' /\ OneInformerPerType' /\ RunInv' /\ \A d \in Callers : CallInv(d)'
  BY <1>5, CallsBegin DEF WaitForCacheSync
<1>6. ASSUME NEW c \in Callers, NEW t \in Types, CacheSynced(c, t) \/ WaitStopped(c, t)
      PROVE  LockInv' /\ OneInformerPerType' /\ RunInv' /\ \A d \in Callers : CallInv(d)'
  BY <1>6, RecordInv DEF CacheSynced, WaitStopped
<1>7. CASE UNCHANGED vars
  BY <1>7, EnvironmentInv DEF vars, environmentVars
<1> QED
  BY <1>1, <1>2, <1>3, <1>4, <1>5, <1>6, <1>7, LockFactoryInv, FoundInformerInv, NewInformerInv,
     InsertInformerInv, StartInformerInv, StartReturnsInv, CollectStartedInv, WaitReturnsInv
     DEF Next, Step

THEOREM Invariance == Spec => []IInv
  BY InvInit, InvStep, PTL DEF Spec

-----------------------------------------------------------------------------
(* The properties.                                                         *)

(* All callers that ask for a type are given the same informer.            *)
THEOREM OneInformer == Spec => []OneInformerPerType
<1>1. IInv => OneInformerPerType
  BY DEF IInv
<1> QED  BY <1>1, Invariance, PTL

(* No informer runs twice, and none runs that nobody has asked for.        *)
THEOREM NoSecondRun == Spec => []StartedOnce
<1>1. IInv => StartedOnce
  BY DEF IInv, RunInv, StartedOnce
<1> QED  BY <1>1, Invariance, PTL

(* A call that has begun to start or to wait leaves off in one way.        *)
LEMMA HowCallsEnd ==
  ASSUME TypeOK, Next, NEW c \in Callers, pc[c] \in {"starting", "waiting"}, pc'[c] = "idle"
  PROVE  (pc[c] = "starting" /\ StartReturns(c)) \/ (pc[c] = "waiting" /\ WaitReturns(c))
<1>1. ASSUME NEW t \in Types, SyncInformer(t)
      PROVE  FALSE
  BY <1>1 DEF SyncInformer, callVars
<1>2. ASSUME NEW channel \in StopChannels, CloseChannel(channel)
      PROVE  FALSE
  BY <1>2 DEF CloseChannel, callVars
<1>3. ASSUME NEW d \in Callers, NEW t \in Types, InformerFor(d, t)
      PROVE  FALSE
  BY <1>3 DEF InformerFor, Call, Goto, TypeOK
<1>4. ASSUME NEW d \in Callers, NEW channel \in StopChannels,
             Start(d, channel) \/ WaitForCacheSync(d, channel)
      PROVE  FALSE
  BY <1>4 DEF Start, WaitForCacheSync, Call, Goto, TypeOK
<1>5. ASSUME NEW d \in Callers, LockFactory(d)
      PROVE  FALSE
  BY <1>5 DEF LockFactory, Locked, Goto, TypeOK
<1>6. ASSUME NEW d \in Callers, FoundInformer(d) \/ InsertInformer(d)
      PROVE  FALSE
  BY <1>6 DEF FoundInformer, InsertInformer, Return, Goto, TypeOK
<1>7. ASSUME NEW d \in Callers, NewInformer(d) \/ CollectStarted(d)
      PROVE  FALSE
  BY <1>7 DEF NewInformer, CollectStarted, Goto, TypeOK
<1>8. ASSUME NEW d \in Callers, NEW t \in Types,
             StartInformer(d, t) \/ CacheSynced(d, t) \/ WaitStopped(d, t)
      PROVE  FALSE
  BY <1>8 DEF StartInformer, CacheSynced, WaitStopped, Record
<1>9. ASSUME NEW d \in Callers, StartReturns(d)
      PROVE  d = c /\ pc[c] = "starting"
  BY <1>9 DEF StartReturns, Return, Goto, TypeOK
<1>10. ASSUME NEW d \in Callers, WaitReturns(d)
       PROVE  d = c /\ pc[c] = "waiting"
  BY <1>10 DEF WaitReturns, Return, Goto, TypeOK
<1> QED
  BY <1>1, <1>2, <1>3, <1>4, <1>5, <1>6, <1>7, <1>8, <1>9, <1>10 DEF Next, Step

(* Start returns when all informers it was called for have been run.       *)
THEOREM StartIsComplete == Spec => StartCoversRegistered
<1>1. ASSUME IInv, NEW c \in Callers, Next, pc[c] = "starting", pc'[c] = "idle"
      PROVE  \A t \in due[c] : runs[t] # <<>>
  <2>1. StartReturns(c)
    BY <1>1, HowCallsEnd DEF IInv
  <2>2. due[c] \subseteq startedInformers /\ startedInformers \subseteq Types
    BY <1>1, <2>1 DEF StartReturns, IInv, CallInv, TypeOK
  <2>3. \A t \in startedInformers : Len(runs[t]) = 1
    BY <1>1, <2>2 DEF IInv, RunInv
  <2>4. Len(<<>>) = 0
    OBVIOUS
  <2> QED  BY <2>2, <2>3, <2>4
<1>2. IInv /\ [Next]_vars =>
        [\A c \in Callers :
           pc[c] = "starting" /\ pc'[c] = "idle" => \A t \in due[c] : runs[t] # <<>>]_vars
  BY <1>1
<1> QED  BY <1>2, Invariance, PTL DEF Spec, StartCoversRegistered

(* A wait returns when it can say of all informers it was called for what  *)
(* became of them, and what it says is so.                                 *)
THEOREM WaitIsComplete == Spec => WaitCoversStarted
<1>1. ASSUME IInv, NEW c \in Callers, Next, pc[c] = "waiting", pc'[c] = "idle"
      PROVE  /\ \A t \in due[c] : \E result \in BOOLEAN : <<t, result>> \in res[c]
             /\ \A r \in res[c] : IF r[2] THEN r[1] \in synced ELSE stopCh[c] \cap closed # {}
  <2>1. WaitReturns(c)
    BY <1>1, HowCallsEnd DEF IInv
  <2> QED  BY <1>1, <2>1 DEF WaitReturns, IInv, CallInv
<1>2. IInv /\ [Next]_vars =>
        [\A c \in Callers :
           pc[c] = "waiting" /\ pc'[c] = "idle" =>
             /\ \A t \in due[c] : \E result \in BOOLEAN : <<t, result>> \in res[c]
             /\ \A r \in res[c] : IF r[2] THEN r[1] \in synced
                                             ELSE stopCh[c] \cap closed # {}]_vars
  BY <1>1
<1> QED  BY <1>2, Invariance, PTL DEF Spec, WaitCoversStarted

-----------------------------------------------------------------------------
(* Nobody keeps the lock: the safety part of RegistrationEnds.             *)

(* A call has the arguments that its next steps read.                      *)
ArgsInv(c) ==
  /\ pc[c] \in {"informerFor", "lookup", "insert"} => informerType[c] # {}
  /\ pc[c] = "insert" => informer[c] # {}
  /\ pc[c] \in {"start", "starting"} => stopCh[c] # {}

(* Between its Lock and its Unlock, a call always has a branch to take:    *)
(* the guards of one of its steps are true, whatever others have done.     *)
HolderGoesOn ==
  \A c \in lock :
    \/ /\ pc[c] = "lookup"
       /\ \E t \in informerType[c] : informers[t] = {} \/ \E n \in informers[t] : TRUE
    \/ pc[c] = "insert" /\ \E t \in informerType[c], n \in informer[c] : TRUE
    \/ /\ pc[c] = "starting"
       /\ todo[c] = {} \/ \E t \in todo[c] : t \in startedInformers \/ \E ch \in stopCh[c] : TRUE
    \/ pc[c] = "collecting"

(* A step of the holder unlocks, inserts the informer it has made, or has  *)
(* fewer informers left to start.                                          *)
Advances(c) ==
  \/ c \notin lock'
  \/ pc[c] = "lookup" /\ pc'[c] = "insert"
  \/ pc[c] = "starting" /\ pc'[c] = "starting" /\ todo'[c] \subseteq todo[c] /\ todo'[c] # todo[c]

(* The holder moves only to advance, and nobody else moves it.             *)
HolderAdvances ==
  [][\A c \in lock : (pc'[c] = pc[c] /\ todo'[c] = todo[c]) \/ Advances(c)]_vars

LEMMA ArgsInit == Init => \A c \in Callers : ArgsInv(c)
  BY DEF Init, ArgsInv

LEMMA ArgsStep ==
  ASSUME IInv, Next, NEW d \in Callers, ArgsInv(d)
  PROVE  ArgsInv(d)'
<1> USE DEF IInv
<1>1. ASSUME NEW t \in Types, SyncInformer(t)
      PROVE  ArgsInv(d)'
  BY <1>1 DEF SyncInformer, callVars, ArgsInv
<1>2. ASSUME NEW channel \in StopChannels, CloseChannel(channel)
      PROVE  ArgsInv(d)'
  BY <1>2 DEF CloseChannel, callVars, ArgsInv
<1>3. ASSUME NEW c \in Callers, NEW t \in Types, InformerFor(c, t)
      PROVE  ArgsInv(d)'
  BY <1>3 DEF InformerFor, Call, Goto, ArgsInv, TypeOK
<1>4. ASSUME NEW c \in Callers, NEW channel \in StopChannels, Start(c, channel)
      PROVE  ArgsInv(d)'
  BY <1>4 DEF Start, Call, Goto, ArgsInv, TypeOK
<1>5. ASSUME NEW c \in Callers, NEW channel \in StopChannels, WaitForCacheSync(c, channel)
      PROVE  ArgsInv(d)'
  BY <1>5 DEF WaitForCacheSync, Call, Goto, ArgsInv, TypeOK
<1>6. ASSUME NEW c \in Callers, LockFactory(c)
      PROVE  ArgsInv(d)'
  BY <1>6 DEF LockFactory, Locked, Goto, ArgsInv, TypeOK
<1>7. ASSUME NEW c \in Callers,
             FoundInformer(c) \/ InsertInformer(c) \/ StartReturns(c) \/ WaitReturns(c)
      PROVE  ArgsInv(d)'
  <2>1. Return(c)
    BY <1>7 DEF FoundInformer, InsertInformer, StartReturns, WaitReturns
  <2> QED  BY <2>1 DEF Return, Goto, ArgsInv, TypeOK
<1>8. ASSUME NEW c \in Callers, NewInformer(c)
      PROVE  ArgsInv(d)'
  <2>1. PICK n : informer' = [informer EXCEPT ![c] = {n}]
    BY <1>8 DEF NewInformer
  <2>2. informerType' = informerType /\ stopCh' = stopCh /\ pc' = [pc EXCEPT ![c] = "insert"]
        /\ pc[c] = "lookup"
    BY <1>8 DEF NewInformer, Goto
  <2>3. d = c => informer'[d] = {n}
    BY <2>1 DEF TypeOK
  <2>4. d # c => informer'[d] = informer[d]
    BY <2>1 DEF TypeOK
  <2> QED  BY <2>2, <2>3, <2>4 DEF ArgsInv, TypeOK
<1>9. ASSUME NEW c \in Callers, CollectStarted(c)
      PROVE  ArgsInv(d)'
  BY <1>9 DEF CollectStarted, Goto, ArgsInv, TypeOK
<1>10. ASSUME NEW c \in Callers, NEW t \in Types,
              StartInformer(c, t) \/ CacheSynced(c, t) \/ WaitStopped(c, t)
       PROVE  ArgsInv(d)'
  BY <1>10 DEF StartInformer, CacheSynced, WaitStopped, Record, ArgsInv
<1> QED
  BY <1>1, <1>2, <1>3, <1>4, <1>5, <1>6, <1>7, <1>8, <1>9, <1>10 DEF Next, Step

LEMMA ArgsGiven == Spec => [](\A c \in Callers : ArgsInv(c))
<1> DEFINE AllArgs == \A c \in Callers : ArgsInv(c)
<1>1. IInv /\ AllArgs /\ [Next]_vars => AllArgs'
  <2>1. ASSUME UNCHANGED vars, AllArgs
        PROVE  AllArgs'
    BY <2>1 DEF vars, callVars, ArgsInv
  <2> QED  BY <2>1, ArgsStep
<1>2. Init => AllArgs
  BY ArgsInit
<1> HIDE DEF AllArgs
<1>3. Spec => []AllArgs
  BY <1>1, <1>2, Invariance, PTL DEF Spec
<1> QED  BY <1>3 DEF AllArgs

(* Whoever holds the lock can go on: no call blocks between Lock and       *)
(* Unlock, so that only the goroutine scheduler could keep others waiting. *)
THEOREM HolderIsNotStuck == Spec => []HolderGoesOn
<1>1. ASSUME IInv, \A c \in Callers : ArgsInv(c), NEW c \in lock
      PROVE  \/ /\ pc[c] = "lookup"
                /\ \E t \in informerType[c] : informers[t] = {} \/ \E n \in informers[t] : TRUE
             \/ pc[c] = "insert" /\ \E t \in informerType[c], n \in informer[c] : TRUE
             \/ /\ pc[c] = "starting"
                /\ \/ todo[c] = {}
                   \/ \E t \in todo[c] : t \in startedInformers \/ \E ch \in stopCh[c] : TRUE
             \/ pc[c] = "collecting"
  <2>1. c \in Callers
    BY <1>1 DEF IInv, TypeOK, Opt
  <2>2. pc[c] \in Holding /\ ArgsInv(c)
    BY <1>1, <2>1 DEF IInv, LockInv
  <2> QED  BY <2>2 DEF ArgsInv, Holding
<1>2. IInv /\ (\A c \in Callers : ArgsInv(c)) => HolderGoesOn
  BY <1>1 DEF HolderGoesOn
<1> QED  BY <1>2, Invariance, ArgsGiven, PTL

LEMMA HolderStep ==
  ASSUME IInv, Next, NEW c \in Callers, pc[c] \in Holding
  PROVE  (pc'[c] = pc[c] /\ todo'[c] = todo[c]) \/ Advances(c)
<1> USE DEF IInv
<1>1. ASSUME NEW t \in Types, SyncInformer(t)
      PROVE  pc' = pc /\ todo' = todo
  BY <1>1 DEF SyncInformer, callVars
<1>2. ASSUME NEW channel \in StopChannels, CloseChannel(channel)
      PROVE  pc' = pc /\ todo' = todo
  BY <1>2 DEF CloseChannel, callVars
<1>3. ASSUME NEW d \in Callers, NEW phase, NEW type, NEW channel, NEW covered,
             Call(d, phase, type, channel, covered)
      PROVE  pc'[c] = pc[c] /\ todo'[c] = todo[c]
  BY <1>3 DEF Call, Goto, Holding, TypeOK
<1>4. ASSUME NEW d \in Callers, LockFactory(d)
      PROVE  pc'[c] = pc[c] /\ todo'[c] = todo[c]
  BY <1>4 DEF LockFactory, Locked, Goto, Holding, TypeOK
<1>5. ASSUME NEW d \in Callers,
             FoundInformer(d) \/ InsertInformer(d) \/ StartReturns(d) \/ CollectStarted(d)
      PROVE  (pc'[c] = pc[c] /\ todo'[c] = todo[c]) \/ c \notin lock'
  <2>1. d = c => c \notin lock'
    BY <1>5 DEF FoundInformer, InsertInformer, StartReturns, CollectStarted, Unlock
  <2>2. pc' = [pc EXCEPT ![d] = pc'[d]] /\ todo' = [todo EXCEPT ![d] = todo'[d]]
    BY <1>5 DEF FoundInformer, InsertInformer, StartReturns, CollectStarted, Return, Goto, TypeOK
  <2> QED  BY <2>1, <2>2 DEF TypeOK
<1>6. ASSUME NEW d \in Callers, NewInformer(d)
      PROVE  (pc'[c] = pc[c] /\ todo'[c] = todo[c]) \/ (pc[c] = "lookup" /\ pc'[c] = "insert")
  BY <1>6 DEF NewInformer, Goto, TypeOK
<1>7. ASSUME NEW d \in Callers, NEW t \in Types, StartInformer(d, t)
      PROVE  \/ pc'[c] = pc[c] /\ todo'[c] = todo[c]
             \/ /\ pc[c] = "starting" /\ pc'[c] = "starting"
                /\ todo'[c] \subseteq todo[c] /\ todo'[c] # todo[c]
  BY <1>7 DEF StartInformer, TypeOK
<1>8. ASSUME NEW d \in Callers, WaitReturns(d)
      PROVE  pc'[c] = pc[c] /\ todo'[c] = todo[c]
  BY <1>8 DEF WaitReturns, Return, Goto, Holding, TypeOK
<1>9. ASSUME NEW d \in Callers, NEW t \in Types, CacheSynced(d, t) \/ WaitStopped(d, t)
      PROVE  pc'[c] = pc[c] /\ todo'[c] = todo[c]
  BY <1>9 DEF CacheSynced, WaitStopped, Record, Holding, TypeOK
<1> QED
  BY <1>1, <1>2, <1>3, <1>4, <1>5, <1>6, <1>7, <1>8, <1>9
     DEF Next, Step, InformerFor, Start, WaitForCacheSync, Advances

(* With HolderIsNotStuck, why the lock is always given up: the holder has  *)
(* two steps to take, or as many as Start has informers left, and no other *)
(* goroutine adds to them.                                                 *)
THEOREM LockIsGivenUp == Spec => HolderAdvances
<1>1. ASSUME IInv, Next, NEW c \in lock
      PROVE  (pc'[c] = pc[c] /\ todo'[c] = todo[c]) \/ Advances(c)
  <2>1. c \in Callers
    BY <1>1 DEF IInv, TypeOK, Opt
  <2>2. pc[c] \in Holding
    BY <1>1, <2>1 DEF IInv, LockInv
  <2> QED  BY <1>1, <2>1, <2>2, HolderStep
<1>2. IInv /\ [Next]_vars =>
        [\A c \in lock : (pc'[c] = pc[c] /\ todo'[c] = todo[c]) \/ Advances(c)]_vars
  BY <1>1
<1> QED  BY <1>2, Invariance, PTL DEF Spec, HolderAdvances

=============================================================================
