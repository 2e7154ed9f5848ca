# Barbossa in TLA+

Barbossa is a Kubernetes validating admission webhook. The API server sends it
the Deployments that users create or update; it looks up the
HighAvailabilityPolicies of the Deployment's namespace, picks one, and refuses
the Deployment when it does not adhere to that policy. This directory models
that program, checks the models with TLC and proves the main results with
TLAPS. Paths below are relative to the repository, which is `src/` in
`PROJECT.json`.

## 1. Inventory

| Component | Code | State | Operations |
| --- | --- | --- | --- |
| Admission hook | `internal/webhooks/high_availability.go` | `crdClient`; per call the decoded Deployment, the policy list, `dhap`, `hap` | `Initialize`, `Validate`, `ValidatingResource` |
| Deployment validation | `apis/barbossa/v1alpha1/validation/deployment_validation.go` | the error list of the call | `ValidateDeployment` and its four helpers |
| Policy types | `apis/barbossa/v1alpha1/types.go`, `docs/kube/defaults` | none: the shape of what is stored | decoding |
| Webhook process | `cmd/barbossa/main.go` and generic-admission-server | serving or not | start, post-start hook, exit |
| Typed client | `pkg/client/generated/clientset/versioned` | REST client, rate limiter | Get, List, Watch, Create, Update, Delete, Patch |
| Informer factory | `pkg/client/generated/informers/externalversions` | `lock`, `informers`, `startedInformers` | `InformerFor`, `Start`, `WaitForCacheSync` and accessors that lead to `InformerFor` |
| Policy informer and lister | `informers/.../highavailabilitypolicy.go` and `listers` in the same tree | the indexer | list and watch functions, `List`, `Get` |
| Fake clientset | `clientset/versioned/fake` and `typed/.../fake` in the same tree | two Fakes with a lock and recorded actions each, object tracker, watches | the client's methods on the tracker, Watch, discovery |
| Deep copies | `apis/barbossa/v1alpha1/zz_generated.deepcopy.go` | pointers | `DeepCopyInto` per type |
| Installation | `docs/kube` | webhook configuration, APIService, certificates, roles, the webhook's Deployment | applying the files, issuing and renewing certificates, the jobs that copy CA bundles, rollout of the webhook |

How they interact. generic-admission-server starts to listen and then runs the
post-start hook that calls `Initialize`. The API server calls the webhook over
HTTP; every request runs `Validate` in a goroutine of its own. `Validate` calls
the typed client once (`List`), then works on its private copy of the list and
calls `ValidateDeployment`, a pure function apart from its nil dereferences.
Users change the policies through the API server at any time, and the webhook
never hears of it. The webhook keeps nothing on disk. The informers, the lister,
the deep copies and the fake clientset are generated and unused by the binary;
they are what other programs import. There, goroutines share one factory, each
informer fills an indexer in a goroutine of its own, listers hand out pointers
into it, and whoever wants to change an object makes a deep copy first.

What is hard, and what makes each component correct:

- The loop of `Validate` stores `&dhap`, the address of the loop variable, in
  `hap`. What that pointer means depends on the Go version, and what is decided
  depends on the order of the list. Correct: the policy that judges selects the
  Deployment and no other selecting policy outweighs it.
- `crdClient` is written after the server accepts calls, without
  synchronisation, and the process may exit in any step of a call. Correct: no
  call is allowed by a process without a client, and every call ends.
- Policies change between the list and the answer; `List` may fail; a selector
  may not parse. Correct: the answer is right for the policies of one moment of
  the call, and none of these lets a Deployment through unjudged.
- The validators return early, dereference optional blocks without looking, and
  round percentages up, where the Deployment controller rounds `maxUnavailable`
  down. Correct: what is accepted adheres to the policy, and the cluster's
  rollout then stays within it.
- The API server's rules, the failure policy and its timeout decide which
  Deployments the webhook sees, and what an outage or a late answer does.
  Correct: what the rules cover adheres when it is stored, every request is
  decided, and the webhook's own Deployment is never locked out.
- The factory's lock covers each call but not the sequence of calls, and not
  the wait for the caches. Correct: one informer per type, run once; `Start`
  and `WaitForCacheSync` cover what was there when they were called.
- An informer's cache follows a list and a watch, the watch may break, and
  callers hold pointers into the cache. Correct: the cache ends up with what
  the server has and the options select, and no caller's writes show in it.
- The typed client's requests are throttled together, refused by a busy API
  server, sent again, and may lose their answers; an update carries a version
  read long before. Correct: an answer tells what happened, no update
  overwrites unseen what others wrote, and the clientset keeps its rate.

- The fake clientset hands every call to a Fake that it embeds by value; a copy
  of the Fake has a lock and a record of its own. It answers from a tracker
  that knows neither versions nor the options of a watch. Correct: a test sees
  through it what it would see of the typed client, the recorded actions are
  what happened, and a watcher is told of every change.
- Certificates expire, CA bundles are copied on two days of a month, and
  whoever applies the files again empties a bundle. Correct: a bundle is
  replaced before it expires, in months of any length, and filled again when it
  has been emptied.

`PROJECT.json` lists every hazard with its line and the properties about it.

## 2. Modules

```
Optional ── LabelSelector ─┐
IntOrString ───────────────┴─ PolicyTypes ── DeploymentValidation ─┬─ ValidateDeployment ── ValidateDeploymentProofs
                                   └── DeploymentController ───────┘          └── MCValidateDeployment
DeploymentValidation ── PolicyStore ─┬─ AdmissionContract
                                     ├─ AdmissionHook (INSTANCEs AdmissionContract)
                                     │    ├── MCAdmissionHook
                                     │    └── AdmissionHookProofs
                                     └─ Cluster (INSTANCEs AdmissionContract)
                                          ├── MCCluster
                                          └── ClusterProofs
Optional ─┬─ SharedInformerFactory ── SharedInformerFactoryProofs
          ├─ DeepCopy ── PolicyCache ─┬─ MCPolicyCache
          │                           └─ PolicyCacheProofs
          ├─ PolicyApi
          ├─ PolicyClient (INSTANCEs PolicyApi) ─┬─ MCPolicyClient
          │                                      └─ PolicyClientProofs
          ├─ FakeClient (INSTANCEs PolicyApi) ─┬─ MCFakeClient
          │                                    └─ FakeClientProofs
          └─ Installation ── InstallationProofs
```

- `Optional`: a Go pointer is a set of at most one element, nil the empty set.
- `IntOrString` (external): `intstr`. A value is a number, a percentage or a
  string that is neither, for which `GetValueFromIntOrPercent` fails.
- `LabelSelector` (external): `LabelSelectorAsSelector` and `Matches`.
  `matchLabels` and `matchExpressions` are one set of requirements; a nil
  selector is the empty set and matches nothing, an empty one matches all.
- `PolicyTypes`: the fields of a policy and of a Deployment that the code
  reads, and `DefaultPolicy`, the default file as those types decode it.
- `DeploymentController` (external): which Deployments the API server stores,
  and how many pods the Deployment controller takes down in a rollout. It gives
  the accepted values their meaning in the cluster.
- `DeploymentValidation`: each validator as the set of the errors it appends,
  and `ValidationPanics`, the inputs on which it dereferences nil. An error is
  a field and a kind of message, without the values.
- `ValidateDeployment`: one call, step by step. `pc` is the validator that runs
  next, `el` the error list, `unvisited` the containers the resource loop has
  still to visit, in any order.
- `PolicyStore`: the policies stored, `Listing` (what `List` returns; the empty
  namespace lists all), `Selects`, and `Verdict`, the answer `ToAggregate`
  gives.
- `AdmissionHook`: the hook. The variables of a call are those of `Validate`:
  `dpl`, `items` (`hapList.Items`, in any order), `dhap` (how many items the
  loop has loaded) and `hap` (the iteration whose address it holds). Each
  branch of the loop body and each return is an action. `Initialize`,
  `InitializeFails`, `Crash`, `WritePolicy` and `DeletePolicy` interleave with
  them. `inForce` is a history variable: the policies of the namespace that
  have stayed unchanged since the call began.
- `AdmissionContract`: what a caller can rely on, without the loop. A call is
  received, observes the store at one moment, and is answered with the verdict
  of one of the policies it may be judged by (`Judges`). With a loop variable
  for each iteration these are the ones `types.go` promises, the heaviest that
  select the Deployment (`DocumentedJudges`); with the shipped one any policy
  of the namespace, once one of them selects the Deployment (`SharedJudges`),
  for the list may come in any order. `Accepted` is `types.go`'s rule for
  either build.
- `Cluster`: the API server's side of admission, as `docs/kube` configures it.
  A write (`Send`) is stored directly when no rule or namespace selector covers
  it (`Pass`), refused when the webhook cannot be reached (`CallFails`), and
  otherwise decided by the webhook's answer or failure (`Decide`) or by the API
  server's timeout, after which the call goes on by itself (`Timeout`,
  `AbandonedCallEnds`). The webhook's calls are those of `AdmissionContract`,
  for the build that `LoopVarPerIteration` names.
  `stored` holds the Deployments of the cluster, among them the webhook's own,
  without which it is never `reachable`. `quiet` is a history variable: no
  policy has changed since the request came in.

- `SharedInformerFactory`: the factory. A call takes the lock, goes through its
  lines, and gives the lock back; `todo` is what the loop of `Start` or of
  `WaitForCacheSync` has still to visit, in the random order of a Go map. An
  informer is the number of the `newFunc` call that made it. `runs` lists the
  stop channels `Run` was called with, `due` is a history variable: the
  informers registered (for `Start`) or started (for `WaitForCacheSync`) when
  the call began. Filling a cache and closing a channel happen at any time.
- `DeepCopy`: the generated copies on an explicit memory. An object is an
  identity and, for each pointer or map field, the address of a cell;
  `DeepCopy` gives new cells to the fields that some `DeepCopyInto` allocates
  and leaves the others shared. A field's name stands for its whole path.
- `PolicyCache`: the policy informer, its lister and their callers on that
  memory. `queue` holds what was listed or watched and not yet applied to the
  indexer. Callers get pointers (`Get`, `List`), copy, write to their copies,
  and drop them; an object the indexer has replaced lives on while it is held.
- `PolicyClient`: the typed client. Each method of
  `HighAvailabilityPolicyInterface` but `Watch` is an operator that builds the
  request of its source; a call takes a token from `Limiter`, is sent, and is
  served, refused as too busy or cut off. What the API server and client-go do
  with a request is external. `object` is the policy a caller has received
  last, which it may edit and give to `Update`. `budget` is a history variable:
  what a single bucket of the config's QPS and Burst would have left.
- `PolicyApi`: what callers of a `HighAvailabilityPolicyInterface` may rely on.
  A call is made (`Invoke`), takes effect in one step (`Perform`), or is lost
  before or after that (`Lose`), and returns. There are no requests, tokens,
  retries or versions in it; `Addressed` is the scope of a call.
- `FakeClient`: the fake clientset, the generated methods as the actions they
  build, and `Invoke` and `React` for the two halves of `Fake.Invokes`, which
  records the action and has a reactor apply it under the same lock. `Fakes`
  are the Fake that the clientset embeds and the copy that its discovery client
  keeps. A watcher's channel is bounded, and a writer that finds it full
  panics. The tracker (package testing of client-go) is external. `given`, and
  a watcher's `asked` and `seen`, are history: what the tracker began with,
  what a watcher has asked for and what it has been told.
- `Installation`: the certificates and bundles of `with-rbac.yaml` in days. A
  certificate or a bundle is the number of days it is still valid. `todo` holds
  what the job and the scheduled job still have to update, under the rules of
  their role (`May`); `Apply` is an operator who applies the files again.
  `waiting`, the days without a CA bundle in the webhook configuration, is a
  history variable. cert-manager and the job's helper are external.

The hook implements the contract of its build, whatever the policies (section
5), so `Cluster`, which has the contract in the hook's place, stands for the
shipped program when `LoopVarPerIteration` is FALSE. That what it stores adheres
to `types.go`'s rule takes more: a loop variable for each iteration, or no
namespace with two policies.

`MC*` modules hold inputs for TLC and no definition of the system. Operators
whose comment starts with "Mutant:" are plausible bugs; each property is broken
by one of them.

### The loop variable

`for _, dhap := range hapList.Items { shap := &dhap; ...; hap = shap }` keeps a
pointer to the loop variable. Before Go 1.22 there is one variable for all
iterations, so `hap` follows the loop: after it, `*hap` is the last item of the
list. The Dockerfile and `.travis.yml` build with such a version. `Pointee`
models this with `LoopVarPerIteration`: FALSE is the shipped build, TRUE the
program its text suggests, or a build with Go 1.22 semantics.

## 3. Runs

| Run | Question | Inputs |
| --- | --- | --- |
| `validate_deployment` | Is the verdict the documented one, and does it hold in the cluster? | 0 to 10 replicas; 7 values for each rolling-update field and nil; every combination of 7 policy bounds; 3 containers |
| `admission_hook` | What does the shipped build guarantee, does it implement its contract, and does every call end? | 1 call, 3 keys in 2 namespaces, 4 policies, 4 Deployments, fairness |
| `admission_contract` | Does the loop as its text reads follow the documented rule? | the same, `LoopVarPerIteration` TRUE |
| `highest_weight` | Does the shipped build follow the rule? It does not. | 1 call, 3 keys |
| `optional_block` | Is the optional block optional? It is not. | as `validate_deployment` |
| `cluster` | What gets into the cluster through outages, timeouts and conflicting writes, and can the webhook come back? | the shipped build; 2 requests, 4 writes (create, update, scale, the webhook's own), 2 keys in 2 namespaces, 3 Deployments, fairness |
| `non_adhering` | Is every non-adhering Deployment kept out? It is not. | 1 request, every well-formed write |
| `informer_factory` | Do goroutines in any order share informers that run once, is each call complete, and does it end? | 2 goroutines, 2 types, 2 stop channels, fairness |
| `policy_cache` | Does the cache follow the server, and are copies private? | 2 callers, 2 keys in 2 namespaces, 3 policies, writes to a copied field (replicas) and to a shared one (maxSurge) |
| `policy_client` | Does the client implement `PolicyApi` through busy servers and broken connections, do updates keep what others wrote, do calls share one rate limit, and do they return? | 2 callers with 7 methods between them, 2 keys in 2 namespaces, 2 labels, fairness |
| `fake_client` | Does the fake implement `PolicyApi` too, do its records tell what happened, and do watchers miss nothing? | 2 callers with 7 methods through both accessors, 1 watcher, 2 keys in 2 namespaces, 2 labels |
| `installation` | Are bundles copied before they expire, and do lost ones come back? | the schedule of `with-rbac.yaml`, months of 28 to 31 days, cert-manager's 90 and 30 days, fairness |

Why these bounds are enough. A call never reads another call's variables, so
one call with every interleaving of store changes and process events shows all
its behaviours. Two policies in a namespace are enough for the
list's order, ties, heavier and lighter ones and the shared variable to matter;
the third key is in the other namespace, so that a list of the wrong one shows.
The policies of `MCPolicySpecs` accept, refuse and panic, select and do not
select, and one has a selector that cannot be read. For the validators, replica
counts 1, 3 and 10 with 1%, 25% and 100% land below, on and above whole pods,
and every bound is met from below, exactly and from above; 0 and 2 put the
default policy's minimum and 25% of nothing to the test. In `cluster`, one Deployment adheres to
the only policy and one does not; two requests are what it takes for one to be
decided on an object the other has replaced, and for a call that has been given
up on to run beside its successor. Each of its namespaces has one policy, where the
shipped loop is right; with two, `ExaminedAreAdhering` is violated for the reason
`highest_weight` shows. Two goroutines are enough for a race on the
factory's lock, two types for a loop that leaves one out, two channels for an
informer that is stopped while a wait on another channel goes on. In
`policy_cache` one key is outside of the informer's namespace and one policy
outside of its selection, so policies move in and out of both.
In `policy_client` one caller reads, lists, updates and deletes collections in
its namespace, the other creates, patches and deletes in two: a policy that was
read is changed, deleted or recreated before it is updated, and one in another
namespace, or with another label, is there to be left alone.
In `fake_client` each caller uses an accessor of its own, the watcher watches one
namespace or all of them, and a list selects one label of two. `installation`
has no reduced values: it starts on any day of any month, and goes on for ever.

Bounds inside the modules: `MaxQueue` (2) limits the changes on their way for
one policy, enough for a change to be overtaken by the list that follows a
broken watch; `Ids` are the objects whose cells can be reached at once, and 5 of
them let both callers hold copies of objects that the indexer has replaced
(only in that state does the next change wait for a caller to drop its
pointer). In `PolicyClient`, `MaxVersion` (3) bounds the resource versions: the
policies start with 1, so a policy that is read can be changed once by another
caller and would still have a version left for the stale update; a write that
might exceed it is not called. `MaxRetries` (1, client-go has 10) is enough for
a request to be sent again and to run out of retries, and `Burst` (1) for one
client to empty the bucket the other needs. In `FakeClient`, `MaxActions`
bounds the actions a Fake records, 3 for the clientset and 1 for discovery: a
registration and two writes overfill a channel of `Capacity` 1 (client-go has 100),
and two writes and a read tell their order. With that capacity no two events are
ever queued in the run; a second place in the channel takes a fourth action to
overfill it, which is too many states for the methods of the run. The order of
queued events is what `WatchersAreTold` proves, for any capacity. In `policy_cache` identities and callers are
interchangeable and no liveness is checked there, so the run uses symmetry. The
other modules have no bound: the store is finite because its keys are, a call's
list because the store is.

`validate_deployment` and the runs on its module set CHECK_DEADLOCK FALSE, for
a call ends and has no successor; so does `fake_client`, where a panic ends the
test and a full record the instance. The hook never stops, and is checked for
deadlock; so are the cluster, the factory, the cache, the typed client and the
installation.

### What the properties say

- `AcceptedIffAdheres`: `Adheres` states the policy without the validators'
  order of tests. The call returns no error exactly for what adheres.
- `SummaryIsExact`: the step-by-step call computes `DeploymentErrors` and
  panics exactly when `ValidationPanics` says so. The hook's model uses those
  operators for the call, so this is what connects the two models.
- `RolloutStaysWithinPolicy`, `DefaultPolicyGuarantee`: the validator rounds up
  and the controller down, with a fallback of one pod; an accepted Deployment
  never has more pods down than the policy's bound in pods all the same, and
  the default policy means what its comments say of replicas and rollout.
- `PercentagesCompareAsDeclared`: rounding turns no percentage that is within
  the policy's percentages into an error.
- `NothingAllowedUninitialized`, `NeverAllowedUnjudged`,
  `BrokenSelectorFailsClosed`: what holds of the shipped build despite the
  shared variable. A Deployment that some policy selected throughout the call
  is allowed only after some policy of the namespace accepted it, if not the
  right one.
- `ContractSpec`: every answer is one that the contract of the build gives, from
  the policies stored at one moment of the call, however List orders them. With
  a variable per iteration (`admission_contract`) that is the documented choice;
  with the shared one (`admission_hook`) a Deployment is refused only over
  errors against a policy of its namespace, only when some policy selects it,
  and a selector that cannot be read stops the call.
- `HighestWeightWins`: the documented choice by itself. It holds with a variable
  per iteration, and with the shared one when no namespace has two policies.
- `EveryCallEnds`: a call ends in an answer, a panic or a broken connection.
- `ExaminedAreAdhering`: a Deployment that a covered request puts into the
  cluster adheres to the policies in force, unless these changed meanwhile;
  outages, late answers and stale writes do not change that. `AdheresNow` is
  `types.go`'s rule, so for the shipped build this is about namespaces with one
  policy.
- `WebhookCanComeBack`: whoever writes the webhook's own Deployment is turned
  away only for a stale write, for its namespace is exempt; an outage therefore
  can end. `EveryRequestEnds`: every request is decided.

- `OneInformerPerType`, `StartedOnce`, `StartCoversRegistered`,
  `WaitCoversStarted`: the factory's promises, over calls that overlap. An
  informer registered while `Start` runs elsewhere may be missed, one
  registered before the call may not; a wait may say FALSE only when its
  channel is closed.
- `RegistrationEnds`, `WaitEnds`: nobody keeps the lock while it waits. A wait
  ends unless one of its informers was stopped before its cache was full: such
  an informer is marked as started and never run again.
- `CacheFollowsServer`: when everything has arrived, the indexer holds exactly
  the server's policies of the namespace and selection, with their contents.
- `CopiesArePrivate`: what the indexer or a caller holds changes by no write
  but the holder's own. Both properties leave out the bounds that a copy shares
  with its original and callers write to (`LeakyFields`): these do change in the
  cache, and nothing else does. Both are violated when `LeakyFields` is empty.
- `ApiSpec`, of the typed client: a call takes effect at most once, however
  often its request is sent, and on nothing outside of its namespace, name and
  list options; what it returns is what the API server held at that moment, and
  an error of the API server means that nothing was done. A broken connection,
  or a `DeleteCollection` that failed half way, leaves it open: whoever gets
  such an error has to look.
- `ApiSpec`, of the fake: the same specification, in the methods a reactor
  handles. A test that passes on the fake has seen nothing the typed client
  does not promise (it may have seen less: the fake knows no conflicts).
- `ActionsReplay`: the recorded actions, applied in their order to what the
  clientset was given, lead to what the tracker holds. Tests that assert on
  `Actions()` rely on it, and it fails as soon as two accessors hand out
  different copies of the Fake.
- `WatchersMissNothing`: a watcher that has taken in what is in its channel
  knows the policies of the namespace it asked for, and has been told of
  nothing else.
- `ScheduleSuffices`: with days 1 and 25 of each month no bundle expires before
  the next copy, and the webhook configuration is never without the cluster's
  CA for more than 24 days. `BundlesAreFilled`: what is emptied is filled again.
- `UpdatesReplaceWhatWasRead`: what an `Update` replaces is the policy the
  caller received, through changes, deletions and re-creations by others.
- `BurstIsShared`: the policy client and the discovery client of one
  `NewForConfig` stay within the config's QPS and Burst together. With
  `NewForConfigOrDie`, or with the default QPS of 0, they do not share a
  limiter (`Limiter`), and nothing of the kind is claimed.
- `EveryCallReturns`: no call waits for ever for a token or for its retries.

### Disagreements with the repository's own statements

1. `types.go:13-15`, the highest weight validates: the shipped build validates
   by the last policy of the list once any matches (`highest_weight`), and that
   policy may not even select the Deployment.
2. `types.go:63-65`, `rollingUpdate` is optional: without it the validators
   panic (`optional_block`).
3. `types.go:88-90`, non-adhering Deployments are prevented from being added:
   the rules name only version v1beta1 and the resource `deployments`, so a
   write as apps/v1 or through the scale subresource is not examined
   (`non_adhering`). What the rules cover is kept out (`ExaminedAreAdhering`).

Others can be read off the definitions and have no run of their own:

- `zz_generated.deepcopy.go:43`, a deep copy: lines 198-201 and 141-146 copy
  the pointers of the rolling-update bounds, and do not even name
  `MaxUnavailable`; the file looks older than the types. A write to a copy's
  bound changes the cache (`SharedFields`; `SharedBoundsShow` proves it), so
  `CopiesArePrivate` and `CacheFollowsServer` make an exception of that bound.
- The required requests of `defaults/high_availability.yaml:34-37` decode to
  nothing, for no type has such a field (`DefaultPolicy`, whose resources are
  empty), so a container without requests is accepted.
- With `ReplicaCountErrors`, "the replicas validation takes care of that"
  (`deployment_validation.go:62-63`) holds only when the policy sets a minimum;
  the API server defaults the count, so this needs a Deployment that has not
  been defaulted.
- `maxUnavailable`, rounded up, lets 1 pod of 3 be down for 25%
  (`types.go:79-82`); measured in rounded pods the bound holds
  (`RolloutStaysWithinPolicy`).
- "Patch applies the patch" and "DeleteCollection deletes a collection of
  objects" (`fake_highavailabilitypolicy.go:125` and `117`): no reactor handles
  these verbs, so the fake records them, succeeds and changes nothing
  (`Handled`). `Tracked` leaves them out of `ApiSpec`.
- `with-rbac.yaml:52`: no role there lets the webhook's account list
  highavailabilitypolicies, so where RBAC is enforced, `List` fails in every
  call (`ListFails`) unless the account is given more elsewhere.
- `with-rbac.yaml:107`: a pod mounts its certificate, and reads it once; a pod
  that outlives the certificate it has read is not replaced by anything in the
  files. `ScheduleSuffices` is about pods that start.

## 4. Fairness

`admission_hook` assumes fairness of the calls: `WF_vars(Step(r))` and
`WF_vars(Complete(r))` for every call. `Step` is what the goroutine of a call
does next, and Go's scheduler keeps running a goroutine that can run. It
includes `ListPolicies` and `ListFails`, which assumes that the API server
answers `List` or the connection breaks: the client sets no timeout
(`clientset.go:69-87`), and without that assumption a call may wait for ever.
`Complete` is net/http, which writes the response or recovers the panic.
`Step(r)` stays enabled until the call moves, for its guards read `crdClient`
only to tell which branch is next, and no other actor leaves it without one.
Nothing is assumed of `Initialize`, of users or of the process.

`cluster` and `non_adhering` assume `WF_vars(Handle(r))` for every request: the
API server goes on with what it has accepted, and its webhook client has a
timeout, so a request is decided even when the webhook never answers. Nothing
is assumed of the webhook, of users or of the Deployment controller.

`informer_factory` assumes weak fairness of `Step(c)`, a goroutine that can run
does, and strong fairness of `LockFactory(c)`: other goroutines may take the lock in
between, but `sync.Mutex` hands itself to a goroutine that has waited for a
millisecond, so one that is free again and again is had in the end.
`InformersRun` assumes that an informer fills its cache as long as the channel
it runs with is open, that is, that the API server answers its lists. Nothing is
assumed of the callers: they need not close a channel or call anything.

`policy_client` assumes that the limiter's bucket fills as time passes
(`Refill`) and strong fairness of `Send(c)`: the discovery client and other
callers may take the next token, but the limiter hands out tokens in the order
of its callers' reservations. As above, a request is answered or its connection
breaks, and a goroutine with an answer returns. The API server may be too busy
every time; calls return because client-go counts its retries.

`installation` assumes that cert-manager and the scheduler get to what is due
(`WF` of `IssueCa`, `IssueTls` and `ScheduleJob`), that days go by (`SF` of
`NextDay`, which is disabled while a day's work is pending), and that not all of
the jobs started on a day fail: the schedule `* * */24 * *` starts one every
minute of its days, so this is `SF` of the scheduled job's two updates. Nothing
is assumed of the first job, which may fail for good, nor of the operator, who
may apply the files again at any time. `fake_client` states safety alone.

## 5. Proofs

All theorems hold for every value of the constants that satisfies the named
assumptions of the modules: keys are namespaces and names (a finite set of
them, for the hook), policies and Deployments are values of the types in
`PolicyTypes`, `LoopVarPerIteration` is Boolean, the webhook's Deployment is in
its namespace, and writes are well-formed: a creation has no old object, and a
scale request changes the replicas alone. Callers are any set, in
`PolicyClient` a finite one, their methods and scopes whatever the clients
have; limits are natural numbers, and a certificate is renewed before it
expires.

`ValidateDeploymentProofs`: `TypeCorrect` and `SummaryCorrect`. The inductive
invariant gives, for each `pc`, the errors that `el` must hold then; while the
resource loop runs, these are the errors before it and those of the containers
visited, `dpl.containers \ unvisited`. With `SummaryCorrect`, what remains to be
shown of the validators is about the set `DeploymentErrors` alone.

`AcceptanceIsAdherence`, in the same module: each validator is silent exactly
when its part of `Adheres` holds; for the bounds that takes the two cases in
which they are not read (no replica count, another strategy type).

`RolloutsStayWithinPolicy`, `DefaultPolicyHolds` and
`PercentagesCompare`, in the same module, for every replica count and all values. The arithmetic is
in `Hundredths`, `ProductMonotonic` and `CeilMonotonic` (rounding is monotonic
and rounding down comes to no more than rounding up) and in
`DownWithinRoundedUp` (not even with the controller's fallback to one pod).
`PercentagesCompare` assumes `CountsAreNatural`, as the API server refuses
negative counts before it calls the webhook.

`AdmissionHookProofs`: `TypeCorrect`, then `Invariance` of the strengthening
`IInv`, from which `UninitializedAllowsNothing`, `AllowedAreJudged`,
`DenialsAreExplained`, `BrokenSelectorsFailClosed` and `DocumentedChoice`
follow. The invariants are not inductive as they stand: whether an answer is
right depends on what the loop has seen. `IInv` says that a call's list is what
the store listed once, so that it contains every policy still in `inForce`;
that `hap` is an iteration whose item selects the Deployment; that every item
passed so far that selects it, or cannot be read, has been outweighed, with a
variable per iteration by `hap` and with a shared one by nothing unless it
was the last one; and that an answer follows from a loop that has ended.
`DocumentedChoice` assumes `LoopVarPerIteration \/ LonePolicies`: with at most
one policy in a namespace, a list has at most one item and the shared variable
nowhere else to point (`LoneListing`).

What decides in each build is proved from the same invariant. `ShippedChoice`,
under `~LoopVarPerIteration`: a Deployment that some listed policy selects is
judged by the item `List` returned last, whether or not that one selects it
(`LastListedDecides`). `ChoiceIsDeterminate`, under `LoopVarPerIteration`: two
calls about one Deployment that have found the same policies decide alike in
whatever order they were listed, unless two of equal weight select it
(`OrderDoesNotMatter`, which TLC refutes for the shared variable).
`PanicsAreExplained`, for both: a call panics only when `crdClient` is not set
or when a listed policy makes `ValidateDeployment` dereference nil, so that
after `Initialize` no call panics when the optional blocks are there
(`InitializedDoesNotPanic`, which assumes `BlocksPresent`: the API server fills
in a Deployment's blocks, a policy's may be missing).

`LoopIsNotStuck` and `CallsProgress` are the safety part of `EveryCallEnds`: a
call in the loop always has a step whose guards are true (`LoopGoesOn`; after
the last item `hap` is empty or points to a judge), and each step that changes
a call under way takes it one item further in an unchanged list or ends it
(`Progress`). What is left to the fairness is that these steps are taken.

`HookImplementsContract`, in the same module: that `Spec` implements
`ContractSpec`, with either meaning of the loop variable and without any
condition on the policies. The refinement mapping takes the phases of a call to `received`, `observed`, `answered` and
`failed`, and the list to the set of its items; loop steps are stutters, and
the steps that answer use `IInv`. The lemmas `SameSelection` and `SameVerdict`
say that the contract's copies of the shared operators are the hook's.

`ClusterProofs`: `TypeCorrect`, `CoveredWritesAdhere`, `CoveredWritesAreJudged`
and `OutageCanEnd`, for any number of requests. The inductive invariant ties a
pending request to the call made for it: the call is about the request's object,
and as long as no policy changes, what it has observed is in force and what it
has allowed is what the contract of the build allows (`PermittedNow`). A slot is
reused only when its call has ended, so the late answer of one request cannot
decide the next. `CoveredWritesAdhere` needs `LoopVarPerIteration \/
LonePolicies` to go from there to `types.go`'s rule (`LoneJudge`): with two
policies in a namespace the shipped build breaks it. `CoveredWritesAreJudged` is
what remains then, for any policies: while no policy changes, a Deployment that
some policy selects is written only when some readable policy of its namespace
finds no error in it, if not the right one.

`UncoveredAreWritten` and `EveryWriteIsDecided`, in the same module, are what
admission promises both ways: a request no rule covers is written unless it is
stale, and whatever is written was either uncovered or allowed in time.

`SharedInformerFactoryProofs`: `TypeCorrect`, `OneInformer`, `NoSecondRun`,
`StartIsComplete` and `WaitIsComplete`. The inductive invariant says that a
caller holds the mutex exactly between its Lock and its Unlock (`LockInv`), so
that the type a caller is about to insert is still unregistered; that the
started informers are registered and have been run once, the others never
(`RunInv`); and of each call that what it is due to cover is either done or
still in its `todo` (`CallInv`). The two action theorems need `HowCallsEnd`: a
call that starts or waits ends by `StartReturns` or `WaitReturns` only.

`HolderIsNotStuck` and `LockIsGivenUp` are the safety part of
`RegistrationEnds`. `ArgsInv`, inductive on top of `IInv`, says that a call has
the arguments its steps read, so that the holder of the lock always finds the
guards of one of its steps true; and each of its steps unlocks, goes from
making an informer to inserting it, or leaves fewer informers to start. What
is left to the fairness is that the holder is scheduled and the lock is handed
on. ENABLED is beyond the prover, so the guards are written out in
`HolderGoesOn`.

`PolicyClientProofs`: `TypeCorrect`, `SharedBurst`, `UpdatesReplace` and
`ClientImplementsApi`. The inductive invariant says what the arguments of a
call have to do with each other and with the policy its caller has received
(`OpInv`), that a call is in progress exactly when it has arguments and
answered exactly when it has an answer (`PhaseInv`), that a received policy
with the version of the stored one has its contents too (`Fits`, `ReplyInv`,
for which `StoreInv` bounds the stored versions by `revision`), that the
version bound leaves room for every pending write (`VersionBound`), and that
the shared limiter has what `budget` says (`BudgetInv`). Under the refinement
mapping, which forgets versions (`PlainOp`, `PlainReply`), serving a request is
`Perform`, giving up on a busy server a rejection, losing a request or an
answer `Lose`; tokens and retries are stutters. `AimedMaps` says that a request
reaches the policies that `PolicyApi` lets its method address.

`PolicyCacheProofs`: `TypeCorrect`, `CacheIsFaithful` and `CopiesKept`, whichever
fields of their copies callers write to. `PrivateInv` says that the cells a copy
allocates anew are reached from nothing else, so a write to one of them is seen
by nobody; a write to a shared cell reaches no field but its own, for a cell is
named after the field it was allocated for (`Pointers`); and a step which is no
write leaves every cell that stays reachable alone (`Untouched`). That leaves
the three bounds, and `SharedBoundsShow` proves that they do leak: a caller who
writes to such a bound of its copy changes every policy of the indexer that has
the pointer.

`FakeClientProofs`: `TypeCorrect` and `FakeImplementsApi`. The inductive
invariant types the records and channels, bounds the channels, ties a call's
arguments to its method (`Wellformed`), and says that whoever holds the lock
has a call without an answer, and that only the clientset's Fake is ever held
(`CallInv`). `NamedApplied` and `CollectiveApplied` say what an action does to
the tracker; under the mapping, `React` is `Perform` for the methods a reactor
handles, and everything else but calls and returns is a stutter.

`RecordReplays` and `WatchersAreTold`, in the same module, for records and
channels of any length: the policies in the tracker are what the recorded
actions leave when they are replayed, and a watcher that takes in its events
knows the policies of its namespace. Both fold over a sequence that grows at
its end. The induction schemes of the library take an operator, which the
provers cannot instantiate; the module uses a least counterexample instead
(`WFMin` on the naturals) to show that `MapThenFoldSet`, which defines
`FoldLeft`, folds a sequence front to back, and from it that appending an
element applies the operator once more. `PanicTakesMany` counts
(`EventsInv`): a watcher has no more events than the clientset has recorded
actions, so a test that panics on a full channel has recorded more actions
than `Capacity`.

`InstallationProofs`: `TypeCorrect` and `ScheduleIsOftenEnough`, that
`ScheduleSuffices` holds for every step of the schedule that is shorter than
the time by which cert-manager renews ahead (`CopiedInTime`), for months of any
lengths. The invariant counts the days since the schedule's last day (`Since`):
that many days a bundle has aged beyond what cert-manager leaves a certificate,
and no more than that many the webhook configuration has been without.
`NextRemainder` and `NextDayKeeps` show that a new month never makes the
distance between two days of the schedule longer than `Step`.

TLC checks the invariants and refinements on the instances above first. Only
model-checked are the liveness properties `EveryCallEnds`, `EveryCallReturns`,
`EveryRequestEnds`, `RegistrationEnds`, `WaitEnds` and `BundlesAreFilled`:
liveness under fairness is beyond the prover. Every other property of the
passing runs is proved.

## 6. Abstractions

- Metadata other than namespace, name and labels, and the messages of errors
  and of responses; the response is its code.
- Quantities of resources: the code only looks at their presence.
- Container names are distinct, as the API server requires.
- A data race on `crdClient` reads nil, a half-written interface or the client;
  the first two panic alike, so it is one Boolean.
- `List` is one step: one consistent read, or an error. The decoding of a
  stored policy that does not decode is such an error.
- In `AdmissionHook` a call ends with `Complete`; what the API server does with
  an answer, a 500 or a broken connection is in `Cluster`.
- `reachable` stands for everything the API server needs in order to call the
  webhook: a pod that serves, the Service, the APIService and a CA bundle that
  verifies its certificate. They may come and go at any time.
- The cluster identifies a Deployment by its value; an update names the object
  it replaces, and is a conflict when that is gone (resourceVersion).
- Groups are left out of the rules: all three the configuration names have the
  same effect, and versions already tell covered requests from others.

- The informers' event handlers and resyncs: the policy informer has none of
  its own, and a resync repeats what the indexer already holds.
- `PolicyCache` delivers changes of one policy in order, and changes of
  different policies in any order, as if each had a watch of its own. A list
  that replaces lost events does so for every key at once.
- The resourceVersion from which a watch goes on is the position in `queue`.
- The API server of `PolicyClient` serves a request in one step, and its
  policies have one label. Options and preconditions of a deletion, field
  selectors and subresources of a patch are left out. `config.RateLimiter` is
  nil, as for every config of this repository.
- The effect of each action on the tracker and the notice to its watchers are
  one step: the tracker has a lock of its own. `List` filters by labels after
  the lock is released, from copies; `FakeClient` does it in `React`. The
  discovery client's answers are left out, its Fake is not. Watchers stop, or
  take their events, at any time; reactors that a test adds are left out.
- cert-manager keeps the CA's key when it renews it, and renews within a day;
  both jobs give the helper's two updates in the order of its configuration.
  An empty `caBundle` may work on clusters whose API server trusts the
  certificate by other means; `ScheduleSuffices` and `BundlesAreFilled` are
  about the others.
- Callers of the lister who write to a policy without copying it break the
  library's rule, and are not modelled. Those who copy it first may write to any
  field of the copy, the shared ones included (`ModifiedFields`).

## 7. Plan

Done, in this order: `DeploymentValidation`, `ValidateDeployment`,
`PolicyStore`, `AdmissionHook`, `AdmissionContract`, `Cluster`,
`SharedInformerFactory` and their proofs; `DeepCopy`, `PolicyCache`,
`PolicyApi`, `PolicyClient`, `FakeClient`, `Installation` and theirs.

Proved since: the two replays of the fake clientset, what decides in each
build of the hook, that the hook implements the contract of either build, what
gets past admission with any policies, what a write to a deep copy changes, that
calls of the hook come to an end and that the factory's lock is not kept, both
up to fairness.

Left to do, the most useful first:

1. `Installation` as a refinement of what `Cluster` assumes of `reachable`,
   with pods that keep the certificate they have read.
2. The client's `Watch` in `PolicyClient`, so far only its stream in
   `PolicyCache`, and the rate limiter's part in it.
3. Event handlers of informers, when other programs that import them have any
   whose order matters.
4. The safety part of the other liveness properties, as for the hook's calls
   and the factory's lock: that a call in progress always has a step to take,
   and a measure its steps lower.

Not modelled, and left out for good: scheme registration (three `register.go`
files, tables of constants filled in init functions), the build files, TLS and
flags of generic-admission-server (not in this repository). The webhook process
and the Kubernetes libraries are modelled partly: as far as the code of this
repository, or its manifests, depends on them.
