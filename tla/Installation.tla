---------------------------- MODULE Installation ----------------------------
(***************************************************************************)
(* The installation that docs/kube describes: the certificates by which    *)
(* the API server trusts the webhook, and the jobs that copy CA bundles to *)
(* where the API server looks for them.                                    *)
(*                                                                         *)
(* A certificate is the number of days it is still valid.  cert-manager    *)
(* keeps the key when it renews one, so that a CA bundle verifies what has *)
(* been signed since, until the bundle itself expires.  Within a day,      *)
(* cert-manager gets its work done, and so does one of the scheduled jobs. *)
(***************************************************************************)
EXTENDS Optional, Naturals

CONSTANTS
  Step,           \* of the schedule's day of the month: 24
  MonthLengths,   \* the lengths months may have
  Lifetime,       \* days a certificate is valid when it is issued
  RenewBefore     \* days before its end at which cert-manager renews it

ASSUME StepAssumption == Step \in Nat \ {0}
ASSUME MonthAssumption == MonthLengths \subseteq Nat \ {0}
ASSUME LifetimeAssumption == Lifetime \in Nat /\ RenewBefore \in 1..(Lifetime - 1)

Validity == 0..Lifetime

VARIABLES
  day, length,  \* the day of the month, and how many it has
  ca,           \* the secret webhook-ca
  tls,          \* the secret webhook-tls, signed by the CA
  bundle,       \* the caBundle of the APIService
  caBundle,     \* the caBundle of the webhook configuration
  todo,         \* what the job and the scheduled job still have to update
  synced,       \* whether a scheduled job has ended today
  waiting       \* history: the days the webhook configuration has been without

clock == <<day, length>>
certificates == <<ca, tls>>
bundles == <<bundle, caBundle, waiting>>
jobs == <<todo, synced>>
vars == <<clock, certificates, bundles, jobs>>

-----------------------------------------------------------------------------
(* The manifests.                                                          *)

(* Mutant: the schedule names a single day.                                *)
SyncDaysOnce(n) == {d \in 1..n : d = Step}

(* schedule "* * */24 * *": every minute of these days.                    *)
SyncDays(n) == {d \in 1..n : (d - 1) % Step = 0}

(* The configuration of the helper: the resources it updates, and whose CA *)
(* it gives to each of them.                                               *)
Targets == {"apiservices", "validatingwebhookconfigurations"}

Target(resource) ==
  CASE resource = "apiservices"                     -> "v1alpha1.admission.barbossa.sphc.io"
    [] resource = "validatingwebhookconfigurations" -> "barbossa-webhook"

(* Mutant: both are given the CA of the webhook.                           *)
SourceOfBoth(resource) == "webhook-ca"

Source(resource) == IF resource = "apiservices" THEN "webhook-ca" ELSE "cluster"

Rule(resources, verbs, names) == [resources |-> resources, verbs |-> verbs, names |-> names]

(* Mutant: the role forgets the update of one resource.                    *)
SyncRoleReadsOnly ==
  {Rule({"secrets"}, {"get"}, {"webhook-ca"}),
   Rule({"validatingwebhookconfigurations", "mutatingwebhookconfigurations"}, {"get"}, {"barbossa-webhook"}),
   Rule({"apiservices"}, {"get", "update"}, {"v1alpha1.admission.barbossa.sphc.io"})}

(* The role that the account of the helper is bound to.                    *)
SyncRole ==
  {Rule({"secrets"}, {"get"}, {"webhook-ca"}),
   Rule({"validatingwebhookconfigurations", "mutatingwebhookconfigurations"}, {"get", "update"},
        {"barbossa-webhook"}),
   Rule({"apiservices"}, {"get", "update"}, {"v1alpha1.admission.barbossa.sphc.io"})}

May(verb, resource, name) ==
  \E r \in SyncRole : verb \in r.verbs /\ resource \in r.resources /\ name \in r.names

-----------------------------------------------------------------------------

(* The first apply: the objects are there, nothing has been issued yet.    *)
Init ==
  /\ length \in MonthLengths /\ day \in 1..length
  /\ ca = {} /\ tls = {}
  /\ bundle = {} /\ caBundle = "" /\ waiting = 0
  /\ todo = [job |-> Targets, cron |-> {}]
  /\ synced = FALSE

Due(certificate) == \A left \in certificate : left <= RenewBefore

IssueCa ==
  /\ Due(ca)
  /\ ca' = {Lifetime}
  /\ UNCHANGED <<clock, tls, bundles, jobs>>

(* The issuer webhook-ca needs its secret. A pod that starts waits for the *)
(* secret with the leaf certificate, and reads it once.                    *)
IssueTls ==
  /\ ca # {} /\ Due(tls)
  /\ tls' = {Lifetime}
  /\ UNCHANGED <<clock, ca, bundles, jobs>>

(* The helper updates one resource; a job starts over until it has done    *)
(* both, and the webhook configuration comes last.                         *)
Update(run, resource) ==
  /\ resource \in todo[run]
  /\ May("get", resource, Target(resource)) /\ May("update", resource, Target(resource))
  /\ \/ /\ resource = "apiservices"
        /\ ca # {} /\ May("get", "secrets", Source(resource))
        /\ bundle' = ca
        /\ UNCHANGED <<caBundle, waiting>>
     \/ /\ resource = "validatingwebhookconfigurations"
        /\ "apiservices" \notin todo[run]
        /\ caBundle' = Source(resource) /\ waiting' = 0
        /\ UNCHANGED bundle
  /\ todo' = [todo EXCEPT ![run] = @ \ {resource}]
  /\ synced' = (synced \/ (run = "cron" /\ todo'.cron = {}))
  /\ UNCHANGED <<clock, certificates>>

(* A job reaches its backoff limit.                                        *)
JobFails(run) ==
  /\ todo[run] # {}
  /\ todo' = [todo EXCEPT ![run] = {}]
  /\ UNCHANGED <<clock, certificates, bundles, synced>>

ScheduleJob ==
  /\ day \in SyncDays(length) /\ todo.cron = {}
  /\ todo' = [todo EXCEPT !.cron = Targets]
  /\ UNCHANGED <<clock, certificates, bundles, synced>>

(* The files are applied again. The manifest of the webhook configuration  *)
(* has an empty caBundle, that of the APIService none; the job has ended   *)
(* and is not run again.                                                   *)
Apply ==
  /\ caBundle # ""
  /\ caBundle' = ""
  /\ UNCHANGED <<clock, certificates, bundle, waiting, jobs>>

Older(certificate) == {IF left = 0 THEN 0 ELSE left - 1 : left \in certificate}

NextDay ==
  /\ ~Due(ca) /\ ~Due(tls)
  /\ todo.cron = {} /\ (day \in SyncDays(length) => synced)
  /\ IF day < length THEN day' = day + 1 /\ UNCHANGED length
                     ELSE day' = 1 /\ length' \in MonthLengths
  /\ ca' = Older(ca) /\ tls' = Older(tls) /\ bundle' = Older(bundle)
  /\ waiting' = IF caBundle # "" THEN 0 ELSE waiting + 1
  /\ synced' = FALSE
  /\ UNCHANGED <<caBundle, todo>>

Next ==
  \/ IssueCa \/ IssueTls
  \/ \E run \in {"job", "cron"} : JobFails(run) \/ \E resource \in Targets : Update(run, resource)
  \/ ScheduleJob \/ Apply \/ NextDay

Spec == Init /\ [][Next]_vars

(* Days go by, what is due on a day is done, and of the many jobs that are *)
(* scheduled on a day not all fail.                                        *)
Fairness ==
  /\ WF_vars(IssueCa) /\ WF_vars(IssueTls)
  /\ SF_vars(NextDay)
  /\ WF_vars(ScheduleJob)
  /\ \A resource \in Targets : SF_vars(Update("cron", resource))

FairSpec == Spec /\ Fairness

-----------------------------------------------------------------------------

TypeOK ==
  /\ length \in MonthLengths /\ day \in 1..length
  /\ ca \in Opt(Validity) /\ tls \in Opt(Validity) /\ bundle \in Opt(Validity)
  /\ caBundle \in {"", "cluster"} /\ synced \in BOOLEAN
  /\ todo \in [job : SUBSET Targets, cron : SUBSET Targets]
  /\ waiting \in Nat

(* Days 1 and 25 are often enough. The API server can always verify the    *)
(* certificate of a pod that starts now by the bundle it has been given:   *)
(* the CA is renewed early enough for the next copy of it, in months of    *)
(* any length. And however often the files are applied again, and though   *)
(* the first job may have failed, the webhook configuration is without the *)
(* cluster's CA no longer than the schedule's step.                        *)
ScheduleSuffices ==
  /\ bundle # {} => \A certificate \in {bundle, tls} : \A left \in certificate : left > 0
  /\ waiting <= Step

(* However often the files are applied again and jobs fail, both bundles   *)
(* are in place again some time later, with what the role of the helper    *)
(* lets it do.                                                             *)
BundlesAreFilled == caBundle = "" ~> (caBundle # "" /\ bundle # {})

=============================================================================
