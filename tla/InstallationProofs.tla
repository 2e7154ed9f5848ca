------------------------- MODULE InstallationProofs -------------------------
(***************************************************************************)
(* Proofs about Installation, for any schedule, months and lifetimes: type *)
(* correctness, and that the schedule suffices when its step is shorter    *)
(* than the time by which cert-manager renews ahead.                       *)
(***************************************************************************)
EXTENDS Installation, Integers, TLAPS

(* The CA is copied at least once while cert-manager has renewed it and    *)
(* the old one is still valid.                                             *)
CopiedInTime == Step < RenewBefore

(* Days since the last day of the schedule, which is not over before the   *)
(* scheduled job has ended.                                                *)
Since ==
  IF synced THEN 0 ELSE IF day \in SyncDays(length) THEN Step ELSE (day - 1) % Step

CertificatesInv == \A certificate \in {ca, tls} : \A left \in certificate : left >= RenewBefore

BundleInv == \A left \in bundle : left + Since >= RenewBefore

(* The scheduled job runs on its days only, and copies the CA first.       *)
CronInv ==
  /\ synced \/ todo.cron # {} => day \in SyncDays(length)
  /\ "apiservices" \in todo.cron => todo.cron = Targets
  /\ synced \/ (todo.cron # {} /\ "apiservices" \notin todo.cron)
       => \A left \in bundle : left >= RenewBefore

IInv == CertificatesInv /\ BundleInv /\ CronInv /\ waiting <= Since

-----------------------------------------------------------------------------
(* The days of the schedule.                                               *)

LEMMA OptProperties ==
  ASSUME NEW S
  PROVE  /\ {} \in Opt(S)
         /\ \A x \in S : {x} \in Opt(S)
         /\ \A o \in Opt(S) : o \subseteq S
BY DEF Opt

(* Division with remainder: 1 more is no multiple, or leaves 1 more.       *)
LEMMA NextRemainder ==
  ASSUME NEW k \in Nat \ {0}, NEW n \in Nat
  PROVE  /\ n % k \in 0..(k - 1)
         /\ (n + 1) % k = 0 \/ (n + 1) % k = (n % k) + 1
<1> DEFINE p == n \div k
           r == n % k
           q == (n + 1) \div k
           s == (n + 1) % k
<1>1. ASSUME NEW m \in Nat
      PROVE  m = (k * (m \div k)) + (m % k) /\ m \div k \in Nat /\ m % k \in 0..(k - 1)
  BY SMT
<1>2. p \in Nat /\ q \in Nat /\ r \in 0..(k - 1) /\ s \in 0..(k - 1)
  BY <1>1
<1>3. (k * p) + r + 1 = (k * q) + s
  BY <1>1
<1>4. ASSUME NEW d \in Nat \ {0}
      PROVE  k * d >= k
  BY SMT
<1> HIDE DEF p, r, q, s
<1>5. (k * p) - (k * q) = k * (p - q) /\ (k * q) - (k * p) = k * (q - p)
  BY <1>2, SMT
<1>6. CASE p = q
  BY <1>2, <1>3, <1>6 DEF r, s
<1>7. CASE q > p
  <2>1. k * (q - p) >= k
    BY <1>2, <1>4, <1>7
  <2>2. s = 0
    BY <2>1, <1>2, <1>3, <1>5
  <2> QED  BY <2>2, <1>2 DEF r, s
<1>8. CASE p > q
  <2>1. k * (p - q) >= k
    BY <1>2, <1>4, <1>8
  <2> QED  BY <2>1, <1>2, <1>3, <1>5
<1> QED  BY <1>2, <1>6, <1>7, <1>8

LEMMA Parameters ==
  Step \in Nat \ {0} /\ RenewBefore \in Nat \ {0} /\ Lifetime \in Nat /\ RenewBefore < Lifetime
BY StepAssumption, LifetimeAssumption

LEMMA Numbers ==
  /\ Lifetime \in Validity
  /\ \A m \in MonthLengths : m \in Nat \ {0} /\ \A d \in 1..m : d \in Nat \ {0}
  /\ \A certificate \in Opt(Validity) : \A left \in certificate : left \in Nat
<1>1. \A m \in MonthLengths : m \in Nat \ {0} /\ \A d \in 1..m : d \in Nat \ {0}
  BY MonthAssumption
<1>2. \A left \in Validity : left \in Nat
  BY Parameters DEF Validity
<1>3. Lifetime \in Validity
  BY Parameters DEF Validity
<1>4. \A certificate \in Opt(Validity) : \A left \in certificate : left \in Nat
  BY <1>2 DEF Opt
<1> QED  BY <1>1, <1>3, <1>4

LEMMA Sums ==
  /\ \A d \in Nat \ {0} : d - 1 \in Nat
  /\ \A m, n, s, t \in Nat : m + s >= RenewBefore /\ m <= n + 1 /\ s + 1 <= t => n + t >= RenewBefore
  /\ \A n, t \in Nat : n >= RenewBefore => n + t >= RenewBefore
BY Parameters

LEMMA TypeFacts ==
  ASSUME TypeOK
  PROVE  /\ length \in MonthLengths /\ day \in 1..length /\ waiting \in Nat
         /\ ca \in Opt(Validity) /\ tls \in Opt(Validity) /\ bundle \in Opt(Validity)
         /\ synced \in BOOLEAN
BY DEF TypeOK

LEMMA SinceProperties ==
  ASSUME TypeOK
  PROVE  /\ day \in Nat \ {0} /\ (day - 1) % Step \in 0..(Step - 1)
         /\ day \in SyncDays(length) <=> (day - 1) % Step = 0
         /\ Since \in 0..Step
<1>1. day \in Nat \ {0} /\ day \in 1..length
  BY TypeFacts, Numbers, Parameters
<1>2. (day - 1) % Step \in 0..(Step - 1)
  BY <1>1, Parameters, NextRemainder
<1> QED  BY <1>1, <1>2, Parameters DEF Since, SyncDays

LEMMA InitInv == Init => TypeOK /\ IInv
<1> SUFFICES ASSUME Init
             PROVE  TypeOK /\ IInv
  OBVIOUS
<1>1. TypeOK
  BY OptProperties DEF Init, TypeOK
<1>2. Since >= 0
  BY <1>1, SinceProperties, Parameters
<1>3. waiting <= Since
  BY <1>2, <1>1, SinceProperties, Parameters DEF Init
<1> QED
  BY <1>1, <1>3 DEF Init, IInv, CertificatesInv, BundleInv, CronInv

-----------------------------------------------------------------------------
(* The steps.                                                              *)

LEMMA IssueKeeps ==
  ASSUME TypeOK, IInv, IssueCa \/ IssueTls
  PROVE  TypeOK' /\ IInv'
<1> USE DEF clock, certificates, bundles, jobs
<1>1. Lifetime \in Validity /\ {Lifetime} \in Opt(Validity) /\ Lifetime >= RenewBefore
  BY Numbers, Parameters, OptProperties
<1>2. TypeOK'
  BY <1>1 DEF TypeOK, IssueCa, IssueTls
<1>3. UNCHANGED <<clock, bundles, jobs>>
  BY DEF IssueCa, IssueTls
<1>4. CertificatesInv'
  BY <1>1 DEF IInv, CertificatesInv, IssueCa, IssueTls
<1>5. Since' = Since
  BY <1>3 DEF Since
<1> QED
  BY <1>2, <1>3, <1>4, <1>5 DEF IInv, BundleInv, CronInv

LEMMA UpdateKeeps ==
  ASSUME TypeOK, IInv, NEW run \in {"job", "cron"}, NEW resource \in Targets, Update(run, resource)
  PROVE  TypeOK' /\ IInv'
<1> USE DEF clock, certificates, bundles, jobs
<1>1. UNCHANGED <<clock, certificates>> /\ resource \in todo[run]
      /\ todo' = [todo EXCEPT ![run] = @ \ {resource}]
      /\ synced' = (synced \/ (run = "cron" /\ todo'.cron = {}))
  BY DEF Update
<1>2. \/ /\ resource = "apiservices" /\ bundle' = ca
         /\ UNCHANGED <<caBundle, waiting>>
      \/ /\ resource = "validatingwebhookconfigurations" /\ "apiservices" \notin todo[run]
         /\ caBundle' = Source(resource) /\ waiting' = 0 /\ UNCHANGED bundle
  BY DEF Update
<1>3. TypeOK'
  <2>1. ca \in Opt(Validity) /\ bundle' \in Opt(Validity)
    BY <1>2 DEF TypeOK
  <2>2. waiting' \in Nat
    BY <1>2, TypeFacts
  <2>3. todo' \in [job : SUBSET Targets, cron : SUBSET Targets]
    BY <1>1 DEF TypeOK
  <2>4. synced' \in BOOLEAN
    BY <1>1 DEF TypeOK
  <2>5. caBundle' \in {"", "cluster"}
    BY <1>2 DEF TypeOK, Source
  <2> QED  BY <1>1, <2>1, <2>2, <2>3, <2>4, <2>5 DEF TypeOK
<1>4. /\ run = "cron" => todo'.cron = todo.cron \ {resource}
      /\ run = "job" => todo'.cron = todo.cron
  BY <1>1 DEF TypeOK
<1>5. \A left \in ca : left \in Nat /\ left >= RenewBefore
  BY TypeFacts, Numbers, Parameters DEF IInv, CertificatesInv
<1>6. /\ synced' \/ todo'.cron # {} => day' \in SyncDays(length')
      /\ "apiservices" \in todo'.cron => todo'.cron = Targets
      /\ (synced' \/ (todo'.cron # {} /\ "apiservices" \notin todo'.cron))
           => \A left \in bundle' : left >= RenewBefore
  <2>1. CASE resource = "apiservices"
    BY <2>1, <1>1, <1>2, <1>4, <1>5 DEF IInv, CronInv
  <2>2. CASE resource # "apiservices"
    <3>1. bundle' = bundle /\ "apiservices" \notin todo[run]
      BY <2>2, <1>2
    <3> QED  BY <3>1, <1>1, <1>4 DEF IInv, CronInv
  <2> QED  BY <2>1, <2>2
<1>7. CertificatesInv'
  BY <1>1 DEF IInv, CertificatesInv
<1>8. synced' \in BOOLEAN /\ (synced => synced') /\ (Since' = Since \/ synced')
  BY <1>1, <1>3 DEF Since, TypeOK
<1>9. Since' \in 0..Step
  BY <1>1, <1>8, SinceProperties, Parameters DEF Since
<1>10. BundleInv'
  <2> SUFFICES ASSUME NEW left \in bundle'
               PROVE  left + Since' >= RenewBefore
    BY DEF BundleInv
  <2>0. left \in Nat
    BY <1>3, Numbers, Parameters DEF TypeOK
  <2>1. CASE synced' \/ resource = "apiservices"
    <3>1. left >= RenewBefore
      BY <2>1, <1>2, <1>5, <1>6
    <3>2. Since' \in Nat
      BY <1>9, Parameters
    <3> QED  BY <3>1, <3>2, <2>0, Sums
  <2>2. CASE ~synced' /\ resource # "apiservices"
    BY <2>2, <1>2, <1>8 DEF IInv, BundleInv
  <2> QED  BY <2>1, <2>2
<1>11. waiting' <= Since'
  <2>1. CASE resource = "apiservices"
    <3>1. waiting' = waiting /\ todo' = [todo EXCEPT ![run] = @ \ {resource}]
      BY <2>1, <1>1, <1>2
    <3>2. run = "cron" => todo'.cron # {}
      BY <2>1, <1>1, <1>4 DEF IInv, CronInv, Targets
    <3>3. synced' = synced
      BY <3>2, <1>1, <1>3 DEF TypeOK
    <3>4. Since' = Since
      BY <3>3, <1>1 DEF Since
    <3> QED  BY <3>1, <3>4 DEF IInv
  <2>2. CASE resource # "apiservices"
    <3>1. waiting' = 0
      BY <2>2, <1>2
    <3> QED  BY <3>1, <1>9, Parameters
  <2> QED  BY <2>1, <2>2
<1> QED  BY <1>3, <1>6, <1>7, <1>10, <1>11 DEF IInv, CronInv

LEMMA JobKeeps ==
  ASSUME TypeOK, IInv, ScheduleJob \/ \E run \in {"job", "cron"} : JobFails(run)
  PROVE  TypeOK' /\ IInv'
<1> USE DEF clock, certificates, bundles, jobs
<1>1. UNCHANGED <<clock, certificates, bundles, synced>>
  BY DEF ScheduleJob, JobFails
<1>2. TypeOK' /\ (todo'.cron = {} \/ todo'.cron = todo.cron \/ (todo'.cron = Targets /\ day \in SyncDays(length)))
  BY <1>1 DEF TypeOK, ScheduleJob, JobFails
<1>3. Since' = Since
  BY <1>1 DEF Since
<1>4. CronInv'
  BY <1>1, <1>2 DEF IInv, CronInv, Targets
<1> QED
  BY <1>1, <1>2, <1>3, <1>4 DEF IInv, CertificatesInv, BundleInv

LEMMA ApplyKeeps ==
  ASSUME TypeOK, IInv, Apply
  PROVE  TypeOK' /\ IInv'
<1> USE DEF clock, certificates, bundles, jobs
<1>1. UNCHANGED <<clock, certificates, bundle, waiting, jobs>> /\ caBundle' = ""
  BY DEF Apply
<1>2. TypeOK' /\ Since' = Since
  BY <1>1 DEF TypeOK, Since
<1> QED
  BY <1>1, <1>2 DEF IInv, CertificatesInv, BundleInv, CronInv

LEMMA OlderProperties ==
  ASSUME NEW certificate \in Opt(Validity)
  PROVE  /\ Older(certificate) \in Opt(Validity)
         /\ \A left \in Older(certificate) :
              left \in Nat /\ \E l \in certificate : l \in Nat /\ l <= left + 1
<1>1. \A l \in Validity : (IF l = 0 THEN 0 ELSE l - 1) \in Validity
  BY LifetimeAssumption DEF Validity
<1> QED
  BY <1>1 DEF Older, Opt, Validity

(* A day of the schedule ends with a fresh copy, and from there every day  *)
(* is one more.                                                            *)
LEMMA NextDayKeeps ==
  ASSUME TypeOK, IInv, NextDay
  PROVE  TypeOK' /\ IInv'
<1> USE DEF clock, certificates, bundles, jobs
<1>1. /\ todo' = todo /\ todo.cron = {} /\ caBundle' = caBundle /\ synced' = FALSE
      /\ ca' = Older(ca) /\ tls' = Older(tls) /\ bundle' = Older(bundle)
      /\ waiting' = IF caBundle # "" THEN 0 ELSE waiting + 1
      /\ ~Due(ca) /\ ~Due(tls)
  BY DEF NextDay
<1>2. length' \in MonthLengths /\ day' \in 1..length' /\ (day' = 1 \/ day' = day + 1)
  <2>1. length \in MonthLengths /\ length \in Nat \ {0} /\ day \in 1..length
    BY TypeFacts, Numbers, Parameters
  <2>2. CASE day < length
    <3>1. day' = day + 1 /\ length' = length
      BY <2>2 DEF NextDay
    <3> QED  BY <3>1, <2>1, <2>2
  <2>3. CASE ~(day < length)
    <3>1. day' = 1 /\ length' \in MonthLengths
      BY <2>3 DEF NextDay
    <3> QED  BY <3>1, Numbers, Parameters
  <2> QED  BY <2>2, <2>3
<1>3. waiting' = 0 \/ waiting' = waiting + 1
  BY <1>1, Zenon
<1>4. waiting' \in Nat
  BY <1>3, TypeFacts
<1>5. TypeOK'
  BY <1>1, <1>2, <1>4, OlderProperties, TypeFacts DEF TypeOK
<1>6. waiting \in Nat /\ waiting' \in Nat /\ Since \in 0..Step /\ waiting <= Since
  BY <1>4, SinceProperties, TypeFacts DEF IInv
<1>7. Since = (day - 1) % Step
  <2>1. synced \/ day \notin SyncDays(length)
    BY DEF NextDay
  <2>2. synced => day \in SyncDays(length)
    BY DEF IInv, CronInv
  <2> QED  BY <2>1, <2>2, SinceProperties DEF Since
<1>8. Since + 1 <= Since'
  <2>1. Since' = IF (day' - 1) % Step = 0 THEN Step ELSE (day' - 1) % Step
    BY <1>2, <1>1 DEF Since, SyncDays
  <2>2. (day - 1) % Step \in 0..(Step - 1) /\ day \in Nat \ {0}
    BY SinceProperties
  <2>3. CASE day' = 1
    <3>1. 0 % Step = 0
      BY Parameters, SMT
    <3> QED  BY <2>1, <2>2, <2>3, <3>1, <1>7, Parameters
  <2>4. CASE day' = day + 1
    <3>1. day' - 1 = (day - 1) + 1 /\ day - 1 \in Nat
      BY <2>2, <2>4
    <3>2. (day' - 1) % Step = 0 \/ (day' - 1) % Step = ((day - 1) % Step) + 1
      BY <3>1, Parameters, NextRemainder
    <3> QED  BY <2>1, <2>2, <3>2, <1>7, Parameters
  <2> QED  BY <1>2, <2>3, <2>4
<1>9. Since' \in Int
  <2>1. day' - 1 \in Nat
    <3>1. day' \in Nat \ {0}
      BY <1>2, Numbers
    <3> QED  BY <3>1, Sums
  <2>2. (day' - 1) % Step \in 0..(Step - 1)
    BY <2>1, Parameters, NextRemainder
  <2> QED  BY <2>2, Parameters DEF Since
<1>10. CertificatesInv'
  <2>1. \A certificate \in {ca, tls} : \A left \in certificate : left \in Nat /\ left > RenewBefore
    <3>1. ASSUME NEW certificate \in Opt(Validity), NEW left \in certificate, ~Due(certificate)
          PROVE  left \in Nat /\ left > RenewBefore
      <4>1. PICK l \in certificate : ~(l <= RenewBefore)
        BY <3>1 DEF Due
      <4>2. l = left
        BY <3>1 DEF Opt
      <4> QED  BY <4>1, <4>2, Numbers, Parameters
    <3> QED  BY <1>1, <3>1, TypeFacts
  <2>2. ASSUME NEW certificate \in {ca, tls}, NEW left \in Older(certificate)
        PROVE  left >= RenewBefore
    BY <2>1, OlderProperties, TypeFacts, Numbers, Parameters
  <2> QED  BY <1>1, <2>2 DEF CertificatesInv
<1>11. BundleInv'
  <2> SUFFICES ASSUME NEW left \in Older(bundle)
               PROVE  left + Since' >= RenewBefore
    BY <1>1 DEF BundleInv
  <2>1. PICK l \in bundle : left \in Nat /\ l \in Nat /\ l <= left + 1
    BY OlderProperties, TypeFacts
  <2>2. l + Since >= RenewBefore
    BY DEF IInv, BundleInv
  <2>3. Since \in Nat /\ Since' \in Nat
    BY <1>6, <1>8, <1>9, Parameters
  <2> QED  BY <2>1, <2>2, <2>3, <1>8, Sums
<1>12. waiting' <= Since'
  BY <1>3, <1>6, <1>8, <1>9
<1> QED
  BY <1>1, <1>5, <1>10, <1>11, <1>12 DEF IInv, CronInv

LEMMA NextInv == TypeOK /\ IInv /\ [Next]_vars => TypeOK' /\ IInv'
<1> SUFFICES ASSUME TypeOK, IInv, [Next]_vars
             PROVE  TypeOK' /\ IInv'
  OBVIOUS
<1>1. CASE UNCHANGED vars
  BY <1>1 DEF vars, clock, certificates, bundles, jobs, TypeOK, IInv, CertificatesInv, BundleInv, CronInv,
              Since
<1> QED
  BY <1>1, IssueKeeps, UpdateKeeps, JobKeeps, ApplyKeeps, NextDayKeeps DEF Next

LEMMA Invariance == Spec => [](TypeOK /\ IInv)
BY InitInv, NextInv, PTL DEF Spec

-----------------------------------------------------------------------------

(* Every variable keeps its type, for any schedule.                        *)
THEOREM TypeCorrect == Spec => []TypeOK
BY Invariance, PTL

(* with-rbac.yaml's days are often enough for months of any length: as the *)
(* CA is renewed more than Step days ahead, no copy of it expires before   *)
(* the next one, and no re-apply lasts longer than Step days.              *)
THEOREM ScheduleIsOftenEnough ==
  ASSUME CopiedInTime
  PROVE  Spec => []ScheduleSuffices
<1>1. TypeOK /\ IInv => ScheduleSuffices
  <2> SUFFICES ASSUME TypeOK, IInv
               PROVE  ScheduleSuffices
    OBVIOUS
  <2>1. waiting <= Step
    BY SinceProperties, TypeFacts, Numbers, Parameters DEF IInv
  <2>2. ASSUME NEW left \in bundle
        PROVE  left > 0
    <3>1. left \in Nat /\ left + Since >= RenewBefore
      BY TypeFacts, Numbers, Parameters DEF IInv, BundleInv
    <3> QED  BY <3>1, SinceProperties, Numbers, Parameters DEF CopiedInTime
  <2>3. ASSUME NEW left \in tls
        PROVE  left > 0
    BY TypeFacts, Numbers, Parameters DEF IInv, CertificatesInv
  <2> QED  BY <2>1, <2>2, <2>3 DEF ScheduleSuffices
<1> QED  BY <1>1, Invariance, PTL

=============================================================================
