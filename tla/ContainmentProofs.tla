--------------------------- MODULE ContainmentProofs ---------------------------
(***************************************************************************)
(* Proofs about Containment, for any number of workers, detections, users  *)
(* and addresses and any TTLs that satisfy the assumptions.                *)
(***************************************************************************)
EXTENDS Containment, TLAPS

(***************************************************************************)
(* The inductive invariant.  AppliedAtMostOnce is not inductive by itself: *)
(* it rests on the receipt outliving the delivery window (Applied), on a   *)
(* worker past GET whose WATCH is still clean knowing that no other worker *)
(* has applied its detection (CleanWatch), and on its plan still being the *)
(* plan of this instant (CleanPlan).                                       *)
(***************************************************************************)
JobOK ==
  \A w \in Workers : pc[w] # "idle" =>
    /\ job[w] \in Detections
    /\ pubAt[job[w]] # NotSet
    /\ now <= pubAt[job[w]] + DeliveryWindow

PublishedInThePast == \A d \in Detections : pubAt[d] # NotSet => pubAt[d] <= now

Applied ==
  \A d \in Detections :
    /\ applies[d] <= 1
    /\ applies[d] = 0 => receipt[d].exp = 0 /\ receipt[d].acts = {}
    /\ applies[d] > 0 => /\ receipt[d].acts # {}
                         /\ pubAt[d] # NotSet
                         /\ receipt[d].exp >= pubAt[d] + ReceiptTTL
                         /\ Info[d].type # "other"

CleanWatch ==
  \A w \in Workers :
    pc[w] \in {"plan", "exec"} /\ w \notin dirty => applies[job[w]] = 0

CleanPlan ==
  \A w \in Workers : pc[w] = "exec" =>
    /\ acts[w] # {}
    /\ w \notin dirty => acts[w] = PlanActions(job[w], Pending(Info[job[w]].user))

ReportOK ==
  \A w \in Workers : pc[w] = "audit" =>
    IF Info[job[w]].type = "other"
    THEN acts[w] = {}
    ELSE applies[job[w]] > 0 /\ acts[w] = receipt[job[w]].acts

IInv ==
  /\ TypeOK
  /\ JobOK
  /\ PublishedInThePast
  /\ Applied
  /\ CleanWatch
  /\ CleanPlan
  /\ ReportOK
  /\ AuditAgrees

-----------------------------------------------------------------------------
(* The policy and the rule table *)

\* The policy returns actions it knows, none exactly for an unknown type, and a
\* quarantine for a geo anomaly exactly when a step-up is pending.
LEMMA PlanFacts ==
  ASSUME NEW d \in Detections, NEW p \in BOOLEAN
  PROVE  /\ PlanActions(d, p) \in SUBSET Actions
         /\ PlanActions(d, p) = {} <=> Info[d].type = "other"
         /\ Info[d].type = "geo_velocity_anomaly" =>
              ("quarantine" \in PlanActions(d, p) <=> p)
<1>1. Info[d].type \in Types
  BY InfoAssumption
<1>2. CASE Info[d].type \in HardQuarantineTypes
  BY <1>2 DEF PlanActions, HardQuarantineTypes, Actions
<1>3. CASE Info[d].type = "credential_stuffing"
  BY <1>3 DEF PlanActions, HardQuarantineTypes, Actions
<1>4. CASE Info[d].type = "geo_velocity_anomaly"
  BY <1>4 DEF PlanActions, HardQuarantineTypes, Actions
<1>5. CASE Info[d].type = "other"
  BY <1>5 DEF PlanActions, HardQuarantineTypes, Actions
<1> QED
  BY <1>1, <1>2, <1>3, <1>4, <1>5 DEF Types, HardQuarantineTypes

\* Every kind of rule has a configured TTL.
LEMMA RuleTTLType == RuleTTL \in [RuleKeys -> Nat]
<1> SUFFICES ASSUME NEW k \in RuleKeys
             PROVE  (CASE k[1] = "quarantine" -> QuarantineTTL
                       [] k[1] = "step_up" -> StepUpTTL
                       [] k[1] = "ip_block" -> IpBlockTTL) \in Nat
  BY DEF RuleTTL
<1>1. k[1] \in {"quarantine", "step_up", "ip_block"}
  BY DEF RuleKeys, QuarantineKey, StepUpKey, IpBlockKey
<1> QED
  BY <1>1, TTLAssumption

\* SETEX keeps the table well typed and leaves every other key alone.
LEMMA SetExFacts ==
  ASSUME NEW r \in [RuleKeys -> Rule], NEW ks,
         NEW ttl \in [RuleKeys -> Nat],
         NEW by \in Detections \cup {Api, NotSet}, NEW t \in Nat
  PROVE  /\ SetEx(r, ks, ttl, by, t) \in [RuleKeys -> Rule]
         /\ \A k \in RuleKeys : k \notin ks => SetEx(r, ks, ttl, by, t)[k] = r[k]
BY DEF SetEx, Rule

\* DEL likewise.
LEMMA DelFacts ==
  ASSUME NEW r \in [RuleKeys -> Rule], NEW k \in RuleKeys
  PROVE  /\ Del(r, k) \in [RuleKeys -> Rule]
         /\ \A j \in RuleKeys : j # k => Del(r, k)[j] = r[j]
BY DEF Del, Rule, NoRule

\* The kinds of keys do not overlap.
LEMMA KeyFacts ==
  ASSUME NEW u \in Users
  PROVE  /\ QuarantineKey(u) \in RuleKeys
         /\ StepUpKey(u) \in RuleKeys
         /\ \A v \in Users : StepUpKey(u) # QuarantineKey(v)
         /\ \A v \in Users : StepUpKey(u) = StepUpKey(v) => u = v
         /\ \A i : StepUpKey(u) # IpBlockKey(i)
         /\ \A i \in Ips : IpBlockKey(i) \in RuleKeys
BY DEF RuleKeys, QuarantineKey, StepUpKey, IpBlockKey

\* A detection writes a step-up key only with the step_up_auth action, and only
\* the one of its own user.
LEMMA WriteKeysStepUp ==
  ASSUME NEW d \in Detections, NEW as, NEW u \in Users, StepUpKey(u) \in WriteKeys(d, as)
  PROVE  "step_up_auth" \in as /\ u = Info[d].user
<1>1. Info[d].user \in Users
  BY InfoAssumption
<1> QED
  BY <1>1, KeyFacts DEF WriteKeys

\* The overrides that leave every step-up key alone leave Pending alone.
LEMMA PendingFrame ==
  ASSUME now' = now, NEW u \in Users, rule'[StepUpKey(u)] = rule[StepUpKey(u)]
  PROVE  Pending(u)' = Pending(u)
BY DEF Pending, Live

-----------------------------------------------------------------------------
(* Type correctness *)

LEMMA InitType == Init => TypeOK
<1> SUFFICES ASSUME Init PROVE TypeOK
  OBVIOUS
<1>1. NoRule \in Rule /\ NoReceipt \in Receipt
  BY DEF NoRule, Rule, NoReceipt, Receipt
<1> QED
  BY <1>1 DEF Init, TypeOK

\* What a worker does to the shared state, its own and the rules, is well typed.
LEMMA NextType == IInv /\ [Next]_vars => TypeOK'
<1> SUFFICES ASSUME IInv, [Next]_vars PROVE TypeOK'
  OBVIOUS
<1> USE DEF IInv
<1>1. ASSUME NEW d \in Detections, Publish(d) PROVE TypeOK'
  BY <1>1 DEF Publish, TypeOK, redis, local
<1>2. ASSUME NEW w \in Workers, NEW d \in Detections, Deliver(w, d) PROVE TypeOK'
  BY <1>2 DEF Deliver, TypeOK, redis
<1>3. ASSUME NEW w \in Workers, Watch(w) PROVE TypeOK'
  BY <1>3 DEF Watch, TypeOK, redis
<1>4. ASSUME NEW w \in Workers, GetReceipt(w) PROVE TypeOK'
  <2>1. job[w] \in Detections
    BY <1>4 DEF GetReceipt, JobOK
  <2>2. receipt[job[w]].acts \in SUBSET Actions
    BY <2>1 DEF TypeOK, Receipt
  <2> QED
    BY <1>4, <2>2 DEF GetReceipt, TypeOK, redis
<1>5. ASSUME NEW w \in Workers, Plan(w) PROVE TypeOK'
  <2>1. job[w] \in Detections
    BY <1>5 DEF Plan, JobOK
  <2>2. Pending(Info[job[w]].user) \in BOOLEAN
    BY DEF Pending, Live
  <2>3. PlanActions(job[w], Pending(Info[job[w]].user)) \in SUBSET Actions
    BY <2>1, <2>2, PlanFacts
  <2> QED
    BY <1>5, <2>3 DEF Plan, TypeOK, redis
<1>6. ASSUME NEW w \in Workers, Exec(w) PROVE TypeOK'
  <2>1. job[w] \in Detections
    BY <1>6 DEF Exec, JobOK
  <2>2. rule' \in [RuleKeys -> Rule]
    BY <1>6, <2>1, SetExFacts, RuleTTLType DEF Exec, TypeOK
  <2>3. receipt' \in [Detections -> Receipt]
    BY <1>6, <2>1, ReceiptAssumption DEF Exec, TypeOK, Receipt
  <2>4. applies' \in [Detections -> Nat]
    BY <1>6, <2>1 DEF Exec, TypeOK
  <2>5. dirty' \in SUBSET Workers
    BY <1>6 DEF Exec, TypeOK, WatchingReceipt, WatchingStepUp, Watching
  <2> QED
    BY <1>6, <2>2, <2>3, <2>4, <2>5 DEF Exec, TypeOK
<1>7. ASSUME NEW w \in Workers, WatchError(w) PROVE TypeOK'
  BY <1>7 DEF WatchError, TypeOK, redis
<1>8. ASSUME NEW w \in Workers, Audit(w) PROVE TypeOK'
  <2>1. job[w] \in Detections
    BY <1>8 DEF Audit, JobOK
  <2>2. [det |-> job[w], acts |-> acts[w]]
           \in [det: Detections \cup {Api}, acts: SUBSET (Actions \cup ApiActions)]
    BY <2>1 DEF TypeOK
  <2> QED
    BY <1>8, <2>2 DEF Audit, Return, TypeOK, redis
<1>9. ASSUME NEW w \in Workers, Fail(w) PROVE TypeOK'
  BY <1>9 DEF Fail, Return, TypeOK, redis
<1>10. ASSUME NEW a \in ApiActions, AuditOverride(a)
       PROVE  /\ audit' \in SUBSET [det: Detections \cup {Api},
                                    acts: SUBSET (Actions \cup ApiActions)]
              /\ overrides' \in Nat
  BY <1>10 DEF AuditOverride, TypeOK
<1>11. ASSUME Override PROVE TypeOK'
  <2>1. ASSUME NEW u \in Users, NEW ttl \in ManualTTLs \cup {QuarantineTTL},
               AddQuarantine(u, ttl)
        PROVE  TypeOK'
    <3>1. [RuleTTL EXCEPT ![QuarantineKey(u)] = ttl] \in [RuleKeys -> Nat]
      BY RuleTTLType, TTLAssumption
    <3>2. rule' \in [RuleKeys -> Rule]
      BY <2>1, <3>1, SetExFacts DEF AddQuarantine, TypeOK
    <3> QED
      BY <2>1, <1>10, <3>2 DEF AddQuarantine, TypeOK, local, ApiActions
  <2>2. ASSUME NEW i \in Ips, NEW ttl \in ManualTTLs \cup {IpBlockTTL},
               AddIpBlock(i, ttl)
        PROVE  TypeOK'
    <3>1. [RuleTTL EXCEPT ![IpBlockKey(i)] = ttl] \in [RuleKeys -> Nat]
      BY RuleTTLType, TTLAssumption
    <3>2. rule' \in [RuleKeys -> Rule]
      BY <2>2, <3>1, SetExFacts DEF AddIpBlock, TypeOK
    <3> QED
      BY <2>2, <1>10, <3>2 DEF AddIpBlock, TypeOK, local, ApiActions
  <2>3. ASSUME NEW u \in Users, LiftQuarantine(u) PROVE TypeOK'
    <3>1. rule' \in [RuleKeys -> Rule]
      BY <2>3, KeyFacts, DelFacts DEF LiftQuarantine, TypeOK
    <3> QED
      BY <2>3, <1>10, <3>1 DEF LiftQuarantine, TypeOK, local, ApiActions
  <2>4. ASSUME NEW i \in Ips, LiftIpBlock(i) PROVE TypeOK'
    <3>1. rule' \in [RuleKeys -> Rule]
      BY <2>4, DelFacts DEF LiftIpBlock, TypeOK, RuleKeys
    <3> QED
      BY <2>4, <1>10, <3>1 DEF LiftIpBlock, TypeOK, local, ApiActions
  <2>5. ASSUME NEW u \in Users, ClearStepUp(u) PROVE TypeOK'
    <3>1. rule' \in [RuleKeys -> Rule]
      BY <2>5, KeyFacts, DelFacts DEF ClearStepUp, TypeOK
    <3>2. dirty' \in SUBSET Workers
      BY <2>5 DEF ClearStepUp, TypeOK, WatchingStepUp, Watching
    <3> QED
      BY <2>5, <1>10, <3>1, <3>2 DEF ClearStepUp, TypeOK, local, ApiActions
  <2> QED
    BY <1>11, <2>1, <2>2, <2>3, <2>4, <2>5 DEF Override
<1>12. ASSUME Tick PROVE TypeOK'
  BY <1>12 DEF Tick, TypeOK, local, Watching
<1>13. ASSUME UNCHANGED vars PROVE TypeOK'
  BY <1>13 DEF vars, TypeOK
<1> QED
  BY <1>1, <1>2, <1>3, <1>4, <1>5, <1>6, <1>7, <1>8, <1>9, <1>11, <1>12, <1>13
     DEF Next, Step
-----------------------------------------------------------------------------
(* The inductive invariant is inductive *)

\* A detection that has been applied still has its receipt whenever a worker
\* handles it: the receipt outlives the delivery window.
LEMMA ReceiptOutlives ==
  ASSUME IInv, NEW w \in Workers, pc[w] # "idle", applies[job[w]] > 0
  PROVE  HasReceipt(job[w])
<1> DEFINE d == job[w]
<1>1. d \in Detections /\ pubAt[d] \in Nat /\ now <= pubAt[d] + DeliveryWindow
  BY DEF IInv, JobOK, TypeOK
<1>2. receipt[d].exp >= pubAt[d] + ReceiptTTL
  BY <1>1 DEF IInv, Applied
<1>3. now \in Nat /\ receipt[d].exp \in Nat
  BY <1>1 DEF IInv, TypeOK, Receipt
<1> QED
  BY <1>1, <1>2, <1>3, ReceiptAssumption DEF HasReceipt

LEMMA InitInv == Init => IInv
<1> SUFFICES ASSUME Init PROVE IInv
  OBVIOUS
<1>1. TypeOK
  BY InitType
<1>2. Applied
  <2>1. \A d \in Detections : receipt[d].exp = 0 /\ receipt[d].acts = {}
    BY DEF Init, NoReceipt
  <2>2. ASSUME NEW d \in Detections PROVE applies[d] <= 1 /\ ~(applies[d] > 0)
    <3>1. applies[d] = 0
      BY DEF Init
    <3> QED
      BY <3>1
  <2> QED
    BY <2>1, <2>2 DEF Applied
<1> QED
  BY <1>1, <1>2 DEF Init, IInv, JobOK, PublishedInThePast, CleanWatch, CleanPlan,
                    ReportOK, AuditAgrees

\* Steps of one worker that touch neither the rules, the receipts nor the log
\* only have to establish what the invariant says of that worker.
LEMMA LocalStep ==
  ASSUME IInv, TypeOK', NEW w \in Workers,
         UNCHANGED <<now, pubAt, rule, receipt, applies, audit>>,
         \A v \in Workers \ {w} : /\ pc'[v] = pc[v] /\ job'[v] = job[v]
                                  /\ acts'[v] = acts[v]
                                  /\ v \in dirty <=> v \in dirty',
         pc'[w] # "idle" => /\ job'[w] \in Detections
                            /\ pubAt[job'[w]] # NotSet
                            /\ now <= pubAt[job'[w]] + DeliveryWindow,
         pc'[w] \in {"plan", "exec"} /\ w \notin dirty' => applies[job'[w]] = 0,
         pc'[w] = "exec" =>
           /\ acts'[w] # {}
           /\ w \notin dirty' =>
                acts'[w] = PlanActions(job'[w], Pending(Info[job'[w]].user)),
         pc'[w] = "audit" =>
           IF Info[job'[w]].type = "other" THEN acts'[w] = {}
           ELSE applies[job'[w]] > 0 /\ acts'[w] = receipt[job'[w]].acts
  PROVE  IInv'
<1>1. \A u : Pending(u)' = Pending(u)
  BY DEF Pending, Live
<1>2. JobOK'
  BY DEF IInv, JobOK
<1>3. PublishedInThePast' /\ Applied' /\ AuditAgrees'
  BY DEF IInv, PublishedInThePast, Applied, AuditAgrees
<1>4. CleanWatch'
  BY DEF IInv, CleanWatch
<1>5. CleanPlan'
  BY <1>1 DEF IInv, CleanPlan
<1>6. ReportOK'
  BY DEF IInv, ReportOK
<1> QED
  BY <1>2, <1>3, <1>4, <1>5, <1>6 DEF IInv

\* Steps that leave the workers, the receipts and the log of detections alone
\* only have to mark the workers whose step-up state they change.
LEMMA RuleStep ==
  ASSUME IInv, TypeOK', UNCHANGED <<now, pubAt, receipt, pc, job, acts, applies>>,
         audit' \subseteq audit \cup {[det |-> Api, acts |-> {a}] : a \in ApiActions},
         dirty \subseteq dirty',
         \A w \in Workers : pc[w] = "exec" /\ w \notin dirty' =>
           Pending(Info[job[w]].user)' = Pending(Info[job[w]].user)
  PROVE  IInv'
<1>1. JobOK' /\ PublishedInThePast' /\ Applied' /\ ReportOK'
  BY DEF IInv, JobOK, PublishedInThePast, Applied, ReportOK
<1>2. CleanWatch'
  BY DEF IInv, CleanWatch
<1>3. CleanPlan'
  <2> SUFFICES ASSUME NEW w \in Workers, pc[w] = "exec"
               PROVE  /\ acts[w] # {}
                      /\ w \notin dirty' =>
                           acts[w] = PlanActions(job[w], Pending(Info[job[w]].user)')
    BY DEF CleanPlan, Pending
  <2> QED
    BY DEF IInv, CleanPlan
<1>4. AuditAgrees'
  BY DEF IInv, AuditAgrees
<1> QED
  BY <1>1, <1>2, <1>3, <1>4 DEF IInv
\* EXEC with a clean WATCH: the detection was not applied before, the plan is
\* the plan of this instant, and every other worker on the same detection or
\* the same step-up key is marked dirty.
LEMMA ExecStep ==
  ASSUME IInv, TypeOK', NEW w \in Workers, Exec(w)
  PROVE  IInv'
<1> DEFINE d == job[w]
<1>1. d \in Detections /\ pubAt[d] \in Nat /\ pubAt[d] # NotSet /\ pubAt[d] <= now
  BY DEF Exec, IInv, JobOK, PublishedInThePast, TypeOK
<1>2. applies[d] = 0
  BY DEF Exec, IInv, CleanWatch
<1>3. acts[w] = PlanActions(d, Pending(Info[d].user)) /\ acts[w] # {}
  BY DEF Exec, IInv, CleanPlan
<1>4. Info[d].type # "other"
  <2>1. Pending(Info[d].user) \in BOOLEAN
    BY DEF Pending, Live
  <2> QED
    BY <1>1, <1>3, <2>1, PlanFacts
<1>5. /\ applies' = [applies EXCEPT ![d] = 1]
      /\ receipt'[d] = [acts |-> acts[w], exp |-> now + ReceiptTTL]
      /\ \A e \in Detections \ {d} : receipt'[e] = receipt[e] /\ applies'[e] = applies[e]
      /\ applies'[d] = 1
  BY <1>1, <1>2 DEF Exec, IInv, TypeOK
<1>6. /\ UNCHANGED <<now, pubAt, job, acts, audit>>
      /\ pc'[w] = "audit"
      /\ \A v \in Workers \ {w} : pc'[v] = pc[v]
  BY DEF Exec, IInv, TypeOK
<1>7. JobOK' /\ PublishedInThePast'
  BY <1>6 DEF IInv, JobOK, PublishedInThePast, Exec
<1>8. Applied'
  <2> SUFFICES ASSUME NEW e \in Detections
               PROVE  /\ applies'[e] <= 1
                      /\ applies'[e] = 0 => receipt'[e].exp = 0 /\ receipt'[e].acts = {}
                      /\ applies'[e] > 0 => /\ receipt'[e].acts # {}
                                            /\ pubAt[e] # NotSet
                                            /\ receipt'[e].exp >= pubAt[e] + ReceiptTTL
                                            /\ Info[e].type # "other"
    BY <1>6 DEF Applied
  <2>1. CASE e = d
    BY <2>1, <1>1, <1>3, <1>4, <1>5, ReceiptAssumption DEF IInv, TypeOK
  <2>2. CASE e # d
    BY <2>2, <1>5 DEF IInv, Applied
  <2> QED
    BY <2>1, <2>2
<1>9. CleanWatch'
  <2> SUFFICES ASSUME NEW v \in Workers, pc'[v] \in {"plan", "exec"}, v \notin dirty'
               PROVE  applies'[job[v]] = 0
    BY <1>6 DEF CleanWatch
  <2>1. v # w /\ pc[v] \in {"plan", "exec"} /\ v \notin dirty
    BY <1>6 DEF Exec
  <2>2. job[v] # d
    BY <2>1 DEF Exec, WatchingReceipt, Watching
  <2>3. job[v] \in Detections /\ applies[job[v]] = 0
    BY <2>1 DEF IInv, JobOK, CleanWatch
  <2> QED
    BY <2>2, <2>3, <1>5
<1>10. CleanPlan'
  <2> SUFFICES ASSUME NEW v \in Workers, pc'[v] = "exec"
               PROVE  /\ acts[v] # {}
                      /\ v \notin dirty' =>
                           acts[v] = PlanActions(job[v], Pending(Info[job[v]].user)')
    BY <1>6 DEF CleanPlan, Pending
  <2>1. v # w /\ pc[v] = "exec"
    BY <1>6
  <2>2. job[v] \in Detections /\ Info[job[v]].user \in Users
    BY <2>1, InfoAssumption DEF IInv, JobOK
  <2>3. ASSUME v \notin dirty'
        PROVE  v \notin dirty /\ StepUpKey(Info[job[v]].user) \notin WriteKeys(d, acts[w])
    <3>1. v \notin dirty
      BY <2>1, <2>3 DEF Exec
    <3>2. ASSUME StepUpKey(Info[job[v]].user) \in WriteKeys(d, acts[w]) PROVE FALSE
      <4>1. "step_up_auth" \in acts[w] /\ Info[job[v]].user = Info[d].user
        BY <1>1, <2>2, <3>2, WriteKeysStepUp
      <4>2. v \in WatchingStepUp(Info[d].user)
        BY <2>1, <4>1 DEF WatchingStepUp, Watching
      <4> QED
        BY <2>1, <2>3, <4>1, <4>2 DEF Exec
    <3> QED
      BY <3>1, <3>2
  <2>4. ASSUME v \notin dirty'
        PROVE  Pending(Info[job[v]].user)' = Pending(Info[job[v]].user)
    <3>1. rule'[StepUpKey(Info[job[v]].user)] = rule[StepUpKey(Info[job[v]].user)]
      BY <1>1, <2>2, <2>3, <2>4, SetExFacts, RuleTTLType, KeyFacts DEF Exec, IInv, TypeOK
    <3> QED
      BY <3>1, <2>2, <1>6, PendingFrame
  <2> QED
    BY <2>1, <2>3, <2>4 DEF IInv, CleanPlan
<1>11. ReportOK'
  <2> SUFFICES ASSUME NEW v \in Workers, pc'[v] = "audit"
               PROVE  IF Info[job[v]].type = "other" THEN acts[v] = {}
                      ELSE applies'[job[v]] > 0 /\ acts[v] = receipt'[job[v]].acts
    BY <1>6 DEF ReportOK
  <2>1. CASE v = w
    BY <2>1, <1>4, <1>5
  <2>2. CASE v # w
    <3>1. pc[v] = "audit" /\ job[v] \in Detections
      BY <2>2, <1>6 DEF IInv, JobOK
    <3>2. IF Info[job[v]].type = "other" THEN acts[v] = {}
          ELSE applies[job[v]] > 0 /\ acts[v] = receipt[job[v]].acts
      BY <3>1 DEF IInv, ReportOK
    <3> QED
      BY <3>1, <3>2, <1>2, <1>4, <1>5
  <2> QED
    BY <2>1, <2>2
<1>12. AuditAgrees'
  <2> SUFFICES ASSUME NEW r \in audit, r.det # Api
               PROVE  IF Info[r.det].type = "other" THEN r.acts = {}
                      ELSE applies'[r.det] > 0 /\ r.acts = receipt'[r.det].acts
    BY <1>6 DEF AuditAgrees
  <2>1. r.det \in Detections
    BY DEF IInv, TypeOK
  <2>2. IF Info[r.det].type = "other" THEN r.acts = {}
        ELSE applies[r.det] > 0 /\ r.acts = receipt[r.det].acts
    BY DEF IInv, AuditAgrees
  <2> QED
    BY <2>1, <2>2, <1>2, <1>4, <1>5
<1> QED
  BY <1>7, <1>8, <1>9, <1>10, <1>11, <1>12 DEF IInv

LEMMA NextInv == IInv /\ [Next]_vars => IInv'
<1> SUFFICES ASSUME IInv, [Next]_vars PROVE IInv'
  OBVIOUS
<1>0. TypeOK'
  BY NextType
<1>1. ASSUME NEW d \in Detections, Publish(d) PROVE IInv'
  <2>1. /\ UNCHANGED <<now, rule, receipt, pc, job, acts, dirty, applies, audit>>
        /\ pubAt[d] = NotSet /\ pubAt'[d] = now
        /\ \A e \in Detections \ {d} : pubAt'[e] = pubAt[e]
    BY <1>1 DEF Publish, redis, local, IInv, TypeOK
  <2>2. now \in Nat
    BY DEF IInv, TypeOK
  <2>3. JobOK'
    <3> SUFFICES ASSUME NEW w \in Workers, pc[w] # "idle"
                 PROVE  /\ job[w] \in Detections /\ pubAt'[job[w]] # NotSet
                        /\ now <= pubAt'[job[w]] + DeliveryWindow
      BY <2>1 DEF JobOK
    <3>1. job[w] \in Detections /\ job[w] # d
      BY <2>1 DEF IInv, JobOK
    <3> QED
      BY <3>1, <2>1 DEF IInv, JobOK
  <2>4. PublishedInThePast'
    BY <2>1, <2>2 DEF IInv, PublishedInThePast
  <2>5. Applied'
    BY <2>1 DEF IInv, Applied
  <2>6. CleanWatch' /\ ReportOK' /\ AuditAgrees'
    BY <2>1 DEF IInv, CleanWatch, ReportOK, AuditAgrees
  <2>7. CleanPlan'
    BY <2>1 DEF IInv, CleanPlan, Pending, Live
  <2> QED
    BY <1>0, <2>3, <2>4, <2>5, <2>6, <2>7 DEF IInv
<1>2. ASSUME NEW w \in Workers, NEW d \in Detections, Deliver(w, d) PROVE IInv'
  <2>1. /\ UNCHANGED <<now, pubAt, rule, receipt, dirty, applies, audit>>
        /\ pc'[w] = "watch" /\ job'[w] = d
        /\ \A v \in Workers \ {w} : pc'[v] = pc[v] /\ job'[v] = job[v] /\ acts'[v] = acts[v]
    BY <1>2 DEF Deliver, redis, IInv, TypeOK
  <2> QED
    BY <1>0, <1>2, <2>1, LocalStep DEF Deliver, Deliverable
<1>3. ASSUME NEW w \in Workers, Watch(w) PROVE IInv'
  <2>1. /\ UNCHANGED <<now, pubAt, rule, receipt, job, acts, applies, audit>>
        /\ pc'[w] = "get"
        /\ \A v \in Workers \ {w} : pc'[v] = pc[v] /\ (v \in dirty <=> v \in dirty')
    BY <1>3 DEF Watch, redis, IInv, TypeOK
  <2> QED
    BY <1>0, <1>3, <2>1, LocalStep DEF Watch, IInv, JobOK
<1>4. ASSUME NEW w \in Workers, GetReceipt(w) PROVE IInv'
  <2>1. /\ UNCHANGED <<now, pubAt, rule, receipt, job, applies, audit>>
        /\ \A v \in Workers \ {w} : /\ pc'[v] = pc[v] /\ acts'[v] = acts[v]
                                    /\ v \in dirty <=> v \in dirty'
    BY <1>4 DEF GetReceipt, redis, IInv, TypeOK
  <2>2. /\ job[w] \in Detections /\ pubAt[job[w]] # NotSet
        /\ now <= pubAt[job[w]] + DeliveryWindow
    BY <1>4 DEF GetReceipt, IInv, JobOK
  <2>3. CASE HasReceipt(job[w])
    <3>1. pc'[w] = "audit" /\ acts'[w] = receipt[job[w]].acts
      BY <1>4, <2>3 DEF GetReceipt, IInv, TypeOK
    <3>2. applies[job[w]] > 0 /\ Info[job[w]].type # "other"
      BY <2>2, <2>3 DEF IInv, Applied, HasReceipt, TypeOK, Receipt
    <3> QED
      BY <1>0, <2>1, <2>2, <3>1, <3>2, LocalStep
  <2>4. CASE ~HasReceipt(job[w])
    <3>1. pc'[w] = "plan"
      BY <1>4, <2>4 DEF GetReceipt, IInv, TypeOK
    <3>2. applies[job[w]] = 0
      BY <1>4, <2>2, <2>4, ReceiptOutlives DEF GetReceipt, IInv, TypeOK
    <3> QED
      BY <1>0, <2>1, <2>2, <3>1, <3>2, LocalStep
  <2> QED
    BY <2>3, <2>4
<1>5. ASSUME NEW w \in Workers, Plan(w) PROVE IInv'
  <2> DEFINE as == PlanActions(job[w], Pending(Info[job[w]].user))
  <2>1. /\ UNCHANGED <<now, pubAt, rule, receipt, job, applies, audit>>
        /\ pc'[w] = (IF as = {} THEN "audit" ELSE "exec")
        /\ acts'[w] = as
        /\ as # {} => dirty' = dirty
        /\ \A v \in Workers \ {w} : /\ pc'[v] = pc[v] /\ acts'[v] = acts[v]
                                    /\ v \in dirty <=> v \in dirty'
    BY <1>5 DEF Plan, redis, IInv, TypeOK
  <2>2. /\ job[w] \in Detections /\ pubAt[job[w]] # NotSet
        /\ now <= pubAt[job[w]] + DeliveryWindow
    BY <1>5 DEF Plan, IInv, JobOK
  <2>3. as = {} <=> Info[job[w]].type = "other"
    <3>1. Pending(Info[job[w]].user) \in BOOLEAN
      BY DEF Pending, Live
    <3> QED
      BY <2>2, <3>1, PlanFacts
  <2>4. w \notin dirty => applies[job[w]] = 0
    BY <1>5 DEF Plan, IInv, CleanWatch
  <2> HIDE DEF as
  <2>5. CASE as = {}
    BY <1>0, <2>1, <2>2, <2>3, <2>5, LocalStep
  <2>6. CASE as # {}
    <3>1. pc'[w] = "exec" /\ acts'[w] # {} /\ dirty' = dirty
      BY <2>1, <2>6
    <3>2. acts'[w] = PlanActions(job'[w], Pending(Info[job'[w]].user))
      BY <2>1 DEF as
    <3> QED
      BY <1>0, <2>1, <2>2, <2>4, <3>1, <3>2, LocalStep
  <2> QED
    BY <2>5, <2>6
<1>6. ASSUME NEW w \in Workers, Exec(w) PROVE IInv'
  BY <1>0, <1>6, ExecStep
<1>7. ASSUME NEW w \in Workers, WatchError(w) PROVE IInv'
  <2>1. /\ UNCHANGED <<now, pubAt, rule, receipt, job, dirty, applies, audit>>
        /\ pc'[w] = "watch"
        /\ \A v \in Workers \ {w} : pc'[v] = pc[v] /\ acts'[v] = acts[v]
    BY <1>7 DEF WatchError, redis, IInv, TypeOK
  <2> QED
    BY <1>0, <1>7, <2>1, LocalStep DEF WatchError, IInv, JobOK
<1>8. ASSUME NEW w \in Workers, Audit(w) PROVE IInv'
  <2>1. /\ UNCHANGED <<now, pubAt, rule, receipt, dirty, applies>>
        /\ pc'[w] = "idle"
        /\ \A v \in Workers \ {w} : pc'[v] = pc[v] /\ job'[v] = job[v] /\ acts'[v] = acts[v]
        /\ audit' = audit \cup {[det |-> job[w], acts |-> acts[w]]}
    BY <1>8 DEF Audit, Return, redis, IInv, TypeOK
  <2>2. JobOK'
    BY <2>1 DEF IInv, JobOK
  <2>3. PublishedInThePast' /\ Applied'
    BY <2>1 DEF IInv, PublishedInThePast, Applied
  <2>4. CleanWatch'
    BY <2>1 DEF IInv, CleanWatch
  <2>5. CleanPlan'
    BY <2>1 DEF IInv, CleanPlan, Pending, Live
  <2>6. ReportOK'
    BY <2>1 DEF IInv, ReportOK
  <2>7. AuditAgrees'
    BY <1>8, <2>1 DEF IInv, AuditAgrees, ReportOK, Audit
  <2> QED
    BY <1>0, <2>2, <2>3, <2>4, <2>5, <2>6, <2>7 DEF IInv
<1>9. ASSUME NEW w \in Workers, Fail(w) PROVE IInv'
  <2>1. /\ UNCHANGED <<now, pubAt, rule, receipt, applies, audit>>
        /\ pc'[w] = "idle"
        /\ \A v \in Workers \ {w} : /\ pc'[v] = pc[v] /\ job'[v] = job[v]
                                    /\ acts'[v] = acts[v]
                                    /\ v \in dirty <=> v \in dirty'
    BY <1>9 DEF Fail, Return, redis, IInv, TypeOK
  <2> QED
    BY <1>0, <2>1, LocalStep
<1>10. ASSUME Override PROVE IInv'
  <2>0. \A w \in Workers : pc[w] = "exec" =>
           job[w] \in Detections /\ Info[job[w]].user \in Users
    BY InfoAssumption DEF IInv, JobOK
  <2>1. ASSUME NEW a \in ApiActions, AuditOverride(a)
        PROVE  audit' \subseteq audit \cup {[det |-> Api, acts |-> {b}] : b \in ApiActions}
    BY <2>1 DEF AuditOverride
  <2>2. ASSUME UNCHANGED <<now, pubAt, receipt, pc, job, acts, dirty, applies>>,
               audit' \subseteq audit \cup {[det |-> Api, acts |-> {b}] : b \in ApiActions},
               \A u \in Users : rule'[StepUpKey(u)] = rule[StepUpKey(u)]
        PROVE  IInv'
    <3>1. \A u \in Users : Pending(u)' = Pending(u)
      BY <2>2, PendingFrame
    <3> QED
      BY <1>0, <2>0, <2>2, <3>1, RuleStep
  <2>3. ASSUME NEW u \in Users, NEW ttl \in ManualTTLs \cup {QuarantineTTL},
               AddQuarantine(u, ttl)
        PROVE  IInv'
    <3>1. \A v \in Users : rule'[StepUpKey(v)] = rule[StepUpKey(v)]
      BY <2>3, KeyFacts DEF AddQuarantine, SetEx
    <3> QED
      BY <2>1, <2>2, <2>3, <3>1 DEF AddQuarantine, local, ApiActions
  <2>4. ASSUME NEW i \in Ips, NEW ttl \in ManualTTLs \cup {IpBlockTTL}, AddIpBlock(i, ttl)
        PROVE  IInv'
    <3>1. \A v \in Users : rule'[StepUpKey(v)] = rule[StepUpKey(v)]
      BY <2>4, KeyFacts DEF AddIpBlock, SetEx
    <3> QED
      BY <2>1, <2>2, <2>4, <3>1 DEF AddIpBlock, local, ApiActions
  <2>5. ASSUME NEW u \in Users, LiftQuarantine(u) PROVE IInv'
    <3>1. \A v \in Users : rule'[StepUpKey(v)] = rule[StepUpKey(v)]
      BY <2>5, KeyFacts, DelFacts DEF LiftQuarantine, IInv, TypeOK
    <3> QED
      BY <2>1, <2>2, <2>5, <3>1 DEF LiftQuarantine, local, ApiActions
  <2>6. ASSUME NEW i \in Ips, LiftIpBlock(i) PROVE IInv'
    <3>1. IpBlockKey(i) \in RuleKeys
      BY DEF RuleKeys
    <3>2. \A v \in Users : rule'[StepUpKey(v)] = rule[StepUpKey(v)]
      BY <2>6, <3>1, KeyFacts, DelFacts DEF LiftIpBlock, IInv, TypeOK
    <3> QED
      BY <2>1, <2>2, <2>6, <3>2 DEF LiftIpBlock, local, ApiActions
  <2>7. ASSUME NEW u \in Users, ClearStepUp(u) PROVE IInv'
    <3>1. ASSUME NEW w \in Workers, pc[w] = "exec", w \notin dirty'
          PROVE  Pending(Info[job[w]].user)' = Pending(Info[job[w]].user)
      <4>1. Info[job[w]].user # u
        BY <2>7, <3>1 DEF ClearStepUp, WatchingStepUp, Watching
      <4>2. rule'[StepUpKey(Info[job[w]].user)] = rule[StepUpKey(Info[job[w]].user)]
        BY <2>0, <2>7, <3>1, <4>1, KeyFacts, DelFacts DEF ClearStepUp, IInv, TypeOK
      <4> QED
        BY <2>7, <4>2 DEF ClearStepUp, local, Pending, Live
    <3> QED
      BY <1>0, <2>1, <2>7, <3>1, RuleStep DEF ClearStepUp, local, ApiActions
  <2> QED
    BY <1>10, <2>3, <2>4, <2>5, <2>6, <2>7 DEF Override
<1>11. ASSUME Tick PROVE IInv'
  <2>1. /\ UNCHANGED <<pubAt, rule, receipt, pc, job, acts, applies, audit>>
        /\ now \in Nat /\ now' = now + 1 /\ dirty \subseteq dirty'
    BY <1>11 DEF Tick, local, IInv, TypeOK
  <2>2. JobOK'
    <3> SUFFICES ASSUME NEW w \in Workers, pc[w] # "idle"
                 PROVE  /\ job[w] \in Detections /\ pubAt[job[w]] # NotSet
                        /\ now + 1 <= pubAt[job[w]] + DeliveryWindow
      BY <2>1 DEF JobOK
    <3>1. job[w] \in Detections /\ pubAt[job[w]] # NotSet
      BY DEF IInv, JobOK
    <3>2. now < pubAt[job[w]] + DeliveryWindow
      BY <1>11 DEF Tick
    <3>3. pubAt[job[w]] \in Nat
      BY <3>1 DEF IInv, TypeOK
    <3> QED
      BY <2>1, <3>1, <3>2, <3>3, ReceiptAssumption
  <2>3. PublishedInThePast'
    <3> SUFFICES ASSUME NEW d \in Detections, pubAt[d] # NotSet
                 PROVE  pubAt[d] <= now + 1
      BY <2>1 DEF PublishedInThePast
    <3>1. pubAt[d] \in Nat /\ pubAt[d] <= now
      BY DEF IInv, TypeOK, PublishedInThePast
    <3> QED
      BY <2>1, <3>1
  <2>4. Applied' /\ ReportOK' /\ AuditAgrees'
    BY <2>1 DEF IInv, Applied, ReportOK, AuditAgrees
  <2>5. CleanWatch'
    BY <2>1 DEF IInv, CleanWatch
  <2>6. CleanPlan'
    <3> SUFFICES ASSUME NEW w \in Workers, pc[w] = "exec"
                 PROVE  /\ acts[w] # {}
                        /\ w \notin dirty' =>
                             acts[w] = PlanActions(job[w], Pending(Info[job[w]].user)')
      BY <2>1 DEF CleanPlan, Pending
    <3> DEFINE k == StepUpKey(Info[job[w]].user)
    <3>1. k \in RuleKeys
      BY InfoAssumption, KeyFacts DEF IInv, JobOK
    <3>2. rule[k].exp \in Nat
      BY <3>1 DEF IInv, TypeOK, Rule
    <3>3. w \notin dirty' => w \notin dirty /\ rule[k].exp # now + 1
      BY <1>11 DEF Tick, Watching
    <3>4. w \notin dirty' => Pending(Info[job[w]].user)' = Pending(Info[job[w]].user)
      BY <2>1, <3>2, <3>3 DEF Pending, Live
    <3> QED
      BY <3>3, <3>4 DEF IInv, CleanPlan
  <2> QED
    BY <1>0, <2>2, <2>3, <2>4, <2>5, <2>6 DEF IInv
<1>12. ASSUME UNCHANGED vars PROVE IInv'
  BY <1>0, <1>12 DEF vars, IInv, JobOK, PublishedInThePast, Applied, CleanWatch,
     CleanPlan, ReportOK, AuditAgrees, Pending, Live
<1> QED
  BY <1>1, <1>2, <1>3, <1>4, <1>5, <1>6, <1>7, <1>8, <1>9, <1>10, <1>11, <1>12
     DEF Next, Step

-----------------------------------------------------------------------------
(* The theorems *)

\* The inductive invariant holds in every reachable state.
THEOREM InvariantHolds == Spec => []IInv
<1>1. Init => IInv
  BY InitInv
<1>2. IInv /\ [Next]_vars => IInv'
  BY NextInv
<1> QED
  BY <1>1, <1>2, PTL DEF Spec

\* Type correctness of the containment engine and the overrides.
THEOREM TypeCorrect == Spec => []TypeOK
<1>1. IInv => TypeOK
  BY DEF IInv
<1> QED
  BY <1>1, InvariantHolds, PTL

\* Containment of a detection takes effect at most once, whatever is
\* redelivered, retried or lost, for any number of workers.
THEOREM AtMostOnce == Spec => []AppliedAtMostOnce
<1>1. IInv => AppliedAtMostOnce
  BY DEF IInv, Applied, AppliedAtMostOnce
<1> QED
  BY <1>1, InvariantHolds, PTL

\* Whatever the audit log says of a detection is what was done.
THEOREM AuditIsTruthful == Spec => []AuditAgrees
<1>1. IInv => AuditAgrees
  BY DEF IInv
<1> QED
  BY <1>1, InvariantHolds, PTL

\* Only EXEC applies a detection, and it applies the one it is about.
LEMMA OnlyExecApplies ==
  ASSUME IInv, [Next]_vars, NEW d \in Detections, applies'[d] # applies[d]
  PROVE  \E w \in Workers : Exec(w) /\ job[w] = d
<1>1. ASSUME UNCHANGED applies PROVE FALSE
  BY <1>1
<1>2. PICK w \in Workers : Exec(w)
  BY <1>1 DEF Next, vars, Step, Override, Publish, Deliver, Watch, GetReceipt, Plan,
     WatchError, Audit, Fail, AddQuarantine, AddIpBlock, LiftQuarantine, LiftIpBlock,
     ClearStepUp, Tick
<1>3. job[w] = d
  BY <1>2 DEF Exec, IInv, TypeOK
<1> QED
  BY <1>2, <1>3

\* A geo anomaly escalates exactly when a step-up is pending at the instant it
\* takes effect: the WATCH on the step-up key closes the race between _plan and
\* EXEC.
THEOREM EscalationExact == Spec => EscalationIsExact
<1>1. IInv /\ [Next]_vars =>
        [\A d \in Detections :
           applies'[d] # applies[d] /\ Info[d].type = "geo_velocity_anomaly" =>
             ("quarantine" \in receipt'[d].acts <=> Pending(Info[d].user))]_vars
  <2> SUFFICES ASSUME IInv, [Next]_vars, NEW d \in Detections,
                      applies'[d] # applies[d], Info[d].type = "geo_velocity_anomaly"
               PROVE  "quarantine" \in receipt'[d].acts <=> Pending(Info[d].user)
    OBVIOUS
  <2>1. PICK w \in Workers : Exec(w) /\ job[w] = d
    BY OnlyExecApplies
  <2>2. receipt'[d].acts = PlanActions(d, Pending(Info[d].user))
    BY <2>1 DEF Exec, IInv, TypeOK, CleanPlan
  <2>3. Pending(Info[d].user) \in BOOLEAN
    BY DEF Pending, Live
  <2> QED
    BY <2>2, <2>3, PlanFacts
<1> QED
  BY <1>1, InvariantHolds, PTL DEF Spec, EscalationIsExact

-----------------------------------------------------------------------------
(* Refinement *)

Done == [d \in Detections |-> receipt[d].acts]
Published == {d \in Detections : pubAt[d] # NotSet}

\* The initial state of the workers is the initial state of the abstraction.
LEMMA InitRefines == Init => Once!Init
BY DEF Init, Once!Init, NoReceipt, Once!RuleKeys, Once!NoRule, RuleKeys, NoRule,
       Once!QuarantineKey, Once!StepUpKey, Once!IpBlockKey,
       QuarantineKey, StepUpKey, IpBlockKey

\* Steps in which nothing the abstraction can see changes.
LEMMA StutterRefines ==
  ASSUME UNCHANGED <<now, pubAt, rule, receipt, applies, audit>>
  PROVE  UNCHANGED Once!onceVars
BY DEF Once!onceVars

\* The operators of Enforcement mean the same in both specifications.
LEMMA SameOperators ==
  /\ \A d, q : Once!PlanActions(d, q) = PlanActions(d, q)
  /\ Once!RuleKeys = RuleKeys /\ Once!RuleTTL = RuleTTL
  /\ \A d, as : Once!WriteKeys(d, as) = WriteKeys(d, as)
  /\ \A r, ks, ttl, by, t : Once!SetEx(r, ks, ttl, by, t) = SetEx(r, ks, ttl, by, t)
  /\ \A r, k : Once!Del(r, k) = Del(r, k)
  /\ \A r, k, t : Once!Live(r, k, t) = Live(r, k, t)
  /\ \A u : Once!StepUpKey(u) = StepUpKey(u)
<1>1. Once!RuleKeys = RuleKeys
  BY DEF Once!RuleKeys, RuleKeys, Once!QuarantineKey, Once!StepUpKey, Once!IpBlockKey,
         QuarantineKey, StepUpKey, IpBlockKey
<1>2. Once!RuleTTL = RuleTTL
  BY <1>1, Zenon DEF Once!RuleTTL, RuleTTL
<1>3. \A d, q : Once!PlanActions(d, q) = PlanActions(d, q)
  BY Zenon DEF Once!PlanActions, PlanActions, Once!HardQuarantineTypes, HardQuarantineTypes
<1>4. \A d, as : Once!WriteKeys(d, as) = WriteKeys(d, as)
  BY <1>1, Zenon DEF Once!WriteKeys, WriteKeys, Once!QuarantineKey, Once!StepUpKey,
     Once!IpBlockKey, QuarantineKey, StepUpKey, IpBlockKey
<1>5. \A r, ks, ttl, by, t : Once!SetEx(r, ks, ttl, by, t) = SetEx(r, ks, ttl, by, t)
  BY <1>1, Zenon DEF Once!SetEx, SetEx
<1>6. \A r, k : Once!Del(r, k) = Del(r, k)
  BY Zenon DEF Once!Del, Del, Once!NoRule, NoRule
<1>7. \A r, k, t : Once!Live(r, k, t) = Live(r, k, t)
  BY Zenon DEF Once!Live, Live
<1>8. \A u : Once!StepUpKey(u) = StepUpKey(u)
  BY Zenon DEF Once!StepUpKey, StepUpKey
<1> QED
  BY <1>1, <1>2, <1>3, <1>4, <1>5, <1>6, <1>7, <1>8

\* EXEC is the step in which a detection takes effect.
LEMMA ExecRefines ==
  ASSUME IInv, NEW w \in Workers, Exec(w)
  PROVE  Once!Next
<1>0. PICK d \in Detections : d = job[w]
  BY DEF Exec, IInv, JobOK
<1>1. pubAt[d] # NotSet /\ applies[d] = 0
  BY <1>0 DEF Exec, IInv, JobOK, CleanWatch
<1>2. acts[w] = PlanActions(d, Live(rule, StepUpKey(Info[d].user), now)) /\ acts[w] # {}
  BY <1>0 DEF Exec, IInv, CleanPlan, Pending
<1>3. receipt'[d].acts = acts[w]
  BY <1>0 DEF Exec, IInv, TypeOK
<1>4. \A e \in Detections \ {d} : receipt'[e] = receipt[e]
  BY <1>0 DEF Exec, IInv, TypeOK
<1>5. Done' = [Done EXCEPT ![d] = acts[w]]
  <2>1. \A e \in Detections : Done'[e] = IF e = d THEN acts[w] ELSE Done[e]
    BY <1>3, <1>4 DEF Done
  <2> QED
    BY <2>1 DEF Done
<1>6. Done[d] = {} /\ d \in Published
  BY <1>1 DEF Done, Published, IInv, Applied
<1>7. /\ rule' = SetEx(rule, WriteKeys(d, acts[w]), RuleTTL, d, now)
      /\ UNCHANGED <<now, pubAt, audit>>
  BY <1>0 DEF Exec
<1>8. Once!Apply(d)
  BY <1>2, <1>5, <1>6, <1>7, SameOperators DEF Once!Apply, Done, Published
<1> QED
  BY <1>8 DEF Once!Next

\* The audit record of a worker is one the abstraction allows.
LEMMA AuditRefines ==
  ASSUME IInv, NEW w \in Workers, Audit(w)
  PROVE  Once!Next
<1>0. PICK d \in Detections : d = job[w]
  BY DEF Audit, IInv, JobOK
<1>1. pubAt[d] # NotSet
  BY <1>0 DEF Audit, IInv, JobOK
<1>2. /\ audit' = audit \cup {[det |-> d, acts |-> acts[w]]}
      /\ UNCHANGED <<now, pubAt, rule, receipt, applies>>
  BY <1>0 DEF Audit, redis
<1>3. CASE Info[d].type = "other"
  <2>1. acts[w] = {}
    BY <1>0, <1>3 DEF Audit, IInv, ReportOK
  <2>2. Once!Audit(d)
    BY <1>1, <1>2, <1>3, <2>1 DEF Once!Audit
  <2> QED
    BY <2>2 DEF Once!Next
<1>4. CASE Info[d].type # "other"
  <2>1. applies[d] > 0 /\ acts[w] = receipt[d].acts
    BY <1>0, <1>4 DEF Audit, IInv, ReportOK
  <2>2. Done[d] = acts[w] /\ Done[d] # {}
    BY <2>1 DEF Done, IInv, Applied
  <2>3. Once!Audit(d)
    BY <1>1, <1>2, <2>2 DEF Once!Audit, Done
  <2> QED
    BY <2>3 DEF Once!Next
<1> QED
  BY <1>3, <1>4
\* A manual override is one the abstraction allows.
LEMMA OverrideRefines ==
  ASSUME IInv, Override
  PROVE  Once!Next
<1>1. ASSUME NEW k \in RuleKeys, NEW a \in ApiActions, AuditOverride(a),
             UNCHANGED <<now, pubAt, receipt>>,
             \/ rule' = Del(rule, k)
             \/ /\ k[1] # "step_up"
                /\ \E ttl \in ManualTTLs \cup {RuleTTL[k]} :
                     rule' = [rule EXCEPT ![k] = [by |-> Api, exp |-> now + ttl]]
      PROVE  Once!Next
  <2>1. Once!ApiActions = ApiActions
    BY DEF Once!ApiActions, ApiActions
  <2>2. audit' \in {audit, audit \cup {[det |-> Api, acts |-> {a}]}}
    BY <1>1 DEF AuditOverride
  <2>3. Once!Override
    BY <1>1, <2>1, <2>2, SameOperators DEF Once!Override
  <2> QED
    BY <2>3 DEF Once!Next
<1>2. ASSUME NEW k \in RuleKeys, NEW ttl \in Nat
      PROVE  SetEx(rule, {k}, [RuleTTL EXCEPT ![k] = ttl], Api, now)
               = [rule EXCEPT ![k] = [by |-> Api, exp |-> now + ttl]]
  BY RuleTTLType DEF SetEx, IInv, TypeOK
<1>3. ASSUME NEW u \in Users, NEW ttl \in ManualTTLs \cup {QuarantineTTL},
             AddQuarantine(u, ttl)
      PROVE  Once!Next
  <2>1. /\ QuarantineKey(u) \in RuleKeys /\ QuarantineKey(u)[1] # "step_up"
        /\ RuleTTL[QuarantineKey(u)] = QuarantineTTL
    BY DEF RuleTTL, RuleKeys, QuarantineKey
  <2>2. rule' = [rule EXCEPT ![QuarantineKey(u)] = [by |-> Api, exp |-> now + ttl]]
    BY <1>2, <1>3, <2>1, TTLAssumption DEF AddQuarantine
  <2> QED
    BY <1>1, <1>3, <2>1, <2>2 DEF AddQuarantine, ApiActions
<1>4. ASSUME NEW i \in Ips, NEW ttl \in ManualTTLs \cup {IpBlockTTL}, AddIpBlock(i, ttl)
      PROVE  Once!Next
  <2>1. /\ IpBlockKey(i) \in RuleKeys /\ IpBlockKey(i)[1] # "step_up"
        /\ RuleTTL[IpBlockKey(i)] = IpBlockTTL
    BY DEF RuleTTL, RuleKeys, IpBlockKey
  <2>2. rule' = [rule EXCEPT ![IpBlockKey(i)] = [by |-> Api, exp |-> now + ttl]]
    BY <1>2, <1>4, <2>1, TTLAssumption DEF AddIpBlock
  <2> QED
    BY <1>1, <1>4, <2>1, <2>2 DEF AddIpBlock, ApiActions
<1>5. ASSUME NEW u \in Users, LiftQuarantine(u) PROVE Once!Next
  BY <1>1, <1>5, KeyFacts DEF LiftQuarantine, ApiActions
<1>6. ASSUME NEW i \in Ips, LiftIpBlock(i) PROVE Once!Next
  <2>1. IpBlockKey(i) \in RuleKeys
    BY DEF RuleKeys
  <2> QED
    BY <1>1, <1>6, <2>1 DEF LiftIpBlock, ApiActions
<1>7. ASSUME NEW u \in Users, ClearStepUp(u) PROVE Once!Next
  BY <1>1, <1>7, KeyFacts DEF ClearStepUp, ApiActions
<1> QED
  BY <1>3, <1>4, <1>5, <1>6, <1>7 DEF Override

\* Every step of the detailed specification is a step of the abstract one or
\* leaves what it can see alone.
LEMMA NextRefines == IInv /\ [Next]_vars => [Once!Next]_(Once!onceVars)
<1> SUFFICES ASSUME IInv, [Next]_vars PROVE Once!Next \/ UNCHANGED Once!onceVars
  OBVIOUS
<1>1. ASSUME NEW d \in Detections, Publish(d) PROVE Once!Next
  <2>1. /\ UNCHANGED <<now, rule, receipt, audit>>
        /\ pubAt'[d] = now /\ now # NotSet
        /\ \A e \in Detections \ {d} : pubAt'[e] = pubAt[e]
    BY <1>1, ValuesAssumption DEF Publish, redis, IInv, TypeOK
  <2>2. Published' = Published \cup {d}
    BY <2>1 DEF Published
  <2>3. Once!Publish(d)
    BY <2>1, <2>2 DEF Once!Publish, Published
  <2> QED
    BY <2>3 DEF Once!Next
<1>2. ASSUME NEW w \in Workers, Step(w) \/ Fail(w) \/ \E d \in Detections : Deliver(w, d)
      PROVE  Once!Next \/ UNCHANGED Once!onceVars
  <2>1. CASE Exec(w)
    BY <2>1, ExecRefines
  <2>2. CASE Audit(w)
    BY <2>2, AuditRefines
  <2>3. CASE ~Exec(w) /\ ~Audit(w)
    <3>1. UNCHANGED <<now, pubAt, rule, receipt, applies, audit>>
      BY <1>2, <2>3 DEF Step, Deliver, Watch, GetReceipt, Plan, WatchError, Fail, redis
    <3> QED
      BY <3>1, StutterRefines
  <2> QED
    BY <2>1, <2>2, <2>3
<1>3. ASSUME Override PROVE Once!Next
  BY <1>3, OverrideRefines
<1>4. ASSUME Tick PROVE Once!Next
  <2>1. Once!Tick
    BY <1>4 DEF Tick, Once!Tick
  <2> QED
    BY <2>1 DEF Once!Next
<1>5. ASSUME UNCHANGED vars PROVE UNCHANGED Once!onceVars
  BY <1>5 DEF vars, Once!onceVars
<1> QED
  BY <1>1, <1>2, <1>3, <1>4, <1>5 DEF Next

\* Several workers with WATCH, retries, failures and redelivery implement a
\* containment engine in which each detection takes effect once, in one step.
THEOREM Refinement == Spec => ImplementsOnce
<1>1. Init => Once!Init
  BY InitRefines
<1>2. IInv /\ [Next]_vars => [Once!Next]_(Once!onceVars)
  BY NextRefines
<1> QED
  BY <1>1, <1>2, InvariantHolds, PTL DEF Spec, ImplementsOnce, Once!Spec
=============================================================================
