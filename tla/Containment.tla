------------------------------ MODULE Containment ------------------------------
(***************************************************************************)
(* The containment engine applying detections to the enforcement rules in  *)
(* Redis (containment_engine/containment_actions.py and pipeline.py),      *)
(* together with the control API's manual overrides of the same rules      *)
(* (api/main.py).                                                          *)
(*                                                                         *)
(* Several workers run apply_containment concurrently.  A call is four     *)
(* Redis round trips (WATCH, GET receipt, EXISTS step-up, MULTI/EXEC) and  *)
(* then one audit record; other workers, the API and key expiry run        *)
(* between any two of them.  Detections are delivered at least once: any   *)
(* worker may be handed any published detection again, including one that  *)
(* another worker is applying at the moment.                               *)
(***************************************************************************)
EXTENDS Enforcement

CONSTANTS
  Workers,         \* containment-engine processes
  ReceiptTTL,      \* containment_receipt_ttl_seconds
  DeliveryWindow,  \* how long after publication a record is still handled:
                   \* Kafka retention plus the duration of one attempt
  MaxTime,         \* bound on the clock
  MaxOverrides     \* bound on the manual overrides of one behaviour

\* configs/redis_config.py: the receipt "must outlive Kafka retention".
ASSUME ReceiptAssumption ==
  /\ ReceiptTTL \in Nat /\ DeliveryWindow \in Nat
  /\ MaxTime \in Nat /\ MaxOverrides \in Nat
  /\ ReceiptTTL > DeliveryWindow

VARIABLES
  now,       \* the clock of the Redis server
  pubAt,     \* when each detection was published, or NotSet
  rule,      \* enforcement keys: [by, exp]
  receipt,   \* containment:applied:{id} keys: [acts, exp]
  pc,        \* where each worker is in apply_containment / handle_detection
  job,       \* the detection each worker is handling
  acts,      \* the worker's local list of actions, as a set
  dirty,     \* workers whose watched keys changed since their WATCH
  applies,   \* history: how many transactions each detection has executed
  audit,     \* audit-log: [det, acts] records
  overrides  \* how many manual overrides have been made

redis == <<now, rule, receipt>>
local == <<pc, job, acts>>
vars == <<now, pubAt, rule, receipt, pc, job, acts, dirty, applies, audit,
          overrides>>

Receipt == [acts: SUBSET Actions, exp: Nat]
NoReceipt == [acts |-> {}, exp |-> 0]

TypeOK ==
  /\ now \in Nat
  /\ pubAt \in [Detections -> Nat \cup {NotSet}]
  /\ rule \in [RuleKeys -> Rule]
  /\ receipt \in [Detections -> Receipt]
  /\ pc \in [Workers -> {"idle", "watch", "get", "plan", "exec", "audit"}]
  /\ job \in [Workers -> Detections \cup {NotSet}]
  /\ acts \in [Workers -> SUBSET Actions]
  /\ dirty \in SUBSET Workers
  /\ applies \in [Detections -> Nat]
  /\ audit \in SUBSET [det: Detections \cup {Api}, acts: SUBSET (Actions \cup ApiActions)]
  /\ overrides \in Nat

Init ==
  /\ now = 0
  /\ pubAt = [d \in Detections |-> NotSet]
  /\ rule = [k \in RuleKeys |-> NoRule]
  /\ receipt = [d \in Detections |-> NoReceipt]
  /\ pc = [w \in Workers |-> "idle"]
  /\ job = [w \in Workers |-> NotSet]
  /\ acts = [w \in Workers |-> {}]
  /\ dirty = {}
  /\ applies = [d \in Detections |-> 0]
  /\ audit = {}
  /\ overrides = 0

-----------------------------------------------------------------------------
(* Redis: what an open WATCH covers *)

HasReceipt(d) == receipt[d].exp > now
Pending(u) == Live(rule, StepUpKey(u), now)

Watching == {w \in Workers : pc[w] \in {"get", "plan", "exec"}}
WatchingReceiptNever(d) == {}
WatchingReceipt(d) == {w \in Watching : job[w] = d}
WatchingStepUpNever(u) == {}
WatchingStepUp(u) == {w \in Watching : Info[job[w]].user = u}

-----------------------------------------------------------------------------
(* Workers *)

\* The detection engine publishes a detection.
Publish(d) ==
  /\ pubAt[d] = NotSet
  /\ pubAt' = [pubAt EXCEPT ![d] = now]
  /\ UNCHANGED <<redis, local, dirty, applies, audit, overrides>>

Deliverable(d) == pubAt[d] # NotSet /\ now <= pubAt[d] + DeliveryWindow

\* The consumer loop hands the record to handle_record.
Deliver(w, d) ==
  /\ pc[w] = "idle" /\ Deliverable(d)
  /\ pc' = [pc EXCEPT ![w] = "watch"]
  /\ job' = [job EXCEPT ![w] = d]
  /\ UNCHANGED <<redis, pubAt, acts, dirty, applies, audit, overrides>>

WatchKeepingDirty(w) ==
  /\ pc[w] = "watch"
  /\ pc' = [pc EXCEPT ![w] = "get"]
  /\ UNCHANGED <<redis, pubAt, job, acts, dirty, applies, audit, overrides>>

\* pipe.watch(receipt, guard) on the fresh pipeline of this iteration
Watch(w) ==
  /\ pc[w] = "watch"
  /\ pc' = [pc EXCEPT ![w] = "get"]
  /\ dirty' = dirty \ {w}
  /\ UNCHANGED <<redis, pubAt, job, acts, applies, audit, overrides>>

GetReceiptIgnored(w) ==
  /\ pc[w] = "get"
  /\ pc' = [pc EXCEPT ![w] = "plan"]
  /\ UNCHANGED <<redis, pubAt, job, acts, dirty, applies, audit, overrides>>

GetReceiptReplanned(w) ==
  /\ pc[w] = "get"
  /\ IF HasReceipt(job[w])
     THEN /\ acts' = [acts EXCEPT ![w] =
                        PlanActions(job[w], Pending(Info[job[w]].user))]
          /\ pc' = [pc EXCEPT ![w] = "audit"]
          /\ dirty' = dirty \ {w}
     ELSE /\ pc' = [pc EXCEPT ![w] = "plan"]
          /\ UNCHANGED <<acts, dirty>>
  /\ UNCHANGED <<redis, pubAt, job, applies, audit, overrides>>

\* prior = pipe.get(receipt); a receipt ends the call with the stored actions.
GetReceipt(w) ==
  /\ pc[w] = "get"
  /\ IF HasReceipt(job[w])
     THEN /\ acts' = [acts EXCEPT ![w] = receipt[job[w]].acts]
          /\ pc' = [pc EXCEPT ![w] = "audit"]
          /\ dirty' = dirty \ {w}
     ELSE /\ pc' = [pc EXCEPT ![w] = "plan"]
          /\ UNCHANGED <<acts, dirty>>
  /\ UNCHANGED <<redis, pubAt, job, applies, audit, overrides>>

\* _plan; a detection of unknown type is unwatched and leaves no receipt.
Plan(w) ==
  /\ pc[w] = "plan"
  /\ LET as == PlanActions(job[w], Pending(Info[job[w]].user)) IN
       /\ acts' = [acts EXCEPT ![w] = as]
       /\ pc' = [pc EXCEPT ![w] = IF as = {} THEN "audit" ELSE "exec"]
       /\ dirty' = IF as = {} THEN dirty \ {w} ELSE dirty
  /\ UNCHANGED <<redis, pubAt, job, applies, audit, overrides>>

\* MULTI ... EXEC: the receipt and every rule in one transaction.
Exec(w) ==
  LET d == job[w] IN
  /\ pc[w] = "exec" /\ w \notin dirty
  /\ receipt' = [receipt EXCEPT ![d] = [acts |-> acts[w], exp |-> now + ReceiptTTL]]
  /\ rule' = SetEx(rule, WriteKeys(d, acts[w]), RuleTTL, d, now)
  /\ dirty' = (dirty \cup WatchingReceipt(d)
                     \cup (IF "step_up_auth" \in acts[w]
                           THEN WatchingStepUp(Info[d].user) ELSE {})) \ {w}
  /\ applies' = [applies EXCEPT ![d] = @ + 1]
  /\ pc' = [pc EXCEPT ![w] = "audit"]
  /\ UNCHANGED <<now, pubAt, job, acts, audit, overrides>>

\* except WatchError: continue
WatchError(w) ==
  /\ pc[w] = "exec" /\ w \in dirty
  /\ pc' = [pc EXCEPT ![w] = "watch"]
  /\ acts' = [acts EXCEPT ![w] = {}]
  /\ UNCHANGED <<redis, pubAt, job, dirty, applies, audit, overrides>>

\* The call is over: its locals are gone.
Return(w) ==
  /\ pc' = [pc EXCEPT ![w] = "idle"]
  /\ job' = [job EXCEPT ![w] = NotSet]
  /\ acts' = [acts EXCEPT ![w] = {}]

\* emit_audit, and the return from handle_detection.
Audit(w) ==
  /\ pc[w] = "audit"
  /\ audit' = audit \cup {[det |-> job[w], acts |-> acts[w]]}
  /\ Return(w)
  /\ UNCHANGED <<redis, pubAt, dirty, applies, overrides>>

\* A Redis call raises, or the process dies: the call is abandoned wherever it
\* is (after EXEC too: the transaction ran, its reply was lost) and the record
\* is delivered again later.
Fail(w) ==
  /\ pc[w] # "idle"
  /\ Return(w)
  /\ dirty' = dirty \ {w}
  /\ UNCHANGED <<redis, pubAt, applies, audit, overrides>>

-----------------------------------------------------------------------------
(* Manual overrides (api/main.py, with a token configured) and time *)

\* _audit: sent best effort, so the record may never reach the topic.
AuditOverride(a) ==
  /\ overrides < MaxOverrides /\ overrides' = overrides + 1
  /\ audit' \in {audit, audit \cup {[det |-> Api, acts |-> {a}]}}

AddQuarantine(u, ttl) ==
  /\ rule' = SetEx(rule, {QuarantineKey(u)}, [RuleTTL EXCEPT ![QuarantineKey(u)] = ttl],
                   Api, now)
  /\ AuditOverride("manual_quarantine")
  /\ UNCHANGED <<now, receipt, pubAt, local, dirty, applies>>

AddIpBlock(i, ttl) ==
  /\ rule' = SetEx(rule, {IpBlockKey(i)}, [RuleTTL EXCEPT ![IpBlockKey(i)] = ttl],
                   Api, now)
  /\ AuditOverride("manual_ip_block")
  /\ UNCHANGED <<now, receipt, pubAt, local, dirty, applies>>

\* A DELETE that finds no key answers 404 and changes nothing.
LiftQuarantine(u) ==
  /\ Live(rule, QuarantineKey(u), now)
  /\ rule' = Del(rule, QuarantineKey(u))
  /\ AuditOverride("lift_quarantine")
  /\ UNCHANGED <<now, receipt, pubAt, local, dirty, applies>>

LiftIpBlock(i) ==
  /\ Live(rule, IpBlockKey(i), now)
  /\ rule' = Del(rule, IpBlockKey(i))
  /\ AuditOverride("lift_ip_block")
  /\ UNCHANGED <<now, receipt, pubAt, local, dirty, applies>>

ClearStepUp(u) ==
  /\ Pending(u)
  /\ rule' = Del(rule, StepUpKey(u))
  /\ dirty' = dirty \cup WatchingStepUp(u)
  /\ AuditOverride("clear_step_up")
  /\ UNCHANGED <<now, receipt, pubAt, local, applies>>

\* Keys expire as the clock passes their instant; a watched key that expires
\* aborts the transaction like any other change.  No attempt to handle a record
\* outlives its delivery window.
Tick ==
  /\ now < MaxTime
  /\ \A w \in Workers : pc[w] # "idle" => now < pubAt[job[w]] + DeliveryWindow
  /\ now' = now + 1
  /\ dirty' = dirty \cup
       {w \in Watching : \/ receipt[job[w]].exp = now + 1
                         \/ rule[StepUpKey(Info[job[w]].user)].exp = now + 1}
  /\ UNCHANGED <<pubAt, rule, receipt, local, applies, audit, overrides>>

-----------------------------------------------------------------------------

Step(w) ==
  Watch(w) \/ GetReceipt(w) \/ Plan(w) \/ Exec(w) \/ WatchError(w) \/ Audit(w)

Override ==
  \/ \E u \in Users :
       \/ \E ttl \in ManualTTLs \cup {QuarantineTTL} : AddQuarantine(u, ttl)
       \/ LiftQuarantine(u)
       \/ ClearStepUp(u)
  \/ \E i \in Ips :
       \/ \E ttl \in ManualTTLs \cup {IpBlockTTL} : AddIpBlock(i, ttl)
       \/ LiftIpBlock(i)

Next ==
  \/ \E d \in Detections : Publish(d)
  \/ \E w \in Workers :
       \/ \E d \in Detections : Deliver(w, d)
       \/ Step(w)
       \/ Fail(w)
  \/ Override
  \/ Tick

Spec == Init /\ [][Next]_vars

\* A worker inside apply_containment keeps running.
FairSpec == Spec /\ \A w \in Workers : WF_vars(Step(w))

-----------------------------------------------------------------------------
(* Properties *)

\* apply_containment's docstring: "Apply containment once for this detection
\* id", however often and to however many workers it is delivered, and
\* wherever those attempts fail.
AppliedAtMostOnce == \A d \in Detections : applies[d] <= 1

\* Whatever the audit log ever says of a detection is what was really done:
\* records written by redeliveries agree with the first one and with the
\* receipt, although the step-up state has changed since.
AuditAgrees ==
  \A r \in audit : r.det # Api =>
    IF Info[r.det].type = "other"
    THEN r.acts = {}
    ELSE applies[r.det] > 0 /\ r.acts = receipt[r.det].acts

\* "watched so geo escalation cannot race": when a geo anomaly takes effect it
\* escalates to a quarantine if and only if a step-up of that user is pending
\* at the instant of EXEC, not at the earlier instant when _plan looked.
EscalationIsExact ==
  [][\A d \in Detections :
       applies'[d] # applies[d] /\ Info[d].type = "geo_velocity_anomaly" =>
         ("quarantine" \in receipt'[d].acts <=> Pending(Info[d].user))]_vars

\* The WATCH/EXEC retry loop ends: a conflict is always somebody else's
\* progress, so a worker that keeps running leaves the loop (or its process
\* fails).
RetryLoopEnds ==
  \A w \in Workers : pc[w] = "watch" ~> pc[w] \in {"audit", "idle"}

-----------------------------------------------------------------------------
(* The abstract specification this one implements *)

\* What a detection has done is what its receipt says it did.
Once == INSTANCE ContainmentOnce WITH
  published <- {d \in Detections : pubAt[d] # NotSet},
  done <- [d \in Detections |-> receipt[d].acts]

\* Every behaviour of the workers, the API and the clock is one in which each
\* detection takes effect at most once, in a single step.
ImplementsOnce == Once!Spec
=============================================================================
