---------------------------- MODULE DetectionEngine ----------------------------
(***************************************************************************)
(* The detection engine: DetectionPipeline (detection_engine/pipeline.py), *)
(* the cooldown of repeated detections (cooldown.py) and the handler that  *)
(* confirms delivery before it keeps a cooldown (consumer.py).             *)
(*                                                                         *)
(* A stream is what one consumer process is fed: the records of its        *)
(* partitions in the order its polls return them.  Streams run             *)
(* concurrently over one Redis; every pipelined command is a step of its   *)
(* own, so the commands of two streams and changes of rules interleave     *)
(* and a Redis failure leaves any prefix of a pipeline executed.  A        *)
(* restarted process works the same stream from its committed offset.      *)
(*                                                                         *)
(* Undecodable records, the dead-letter topic, failed commits, shutdown    *)
(* and rebalancing are the subject of ConsumerLoop.  The decision service, *)
(* which shares Redis with this engine, is added by DecisionService, and   *)
(* with it phase C of the pipeline: without the service no record is ever  *)
(* pre-scored.                                                             *)
(***************************************************************************)
EXTENDS Checks, Sequences

CONSTANTS
  Streams,
  Log,             \* per stream: the sequence of its events
  NoIp,            \* ip of an event that carries none
  Faults,          \* which faults happen: subset of {"produce", "redis", "crash"}
  MaxFaults,       \* bounds on the faults, cooldown expiries and changes of
  MaxExpiries,     \*   enforcement rules of one behaviour
  MaxRuleChanges

\* The delivery ref of a record, and the event it carries.
Refs == UNION {{<<s, o>> : o \in 1 .. Len(Log[s])} : s \in Streams}
Ev(r) == Log[r[1]][r[2]]
IsTx(r) == Ev(r).kind = "tx"

Users == {Ev(r).user : r \in Refs}
Ips == {Ev(r).ip : r \in Refs} \ {NoIp}
EventIds == {Ev(r).id : r \in Refs}
Hashes == {Ev(r).hash : r \in Refs} \cup {Ev(r).goHash : r \in Refs}
Subjects == {<<"user", u>> : u \in Users} \cup {<<"ip", i>> : i \in Ips}
RuleSubjects == Subjects \cup {<<"step_up", u>> : u \in Users}

\* Producers key records by user: the records of a user's topic share a partition,
\* and the replay hash contains the user.  goHash is the hash of the decision
\* service: it differs when the timestamp is not in UTC.
ASSUME LogAssumption ==
  /\ \A s \in Streams : Log[s] \in Seq([kind: {"tx", "auth"}, id: EventIds, user: Users,
                            ip: Ips \cup {NoIp}, hash: Hashes, goHash: Hashes,
                            at: {Ev(r).at : r \in Refs}, ts: Int, success: BOOLEAN])
  /\ \A q, r \in Refs :
       /\ Ev(q).user = Ev(r).user /\ Ev(q).kind = Ev(r).kind => q[1] = r[1]
       /\ Ev(q).hash = Ev(r).hash => Ev(q).user = Ev(r).user
       /\ ~IsTx(r) => Ev(r).ip # NoIp
  /\ MaxFaults \in Nat /\ MaxExpiries \in Nat /\ MaxRuleChanges \in Nat

\* The refs of the decision service's calls.  A topic is not named "decision".
DecisionRefs == {DecisionRef(id) : id \in EventIds}

\* What the detectors can come up with for each record: a detection is named by
\* what its stable id is derived from.
Id(ref, type, scope) == [ref |-> ref, type |-> type, scope |-> scope]
Ids == {d \in [ref: Refs, type: TxTypes \cup {"credential_stuffing"},
                scope: {"", "user", "ip"}] :
          IF IsTx(d.ref) THEN d.type \in TxTypes /\ d.scope = ""
          ELSE d.type = "credential_stuffing" /\ d.scope # ""}

\* No value that Redis holds is taken for a missing key.
ASSUME NotSetAssumption ==
  /\ "decision" \notin Streams
  /\ NotSet \notin Refs /\ NotSet \notin DecisionRefs
  /\ NotSet \notin Ids /\ \A ts \in SUBSET TxTypes : NotSet # ts

\* cooldown_subject and cooldown_key of a detection.
CooldownSubject(d) ==
  IF d.scope = "ip" THEN <<"ip", Ev(d.ref).ip>> ELSE <<"user", Ev(d.ref).user>>
CooldownKey(d) == <<d.type, CooldownSubject(d)>>
CooldownKeys == {CooldownKey(d) : d \in Ids}

\* The key phase A looks up for a record.
Enforced(r) == IF IsTx(r) THEN <<"user", Ev(r).user>> ELSE <<"ip", Ev(r).ip>>

\* Messages: a detection, and the audit record of a refused event.
Det(d) == <<"det", d>>
Refused(r) == <<"refused", r>>
Messages == {Det(d) : d \in Ids} \cup {Refused(r) : r \in Refs}

VARIABLES
  committed,  \* per stream: records before this offset are done
  upto,       \* per stream: the end of the current batch
  phase,      \* per stream: where handle_batch is
  look,       \* per stream: records whose rule is still to be looked up
  todo,       \* per stream: records that are let through and still to be checked
  pre,        \* per stream: pre-scored records whose verdict is still to be fetched
  cand,       \* per stream: candidates whose cooldown is still to be claimed
  won,        \* per stream: detections that won their cooldown
  outbox,     \* per stream: messages handed to the producer
  delivered,  \* messages the broker has
  seen,       \* replay:seen:{hash}
  burst,      \* burst:{user}:1m
  session,    \* session:{user}
  fails,      \* auth:fail:user:{user}:1m and auth:fail:ip:{ip}:1m
  result,     \* decision:result:{event_id}, as the types of its reasons
  cool,       \* cooldown:{type}:{subject}, holding a detection id
  rules,      \* subjects with an enforcement rule: quarantine, ip block, step-up
  found,      \* history: detections the checks ever came up with
  cover,      \* history: the detection whose cooldown claim stood for this one
  barred,     \* history: records that phase A ever refused
  expired,    \* history: how often each cooldown key has expired
  faults,     \* faults so far
  changes     \* enforcement changes so far

work == <<look, todo, pre, cand, won>>
windows == <<seen, burst, session, fails>>
env == <<result, rules, barred, expired, changes>>
vars == <<committed, upto, phase, look, todo, pre, cand, won, outbox, delivered, seen, burst,
          session, fails, result, cool, rules, found, cover, barred, expired, faults, changes>>

Members == EventIds \X Int
Sessions == [at: {Ev(r).at : r \in Refs}, ts: Int] \cup {NotSet}

TypeOK ==
  /\ committed \in [Streams -> Nat] /\ upto \in [Streams -> Nat]
  /\ \A s \in Streams : committed[s] <= upto[s] /\ upto[s] <= Len(Log[s])
  /\ phase \in [Streams -> {"poll", "enforce", "run", "flush", "release", "commit"}]
  /\ look \in [Streams -> SUBSET Refs]
  /\ todo \in [Streams -> SUBSET Refs] /\ pre \in [Streams -> SUBSET Refs]
  /\ cand \in [Streams -> SUBSET Ids] /\ won \in [Streams -> SUBSET Ids]
  /\ outbox \in [Streams -> SUBSET Messages] /\ delivered \in SUBSET Messages
  /\ seen \in [Hashes -> Refs \cup DecisionRefs \cup {NotSet}]
  /\ burst \in [Users -> SUBSET Members] /\ fails \in [Subjects -> SUBSET Members]
  /\ session \in [Users -> Sessions]
  /\ result \in [EventIds -> (SUBSET TxTypes) \cup {NotSet}]
  /\ cool \in [CooldownKeys -> Ids \cup {NotSet}]
  /\ rules \in SUBSET RuleSubjects
  /\ found \in SUBSET Ids /\ cover \in [Ids -> Ids] /\ barred \in SUBSET Refs
  /\ expired \in [CooldownKeys -> Nat] /\ faults \in Nat /\ changes \in Nat

Init ==
  /\ committed = [s \in Streams |-> 0]
  /\ upto = [s \in Streams |-> 0]
  /\ phase = [s \in Streams |-> "poll"]
  /\ look = [s \in Streams |-> {}]
  /\ todo = [s \in Streams |-> {}]
  /\ pre = [s \in Streams |-> {}]
  /\ cand = [s \in Streams |-> {}]
  /\ won = [s \in Streams |-> {}]
  /\ outbox = [s \in Streams |-> {}]
  /\ delivered = {}
  /\ seen = [h \in Hashes |-> NotSet]
  /\ burst = [u \in Users |-> {}]
  /\ session = [u \in Users |-> NotSet]
  /\ fails = [x \in Subjects |-> {}]
  /\ result = [id \in EventIds |-> NotSet]
  /\ cool = [k \in CooldownKeys |-> NotSet]
  /\ rules = {}
  /\ found = {}
  /\ cover = [d \in Ids |-> d]
  /\ barred = {}
  /\ expired = [k \in CooldownKeys |-> 0]
  /\ faults = 0
  /\ changes = 0

Goto(s, ph) == phase' = [phase EXCEPT ![s] = ph]

Fault(kind) == kind \in Faults /\ faults < MaxFaults /\ faults' = faults + 1

-----------------------------------------------------------------------------
(* One attempt at a batch *)

\* The records of stream s behind its committed offset, up to an offset.
Upto(s, to) == {r \in Refs : r[1] = s /\ committed[s] < r[2] /\ r[2] <= to}
Batch(s) == Upto(s, upto[s])

\* The consumer hands over the next records of the stream.
Poll(s) ==
  /\ phase[s] = "poll"
  /\ \E to \in committed[s] + 1 .. Len(Log[s]) :
       /\ upto' = [upto EXCEPT ![s] = to]
       /\ look' = [look EXCEPT ![s] = Upto(s, to)]
  /\ Goto(s, "enforce")
  /\ UNCHANGED <<committed, todo, pre, cand, won, outbox, delivered, windows, cool, found,
                 cover, faults, env>>

\* Pipelines work through the records of a batch in order.
Foremost(r, rs) == r \in rs /\ \A q \in rs : r[2] <= q[2]

\* A. enforcement: the EXISTS of one record's rule.
Exists(s, r) ==
  /\ phase[s] = "enforce" /\ Foremost(r, look[s])
  /\ look' = [look EXCEPT ![s] = @ \ {r}]
  /\ \/ /\ Enforced(r) \in rules
        /\ barred' = barred \cup {r}
        /\ UNCHANGED todo
     \/ /\ Enforced(r) \notin rules
        /\ todo' = [todo EXCEPT ![s] = @ \cup {r}]
        /\ UNCHANGED barred
  /\ UNCHANGED <<committed, upto, phase, pre, cand, won, outbox, delivered, windows, result,
                 cool, rules, found, cover, expired, faults, changes>>

\* The events under a rule are refused and audited; the others are checked,
\* except successful logins.
Enforce(s) ==
  /\ phase[s] = "enforce" /\ look[s] = {}
  /\ outbox' = [outbox EXCEPT ![s] = {Refused(r) : r \in Batch(s) \ todo[s]}]
  /\ todo' = [todo EXCEPT ![s] = {r \in @ : IsTx(r) \/ ~Ev(r).success}]
  /\ Goto(s, "run")
  /\ UNCHANGED <<committed, upto, look, pre, cand, won, delivered, windows, cool, found, cover,
                 faults, env>>

\* The check of record r comes up with detections ds, or r is pre-scored.
Checked(s, r, prescored, ds) ==
  /\ phase[s] = "run" /\ Foremost(r, todo[s])
  /\ todo' = [todo EXCEPT ![s] = @ \ {r}]
  /\ pre' = [pre EXCEPT ![s] = IF prescored THEN @ \cup {r} ELSE @]
  /\ cand' = [cand EXCEPT ![s] = @ \cup ds]
  /\ found' = found \cup ds
  /\ UNCHANGED <<committed, upto, phase, look, won, outbox, delivered, cool, cover, faults, env>>

\* The detections of types ts about a transaction record.
TxDetections(r, ts) == {d \in Ids : d.ref = r /\ d.type \in ts}

\* tx_check.lua for event e with replay hash h, delivered as ref: what it writes.
\* An event that is pre-scored advances nothing.
Prescored(ref, e, h) == ReplayStatus(seen[h], ref, e.id) = "prescored"
Window(e) == Slide(burst[e.user], e.id, e.ts, BurstWindow)

TxScript(ref, e, h) ==
  /\ seen' = [seen EXCEPT ![h] = SetNx(@, ref)]
  /\ burst' = IF Prescored(ref, e, h) THEN burst ELSE [burst EXCEPT ![e.user] = Window(e)]
  /\ session' = IF Prescored(ref, e, h) THEN session
                ELSE [session EXCEPT ![e.user] = Baseline(@, e)]

\* What its answer is interpreted as.
TxFindings(ref, e, h) ==
  InterpretReplay(ReplayStatus(seen[h], ref, e.id))
  \cup InterpretGeo(GeoStatus(session[e.user], e)) \cup InterpretBurst(ZCard(Window(e)))

\* B. the transaction check and the three transaction detectors.
CheckTx(s, r) ==
  LET e == Ev(r)
      skip == Prescored(r, e, e.hash)
  IN
  /\ IsTx(r)
  /\ TxScript(r, e, e.hash)
  /\ Checked(s, r, skip, IF skip THEN {} ELSE TxDetections(r, TxFindings(r, e, e.hash)))
  /\ UNCHANGED fails

\* B. auth_check.lua and the credential stuffing detector.
CheckAuth(s, r) ==
  LET e == Ev(r)
      user == <<"user", e.user>>
      ip == <<"ip", e.ip>>
      win(x) == Slide(fails[x], e.id, e.ts, AuthWindow)
      scopes == InterpretAuth(ZCard(win(user)), ZCard(win(ip)))
  IN
  /\ ~IsTx(r)
  /\ fails' = [fails EXCEPT ![user] = win(user), ![ip] = win(ip)]
  /\ Checked(s, r, FALSE, {d \in Ids : d.ref = r /\ d.scope \in scopes})
  /\ UNCHANGED <<seen, burst, session>>

\* Every check and fetch of the attempt is done.
Scored(s) == phase[s] = "run" /\ todo[s] = {} /\ pre[s] = {}

ClaimAnyway(s, d) ==
  /\ Scored(s) /\ d \in cand[s] /\ Foremost(d.ref, {c.ref : c \in cand[s]})
  /\ cand' = [cand EXCEPT ![s] = @ \ {d}]
  /\ cool' = [cool EXCEPT ![CooldownKey(d)] = d]
  /\ won' = [won EXCEPT ![s] = @ \cup {d}]
  /\ cover' = [cover EXCEPT ![d] = d]
  /\ UNCHANGED <<committed, upto, phase, look, todo, pre, outbox, delivered, windows, found, faults,
                 env>>

\* D. cooldown: SET NX; the first claimant of the key is let through.  (One
\* record's candidates have different keys: their order is left open.)
Claim(s, d) ==
  LET k == CooldownKey(d) IN
  /\ Scored(s) /\ d \in cand[s] /\ Foremost(d.ref, {c.ref : c \in cand[s]})
  /\ cand' = [cand EXCEPT ![s] = @ \ {d}]
  /\ cool' = [cool EXCEPT ![k] = SetNx(@, d)]
  /\ won' = [won EXCEPT ![s] = IF cool[k] = NotSet THEN @ \cup {d} ELSE @]
  /\ cover' = [cover EXCEPT ![d] = SetNx(cool[k], d)]
  /\ UNCHANGED <<committed, upto, phase, look, todo, pre, outbox, delivered, windows, found, faults,
                 env>>

Emit(s) ==
  /\ Scored(s) /\ cand[s] = {}
  /\ outbox' = [outbox EXCEPT ![s] = @ \cup {Det(d) : d \in won[s]}]
  /\ Goto(s, "flush")
  /\ UNCHANGED <<committed, upto, work, delivered, windows, cool, found, cover, faults, env>>

\* flush_and_verify in handle_batch: every message is acknowledged ...
FlushOk(s) ==
  /\ phase[s] = "flush"
  /\ delivered' = delivered \cup outbox[s]
  /\ outbox' = [outbox EXCEPT ![s] = {}]
  /\ Goto(s, "commit")
  /\ UNCHANGED <<committed, upto, work, windows, cool, found, cover, faults, env>>

\* ... or a send failed: one of this attempt's, of which the broker may have any,
\* or one left from an attempt that Redis cut short.
FlushFails(s) ==
  /\ phase[s] = "flush" /\ Fault("produce")
  /\ \E got \in SUBSET outbox[s] : delivered' = delivered \cup got
  /\ outbox' = [outbox EXCEPT ![s] = {}]
  /\ Goto(s, "release")
  /\ UNCHANGED <<committed, upto, work, windows, cool, found, cover, env>>

\* The batch is handled again, from phase A.
Restart(s) == Goto(s, "enforce") /\ look' = [look EXCEPT ![s] = Batch(s)]

ReleaseForgotten(s) ==
  /\ phase[s] = "release"
  /\ won' = [won EXCEPT ![s] = {}]
  /\ Restart(s)
  /\ UNCHANGED <<committed, upto, todo, pre, cand, outbox, delivered, windows, cool, found, cover,
                 faults, env>>

\* release_cooldown of the keys this attempt claimed; then the error is raised
\* again and the batch is retried from the start.
Release(s) ==
  /\ phase[s] = "release"
  /\ cool' = [k \in CooldownKeys |->
                IF \E d \in won[s] : CooldownKey(d) = k THEN NotSet ELSE cool[k]]
  /\ won' = [won EXCEPT ![s] = {}]
  /\ Restart(s)
  /\ UNCHANGED <<committed, upto, todo, pre, cand, outbox, delivered, windows, found, cover,
                 faults, env>>

\* A Redis call raises a transient error, anywhere in a pipeline or while
\* releasing: what the attempt had in memory is dropped and it starts over.
RedisFails(s) ==
  /\ phase[s] \in {"enforce", "run", "release"} /\ Fault("redis")
  /\ \E got \in SUBSET outbox[s] : delivered' = delivered \cup got
  /\ outbox' = [outbox EXCEPT ![s] = {}]
  /\ todo' = [todo EXCEPT ![s] = {}]
  /\ pre' = [pre EXCEPT ![s] = {}]
  /\ cand' = [cand EXCEPT ![s] = {}]
  /\ won' = [won EXCEPT ![s] = {}]
  /\ Restart(s)
  /\ UNCHANGED <<committed, upto, windows, cool, found, cover, env>>

CommitOneTooFar(s) ==
  /\ phase[s] = "commit"
  /\ committed' = [committed EXCEPT ![s] = upto[s] + 1]
  /\ won' = [won EXCEPT ![s] = {}]
  /\ Goto(s, "poll")
  /\ UNCHANGED <<upto, look, todo, pre, cand, outbox, delivered, windows, cool, found, cover, faults,
                 env>>

\* The loop commits the batch.
Commit(s) ==
  /\ phase[s] = "commit"
  /\ committed' = [committed EXCEPT ![s] = upto[s]]
  /\ won' = [won EXCEPT ![s] = {}]
  /\ Goto(s, "poll")
  /\ UNCHANGED <<upto, look, todo, pre, cand, outbox, delivered, windows, cool, found, cover, faults,
                 env>>

\* The process dies and is restarted at the committed offset.
Crash(s) ==
  /\ phase[s] # "poll" /\ Fault("crash")
  /\ \E got \in SUBSET outbox[s] : delivered' = delivered \cup got
  /\ outbox' = [outbox EXCEPT ![s] = {}]
  /\ upto' = [upto EXCEPT ![s] = committed[s]]
  /\ look' = [look EXCEPT ![s] = {}]
  /\ todo' = [todo EXCEPT ![s] = {}]
  /\ pre' = [pre EXCEPT ![s] = {}]
  /\ cand' = [cand EXCEPT ![s] = {}]
  /\ won' = [won EXCEPT ![s] = {}]
  /\ Goto(s, "poll")
  /\ UNCHANGED <<committed, windows, cool, found, cover, env>>

-----------------------------------------------------------------------------
(* The surroundings *)

\* A cooldown key reaches its TTL.  A batch may be retried for longer than that.
Expire(k) ==
  /\ cool[k] # NotSet /\ expired[k] < MaxExpiries
  /\ cool' = [cool EXCEPT ![k] = NotSet]
  /\ expired' = [expired EXCEPT ![k] = @ + 1]
  /\ UNCHANGED <<committed, upto, phase, work, outbox, delivered, windows, result,
                 rules, found, cover, barred, faults, changes>>

\* Containment, the control API or a TTL sets or removes an enforcement rule.
ChangeRule(x) ==
  /\ changes < MaxRuleChanges
  /\ rules' = IF x \in rules THEN rules \ {x} ELSE rules \cup {x}
  /\ changes' = changes + 1
  /\ UNCHANGED <<committed, upto, phase, work, outbox, delivered, windows, result,
                 cool, found, cover, barred, expired, faults>>

\* The steps of the process that works stream s.
Work(s) ==
  \/ Poll(s) \/ Enforce(s) \/ \E r \in look[s] : Exists(s, r)
  \/ \E r \in todo[s] : CheckTx(s, r) \/ CheckAuth(s, r)
  \/ \E d \in cand[s] : Claim(s, d)
  \/ Emit(s) \/ FlushOk(s) \/ Release(s) \/ Commit(s)

Break(s) == FlushFails(s) \/ RedisFails(s) \/ Crash(s)

Next ==
  \/ \E s \in Streams : Work(s) \/ Break(s)
  \/ \E k \in CooldownKeys : Expire(k)
  \/ \E x \in Subjects : ChangeRule(x)

Spec == Init /\ [][Next]_vars

-----------------------------------------------------------------------------
(* Properties *)

\* What became of a detection the checks came up with: it, or the detection
\* whose cooldown claim it yielded to, was delivered; or its event was refused
\* and audited under a rule that had come into force by the last attempt.
Accounted(d) == Det(cover[d]) \in delivered \/ Refused(d.ref) \in delivered

Committed(r) == r[2] <= committed[r[1]]

\* "A crash between handling a record and delivering its detection cannot
\* commit the input offset with the detection lost", nor can a retried batch.
NoDetectionLost == \A d \in found : Committed(d.ref) => Accounted(d)

\* The same of replay detections.  Releasing the cooldown claims before a retry
\* (handle_batch in consumer.py) is what makes it hold when deliveries fail: the
\* retry finds them again, because the replay key is never rewritten.
ReplayNeverLost ==
  \A d \in found : d.type = "replay_attack" /\ Committed(d.ref) => Accounted(d)

\* A request delivered by two records.
Resent(q, r) == q # r /\ IsTx(q) /\ IsTx(r) /\ Ev(q).hash = Ev(r).hash
Reported(r) == Accounted(Id(r, "replay_attack", ""))

\* "A real replay arrives through a different delivery -> replay_attack": when
\* two deliveries of one request are behind the committed offset, one of them
\* was reported (or its user's rule refused it), whatever was retried and
\* whatever event id the second one carries.
ResendReported ==
  \A q, r \in Refs :
    Resent(q, r) /\ Committed(q) /\ Committed(r) => Reported(q) \/ Reported(r)

\* The first delivery of a request.
Original(r) == IsTx(r) /\ \A q \in Refs : Resent(q, r) => r[2] < q[2]

\* Retries, redeliveries and crashes never make a replay of the delivery that
\* first carried the transaction, unless one attempt refused it: if its rule ends
\* within that attempt's phase A, the resend behind it is checked before it.
OriginalNeverFlagged ==
  \A r \in Refs :
    Original(r) /\ r \notin barred => Det(Id(r, "replay_attack", "")) \notin delivered

\* "The first detection for a given (detection_type, subject) is emitted;
\* repeats ... are dropped", across several processes: each cooldown key lets
\* one detection id through per window.
OnePerWindow ==
  \A k \in CooldownKeys :
    Cardinality({d \in Ids : CooldownKey(d) = k /\ Det(d) \in delivered}) <= 1 + expired[k]
=============================================================================
