# RTACE in TLA+

A model of RTACE, the real-time transaction anomaly and containment engine, with
TLC runs on small instances and TLAPS proofs for all of them. Paths are relative to
the repository (`src/`).

## 1. The system

| Component | State | Operations | Talks to |
|---|---|---|---|
| Detection engine (`detection_engine/pipeline.py`, `consumer.py`, `cooldown.py`) | none of its own between batches; Redis: replay keys, burst and failed-login windows, session baselines, cooldown keys | per batch: A enforcement lookup, B one Lua script per event, C fetch of pre-scored results, D cooldown claims, emit, delivery gate, release | Redis, Kafka (`detections`, `audit-log`) |
| Lua scripts (`lua/*.lua`) and detectors | the keys above | replay / burst / geo check; failed-login windows | called by the detection engine and the decision service |
| Decision service (Go) | `decision:result:{event_id}` | `Decide` | Redis; its results are read by phase C |
| Containment engine (`containment_engine/`) | Redis: enforcement rules and receipts | `apply_containment` (WATCH, GET, EXISTS, MULTI/EXEC), audit | Kafka (`detections` in, `audit-log` out) |
| Control API (`api/main.py`) | the same enforcement rules | add / lift quarantine, add / lift ip block, clear step-up, list | Redis, Kafka |
| Consumer loop (`common/consumer_loop.py`) and Kafka clients (`common/kafka_client.py`) | consumer position, retry state, the producer's error latch | poll, decode, handle, back off, dead-letter, flush and verify, commit, shut down | Kafka; runs both engines' handlers |
| Authoriser (`simulator/transaction_simulator.py` plays it) | none | ask `Decide`, then publish the record whatever came back | decision service, Kafka |
| Metrics, configuration, deployment | - | - | - |

What is hard about it: everything shared lives in Redis and is reached in several
round trips; both engines run as several processes in consumer groups; records are
redelivered, batches retried in place for as long as a dependency is down, processes
die or are evicted anywhere; acknowledgements are asynchronous. Correctness rests on
a chain of devices (stable ids, receipts with WATCH, cooldown claims with release,
the error latch, commit after flush), and each must hold in every order of events.

What makes each part correct:

* containment: a detection takes effect once, the escalation is decided on current
  state, the audit log states what was done, the retry loop ends;
* consumer loop: nothing is committed before what it led to is durable, commits do
  not go backwards, a poison record does not wedge a partition, shutdown completes;
* detection: a detection found is delivered (or yields to one that is) before its
  record is committed, originals are not taken for replays, one detection per
  cooldown window, a resent request is reported;
* decision service: retries get the verdict already given, and asking first changes
  neither what is reported nor what is contained;
* the whole: what was denied or challenged ends in containment, and what the cooldown
  suppresses loses nothing.

The hazards behind these are listed in `PROJECT.json`, each at its line.

## 2. Modules

```
Enforcement ── ContainmentOnce          (abstract: one step per detection)
     └──────── Containment ── MCContainment, ContainmentProofs
ConsumerLoop ── MCConsumerLoop, ConsumerLoopProofs
Checks ── DetectionEngine ── DecisionService ── Rtace (with ContainmentOnce)
              │ MCDetectionEngine   │ MCDecisionService   │ MCRtace     (MCLogs: events)
              │                     │                     │
              DetectionEngineProofs │                     │
                ├ DetectionLossProofs ───┐                │
                └ DetectionWindowProofs ─┴ DecisionServiceProofs ── RtaceProofs
```

### Enforcement, Containment, ContainmentOnce

`Enforcement` has no state: rule keys with a value and an expiry instant, and the
policy `_plan` as `PlanActions` / `WriteKeys`. `Containment` has one action per Redis
round trip of `apply_containment`: `Watch`, `GetReceipt`, `Plan` (EXISTS), `Exec` or
`WatchError`, then `Audit`. `dirty` holds the workers whose watched keys changed since
their WATCH; every write, delete and expiry of a receipt or a step-up key adds the
workers watching it. `Fail` abandons a call at any point (a Redis error, a crash, a lost
reply after EXEC); `Deliver` may hand any published detection to any worker, again and
again, as long as Kafka may redeliver it. The five API overrides write the same
rules; their audit record may be lost (`_audit` is best effort). `Tick` moves the Redis
clock.

`ContainmentOnce` is what that amounts to: each detection takes effect in one step,
against the rules of that instant. `ImplementsOnce` maps `done` to the receipts and
states that `Containment` implements it.

### ConsumerLoop

One action per step of `run_consumer_loop` and `_handle_batch_with_retry`. The handler is
abstract: a record is good (it leads to a message), poison, undecodable or a
tombstone, so the model covers both engines. `inflight` and `stale` are the sends of
this attempt and of earlier ones; the producer's I/O thread acknowledges (`Ack`) or
fails (`Nack`, the broker may have it all the same) each at any time, and `Nack` sets the
latch that `FlushAndVerify` reads. `Evict` takes the partitions of a working member;
the coordinator accepts commits from the current owner only (external: Kafka).

### Checks, DetectionEngine

`Checks` holds the two Lua scripts and the detectors as operators on the values of the
keys. `DetectionEngine` runs them: `Poll`, `Exists` (phase A, one step per `EXISTS`; `look` holds the
records still to be looked up), `Enforce` (refusals audited), `CheckTx` / `CheckAuth` (phase B,
one step per record), `Claim` (phase D, one step per `SET NX`), `Emit`, `FlushOk` / `FlushFails` and
`Release` (the delivery gate of `consumer.py`), `Commit`. A stream is what one consumer process is
fed. `FlushFails` needs nothing in flight: the latch may be set by a late failure of an earlier
attempt. `RedisFails` stops an attempt after any prefix of a pipeline's commands, `Crash` anywhere.
Cooldown keys expire at any time (a retried batch may outlive them), and enforcement rules change
under the engine's feet. Commits do not fail here and partitions stay with their process; failed
commits and rebalancing are `ConsumerLoop`'s, and the redelivery they lead to is here that after a
crash between delivery and commit.

Four history variables record what the properties speak of: `found` (what the checks came up
with), `cover` (the detection whose claim stood for it), `expired` (windows per cooldown key)
and `barred` (the records phase A refused in some attempt).

### DecisionService

The decision service beside the engine, over the same Redis keys, and the authoriser.
`Ask` and `Publish` are `ask_decision` and `run_simulator`: a transaction may be asked about
several times, or not at all, and its record is published in any case; a record is
visible to the engine once published. `Decide` is one action per round trip: `Lookup` (rules;
a rule answers the call and nothing is written), `Script` (`tx_check.lua` with the ref
`decision:{event_id}`, interpreted with the detectors' rules), `GetResult` (a retry returns
the stored verdict; a failing GET counts as none), `Store`. `CallFails` ends a call at any
of them, after a failed SET with or without the result in Redis. `Fetch` is
phase C of the engine, one step per `GET` of a pre-scored record's result. A time-out of the
authoriser is a `Publish` while the call goes on. Verdicts are computed from the set of
reasons (`Reaches`, `Verdict`). History: `answers` and `scored` (what the script found on a
transaction's first delivery).

### Rtace

The whole system. `Traffic` is everything above except rule changes; these now come from
containment: `Contain(d)` handles a delivered detection, `Pass` lets rules expire, and both
recompute what the lookups of the engine and the service see (`InForce`). Containment is
represented by its abstract specification `ContainmentOnce`: that the real one, with its
workers, WATCH loops and redeliveries, implements it is theorem `Refinement`, so nothing
that `Containment` may do to the rules is missing. Overrides and the audit log of
containment are left out here.

## 3. Runs

All bounds are CONSTANTS named `Max...`.

| Run | Instance | Shows |
|---|---|---|
| `containment_geo` | two geo anomalies of one user, two workers, clock to 2, one override | type invariant, `AppliedAtMostOnce`, `AuditAgrees`, `EscalationIsExact`, refinement |
| `containment_live` | a geo anomaly and ip-scope stuffing, manual TTLs, clock to 1, with fairness | `RetryLoopEnds`, refinement on the other branches |
| `loop_group` | two members, two partitions (good, tombstone; undecodable, poison), two faults | type invariant, `CommittedIsSettled`, `CommittedNeverRegresses` |
| `loop_live` | two members, one partition (poison, good), two faults, unlimited once a shutdown is requested, with fairness | `EverythingSettled`, `ShutdownCompletes` |
| `detect_retry` | a transaction, its resend under a new id and its verbatim resend, each over the burst threshold; two failed deliveries, expiry, rule changes at any step | type invariant, `ReplayNeverLost`, `ResendReported`, `OriginalNeverFlagged` |
| `detect_stuffing` | two processes, one address, two crashes or Redis failures, expiry | `OnePerWindow` |
| `rtace` | original, resend under a new id, jump; each asked about up to twice; one failed send, call or GET; one expiry of each cooldown key; rules that expire | `ClearedNeverFlagged`, `FreshResendReported`, `AnswersAgree`, `VerdictsEnforced` |
| `detect_lost_crash` | one replay, one crash | violates `NoDetectionLost` (finding 1) |
| `detect_lost_geo` | home, far away, home; one failed delivery | violates `NoDetectionLost` (finding 2) |
| `decision_verbatim` | a transaction sent twice verbatim, no faults | violates `ResendReported` (finding 3) |
| `decision_dropped` | home, far away, home; one failed call | violates `FindingsReemitted` (finding 4) |
| `rtace_escalation` | home, far away, far away; no faults | violates `SuppressedIsContained` (finding 5) |

Why the bounds suffice: a conflict needs two workers and two detections; a receipt
can expire only after the delivery window, so the clock needs to pass one window; two
faults let a failure hit a recovery; three records let a batch start in the middle
of a log and put a record before, and one after, the one of interest. In `rtace` one fault suffices for
each device to be needed once (release after a failed send, the stored verdict after a
failed call); its burst threshold is above the log's length, so its reasons are replays and
geo anomalies, and bursts are left to `detect_retry`. Every invariant of the passing runs is
also proved without bounds, some of them for fewer kinds of fault (section 4).

Deadlock is checked for the consumer loop, which can always poll. It is not checked for
`Containment` (its clock is bounded, so behaviours end) and `DetectionEngine` and what is built
on it (the log ends).

Fairness. `containment_live`: a worker inside `apply_containment` takes its next step
(weak fairness of `Step(w)`); nothing is assumed of deliveries, overrides or the clock.
The loop terminates because a conflict needs a write by someone else: another
detection's transaction, an override or an expiry. A detection executes one transaction;
overrides and expiries are bounded in the run, so what it shows is that workers never
starve each other, not that an operator could not. `loop_live`: each worker's thread runs, each send is answered
(the producer's delivery timeout fails it otherwise), a dead member is dropped by the
group, processes are restarted (the compose file's restart policy) and unassigned
partitions are assigned. Faults are never required to happen; they are bounded, except
those of a worker that was asked to shut down: it must leave although every attempt fails.
`rtace`: the detection process of each stream, the calls of the decision service, the
containment engine and the authoriser's publishing each go on (weak fairness): the first three
are loops that never stop by themselves, and `run_simulator` publishes after every call.
Asking, faults, expiry and the clock are not fair, so nothing depends on them.

### What the violated runs show

1. **A crash can lose a detection.** `filter_cooled_down` sets the cooldown key before the
   detection is delivered. If the process dies in between, the redelivered record's
   detection is suppressed by the dead process's own claim and its offset is committed.
   README line 433 rules this out. (The stored value is the detection's own id, but it is
   never compared.) A lost Redis reply in phase D, or a failing `release_cooldown`, has the
   same effect.
2. **A retried batch can lose a geo anomaly.** After a failed delivery the claims are
   released as README line 432 says, but the first attempt has advanced the session, so
   the anomalous record is now out of order and its anomaly is not found again.
3. **Asking first hides a verbatim replay.** Once the service has scored a transaction its
   replay key holds `decision:{event_id}`, and any later record with that event id passes for
   the record of the scored transaction. README line 488 says that a different delivery is a
   replay. The simulator's own replay scenario sends such records. A resend under another
   event id is reported (`FreshResendReported`), and so is a verbatim one when nobody asks
   (`ResendReported` in `detect_retry`).
4. **A failed call can lose a finding.** The script marks the transaction as scored; if the
   service fails before the result is stored and the record is published all the same, the
   engine skips it. README line 381 says that asking makes no difference. A time-out of the
   authoriser has the same effect when the record overtakes the SET.
5. **Suppression can prevent an escalation.** A second geo anomaly within the cooldown is
   suppressed although the first only led to a step-up; `cooldown.py` line 8 says the subject is
   already quarantined or blocked.

Four further divergences, not kept as runs:

* **A retried batch can change ids.** In the retry the window already holds the whole batch, so
  an earlier record exceeds the threshold first and a burst gets that record's id, where README
  line 529 says the id is the same; with `"produce"` among the faults `OnePerWindow` fails for
  this reason.
* **A retried call can change the verdict.** README line 379 says that it returns the stored
  one. If the GET of the stored verdict fails, the transaction is scored again, and if other
  transactions of the user were checked in between it may now be a burst: `AnswersAgree` fails
  with `"get"` among the faults, two transactions and a burst threshold of one. With
  `"timeout"` among them, and a verbatim resend asked about while the first call is still
  running, two calls about one event score it without either having a verdict to return, and
  it fails likewise. `rtace` has failing GETs, but no bursts.
* **An asked resend overtakes an unasked original.** A transaction is published without an answer
  (not asked about, or the call failed), and the authoriser asks about its resend before the engine
  reaches the record: the resend takes the replay key as `decision:{its id}`, the engine reports
  the original and lets the resend pass as pre-scored. One of the two is reported
  (`FreshResendReported`), but not the one README line 488 means. So `OriginalNeverFlagged` is stated
  of the engine alone. With the service the property is `ClearedNeverFlagged`: what the service
  scored as no replay the engine never reports as one.
* **A rule that ends inside phase A turns the order around.** The quarantine holds for the EXISTS of
  a transaction and has ended for that of its resend: the first is refused, the second is checked and
  takes the replay key. If the delivery then fails, the retry checks the first and reports it
  as a replay. `OriginalNeverFlagged` excepts records refused in an earlier attempt (`barred`); without
  the exception `detect_retry` finds this behaviour, and `OriginalSafe` proves it is the only one.

`ReplayNeverLost` is what remains true of delivery failures: replay keys are written once
and never rewritten, so a retry finds the same replays.

## 4. Proofs

All with TLAPS, for every value of the constants that satisfies the named assumptions.

**ContainmentProofs** (`InfoAssumption`, `ValuesAssumption`, `TTLAssumption`,
`ReceiptAssumption`: the receipt outlives the delivery window, as
`configs/redis_config.py` demands). `AppliedAtMostOnce` is not inductive: `Exec` must know
that no receipt has appeared since `GetReceipt`. The inductive invariant adds that a
detection was applied iff it has a receipt and that the receipt is still live
whenever the detection can be handled (`Applied`), and that a worker whose watch is
clean has seen no receipt and, once planned, the current step-up state (`CleanWatch`,
`CleanPlan`). From it follow `AtMostOnce`, `AuditIsTruthful`, `EscalationExact` and
`Refinement` (step by step: `Exec` maps to `Apply`, `Audit` to `Audit`, overrides and the
clock to themselves, everything else to a stutter).

**ConsumerLoopProofs** (`LogAssumption`). `CommittedIsSettled` needs to know what a
worker about to commit has behind it: `BatchDone` (in phase "commit" every record of
the batch is settled), which rests on `AwaitingAcks` (in phase "flush" every record is
settled, or its message is still in flight, or the latch is set) and `BeforeBatch` (all
records before the batch of an owner are settled). `CommittedNeverRegresses` needs
`OwnerAhead`: the position of the current owner is at or beyond the committed offset.

The proofs about the pipeline build on each other: an invariant that holds whatever fails,
and, on top of it, one invariant for each group of properties, under the hypothesis that the
faults which really break them do not happen. All assume `LogAssumption` (a user's events of a
kind are on one partition, as the producers key them) and `NotSetAssumption` (an absent key is told
from every value; no topic is named `decision`, so delivery refs of the two kinds differ).
What each hypothesis excludes is a state the runs of section 3 exhibit, not a gap in the
proof.

**DetectionEngineProofs**: `TypeOK` and `OriginalNeverFlagged`, for every log and every pattern of
failed deliveries, Redis errors, crashes, expiry and rule changes. The invariant `Base`: every
detection in an attempt, in flight or delivered was found by a check (`WorkOK`, `SentOK`), a replay key
names a delivery of its request, or a call about it (`SeenOK`), a replay was found only for a
record the key does not stand for (`FlaggedOK`), and a record counts as pre-scored only if the key
names the call about it (`PreOK`). That the flagged record is not the original needs the order in
which the records of a request reach the script, `OrderOK`: a stream's batch is looked up and checked
front to back, so the first delivery of a request, unless phase A refused it, is checked before any
other, takes the key, and the key is never rewritten. Retries and crashes start over from a
committed offset, and a delivery behind it was settled (its key taken) or refused.

**DetectionLossProofs**: `ReplayNeverLost` and `ResendReported`, given
`Faults \cap {"crash", "redis"} = {}` (otherwise finding 1). Failed deliveries, expiry of claims during
a retry and rule changes are all allowed. The invariant `Loss` follows a transaction through
the phases: `BatchOK` says of each in a batch that it is still to be checked, refused, cleared
(its replay key names it), a candidate, or covered by a claim that this attempt has won or that
was delivered; at the flush the last two are in flight, at the commit they are delivered; `DoneOK`
keeps that for committed records. It needs `CoolOK`, the point of the release: a cooldown key
holds a detection that was delivered or that the attempt which claimed it still has, so what is
suppressed yields to something that will not be forgotten; and `WonOK`, that a won claim is sent.

**DetectionWindowProofs**: `OnePerWindow`, given `"produce" \notin Faults`: crashes and Redis errors
are allowed. By counting: the detections a key has let through (won, in flight or
delivered) are never more than its expired windows and the current one (`WindowOK`). A claim adds
one detection and takes the key; an expiry frees the key and ends a window.

**DecisionServiceProofs**: the same properties with the decision service writing the same keys, so that
the results above survive asking first (`FreshResendReported` in place of `ResendReported`, which
finding 3 refutes). The step lemmas of the engine are reused; new are the calls, phase C, and
`ResultOK`: the service stores a replay only for a call that does not hold the replay key.
`ClearedSafe` is `ClearedNeverFlagged`, from `ClearedOK`: while a call has found no replay, has stored
that or has answered it, the replay key is `decision:` of that event, so every delivery of the event is
pre-scored, no check finds a replay in it, and the result that phase C fetches holds none either.
It alone assumes `Utc`, that the two services hash a transaction alike, which holds
for timestamps in UTC: otherwise the key the engine looks at is not the one the service took. `AnswersAgree`, given `Faults \cap {"get", "timeout"} = {}` (see the second
divergence above) and `IdAssumption` (event ids are unique), from `Agreed`: calls are about the next record to
be published, so there is one about an event at a time; a call about to store a verdict either
holds the replay key, and then none was given before, or has found a replay, as every call about
that event will. The first attempt at this proof showed that `AnswersAgree` was too strong as it stood:
a call about a replay is not a retry to the script, so it is scored each time, and may find an
anomaly besides the replay. Its verdict is the same, its reasons need not be, and the property
now compares verdicts.

**RtaceProofs**: to the traffic, containment and the clock are a source of rule changes
(`RtaceIsStep`), so the results about cleared transactions, resends, found replays and answers hold in the
whole system. `OnePerWindow` is not restated there.

Before a proof was attempted, TLC checked its inductive invariant on the instances of the
runs, and those of `DecisionService` on a log with verbatim resends, failing calls and sends.

Only model-checked: liveness (`RetryLoopEnds`, `EverythingSettled`, `ShutdownCompletes`,
`VerdictsEnforced`); fairness and ENABLED are beyond this prover.

## 5. Not modelled

* TTLs of replay, session, window and result keys: longer than any modelled behaviour.
* In `Rtace`: several containment workers (see `Containment`), manual overrides, and the
  containment audit log. Timestamps outside UTC, for which the service and the engine hash
  differently (`goHash` in the events), occur in no instance.
* Request decoding and input validation of the decision service (they change no state).
* `list_rules` and the other read-only routes: they feed nothing back.
* `DETECTION_COOLDOWN_SECONDS <= 0`, which switches the cooldown off.
* In `DetectionEngine`: rebalancing, failing commits, shutdown and poison records (`ConsumerLoop` has
  them).
* Authorisers that ask about one transaction from several threads: the one in the repository is a
  loop that asks, waits and publishes. Two calls about an event still overlap after a time-out and a resend.
* Validation failures inside `handle_batch` are the poison records of `ConsumerLoop`.
* Haversine arithmetic (a table), key and message text, metrics, logging,
  authentication, generated gRPC code, the simulator's random generator, deployment files.

## 6. Plan

1. The safety side of `VerdictsEnforced`: that at any time a scored DENY or CHALLENGE is contained
   or on its way, as an invariant of `Rtace` with its proof.
2. That rules are justified: every live rule goes back to a detection that was delivered.
3. The replay hash as a conversion: which differences between two requests it ignores, and
   for which timestamps the Go and Python forms agree (`Utc` as a consequence).
