---------------------------- MODULE DecisionService ----------------------------
(***************************************************************************)
(* The synchronous decision service (decision-service/internal/decision)   *)
(* beside the detection engine, over the same Redis, and the authoriser    *)
(* that asks it: as run_simulator does, it asks about a transaction, then  *)
(* publishes the record whatever came back, in the order of the stream.    *)
(*                                                                         *)
(* A call of Decide is up to four Redis round trips.  The engine, calls    *)
(* about other transactions and, once the authoriser has stopped waiting,  *)
(* the call's own record may come between any two of them.                 *)
(***************************************************************************)
EXTENDS DetectionEngine

CONSTANTS
  DenyScore, ChallengeScore,
  MaxAsks          \* bound on the calls about one transaction

ASSUME AskAssumption ==
  MaxAsks \in Nat /\ DenyScore \in Nat /\ ChallengeScore \in Nat

\* Event ids are unique: a record with the id of another is that event again.
ASSUME IdAssumption ==
  \A q, r \in Refs : IsTx(q) /\ IsTx(r) /\ Ev(q).id = Ev(r).id => Ev(q) = Ev(r)

VARIABLES
  sent,       \* per stream: records the authoriser has published
  call,       \* per record: where the call about its transaction is
  reasons,    \* per record: what that call has found
  asks,       \* per record: calls made so far
  answers,    \* history: the answers given
  scored      \* history: what the script found on a transaction's first delivery

calls == <<call, reasons, asks, answers, scored>>
dvars == <<sent, calls>>
allVars == <<vars, dvars>>

DecisionInit ==
  /\ Init
  /\ sent = [s \in Streams |-> 0]
  /\ call = [r \in Refs |-> "idle"]
  /\ reasons = [r \in Refs |-> {}]
  /\ asks = [r \in Refs |-> 0]
  /\ answers = {}
  /\ scored = {}

\* verdict: the strongest signal, plus 10 per further one, capped at 100.
ReasonScore == [replay_attack |-> 100, fraud_burst |-> 80, geo_velocity_anomaly |-> 70]
Reaches(ts, limit) ==
  limit <= 100 /\ \E t \in ts : ReasonScore[t] + 10 * (Cardinality(ts) - 1) >= limit
Verdict(ts) ==
  CASE Reaches(ts, DenyScore) -> "DENY"
    [] ~Reaches(ts, DenyScore) /\ Reaches(ts, ChallengeScore) -> "CHALLENGE"
    [] OTHER -> "ALLOW"

-----------------------------------------------------------------------------
(* The authoriser *)

NextRecord(s) == <<s, sent[s] + 1>>

\* It asks about the next transaction, or asks again.
Ask(s) ==
  LET r == NextRecord(s) IN
  /\ r \in Refs /\ IsTx(r) /\ call[r] = "idle" /\ asks[r] < MaxAsks
  /\ call' = [call EXCEPT ![r] = "lookup"]
  /\ asks' = [asks EXCEPT ![r] = @ + 1]
  /\ UNCHANGED <<vars, sent, reasons, answers, scored>>

\* It publishes the record: without asking, with an answer or an error, or
\* because the answer takes too long.
Publish(s) ==
  LET r == NextRecord(s) IN
  /\ r \in Refs
  /\ IF call[r] = "idle" THEN UNCHANGED faults ELSE Fault("timeout")
  /\ sent' = [sent EXCEPT ![s] = @ + 1]
  /\ UNCHANGED <<committed, upto, phase, work, outbox, delivered, windows, cool, found, cover,
                 env, calls>>

-----------------------------------------------------------------------------
(* Decide *)

\* The call about r returns.
Answer(r, verdict, ts, isScored) ==
  /\ call' = [call EXCEPT ![r] = "idle"]
  /\ reasons' = [reasons EXCEPT ![r] = {}]
  /\ answers' = answers \cup
       {[ref |-> r, verdict |-> verdict, reasons |-> ts, scored |-> isScored]}

\* 1. Enforcement state: a rule answers the call, and nothing is written.
Lookup(r) ==
  LET e == Ev(r) IN
  /\ call[r] = "lookup"
  /\ \/ /\ {<<"user", e.user>>, <<"ip", e.ip>>} \cap rules # {}
        /\ Answer(r, "DENY", {}, FALSE)
     \/ /\ {<<"user", e.user>>, <<"ip", e.ip>>} \cap rules = {}
        /\ <<"step_up", e.user>> \in rules
        /\ Answer(r, "CHALLENGE", {}, FALSE)
     \/ /\ {<<"user", e.user>>, <<"ip", e.ip>>, <<"step_up", e.user>>} \cap rules = {}
        /\ call' = [call EXCEPT ![r] = "script"]
        /\ UNCHANGED <<reasons, answers>>
  /\ UNCHANGED <<vars, sent, asks, scored>>

\* 2. and 3. The script with the call's own delivery ref, and its interpretation.
Script(r) ==
  LET e == Ev(r)
      ref == DecisionRef(e.id)
      status == ReplayStatus(seen[e.goHash], ref, e.id)
      ts == TxFindings(ref, e, e.goHash)
  IN
  /\ call[r] = "script"
  /\ TxScript(ref, e, e.goHash)
  /\ reasons' = [reasons EXCEPT ![r] = ts]
  /\ call' = [call EXCEPT ![r] = IF status = "redelivery" THEN "get" ELSE "store"]
  /\ scored' = IF status = "first" THEN scored \cup TxDetections(r, ts) ELSE scored
  /\ UNCHANGED <<committed, upto, phase, work, outbox, delivered, fails, cool, found, cover,
                 faults, env, sent, asks, answers>>

\* A retry answers with the stored verdict; without one, or if reading it fails,
\* with what the script found this time.
GetResult(r) ==
  LET stored == result[Ev(r).id] IN
  /\ call[r] = "get"
  /\ \/ /\ stored # NotSet
        /\ Answer(r, Verdict(stored), stored, TRUE)
        /\ UNCHANGED faults
     \/ /\ IF stored = NotSet THEN UNCHANGED faults ELSE Fault("get")
        /\ call' = [call EXCEPT ![r] = "store"]
        /\ UNCHANGED <<reasons, answers>>
  /\ UNCHANGED <<committed, upto, phase, work, outbox, delivered, windows, cool, found, cover,
                 env, sent, asks, scored>>

StoreForgotten(r) ==
  /\ call[r] = "store"
  /\ Answer(r, Verdict(reasons[r]), reasons[r], TRUE)
  /\ UNCHANGED <<vars, sent, asks, scored>>

\* 4. The decision is stored, then returned.
Store(r) ==
  /\ call[r] = "store"
  /\ result' = [result EXCEPT ![Ev(r).id] = reasons[r]]
  /\ Answer(r, Verdict(reasons[r]), reasons[r], TRUE)
  /\ UNCHANGED <<committed, upto, phase, work, outbox, delivered, windows, cool, found, cover,
                 faults, rules, barred, expired, changes, sent, asks, scored>>

\* A round trip fails or the service dies: the call returns an error, if
\* anything.  A failed SET may have taken place.
CallFails(r) ==
  /\ call[r] # "idle" /\ Fault("decide")
  /\ call' = [call EXCEPT ![r] = "idle"]
  /\ reasons' = [reasons EXCEPT ![r] = {}]
  /\ result' \in {result} \cup
       (IF call[r] = "store" THEN {[result EXCEPT ![Ev(r).id] = reasons[r]]} ELSE {})
  /\ UNCHANGED <<committed, upto, phase, work, outbox, delivered, windows, cool, found, cover,
                 rules, barred, expired, changes, sent, asks, answers, scored>>

Decide(r) == Lookup(r) \/ Script(r) \/ GetResult(r) \/ Store(r)

-----------------------------------------------------------------------------
(* The detection engine *)

FetchDropped(s, r) ==
  /\ phase[s] = "run" /\ todo[s] = {} /\ Foremost(r, pre[s])
  /\ pre' = [pre EXCEPT ![s] = @ \ {r}]
  /\ UNCHANGED <<committed, upto, phase, look, todo, cand, won, outbox, delivered, windows, cool,
                 found, cover, faults, env>>

\* C. the decision service's findings about a pre-scored record, if it left any.
Fetch(s, r) ==
  LET stored == result[Ev(r).id]
      ds == IF stored = NotSet THEN {} ELSE TxDetections(r, stored)
  IN
  /\ phase[s] = "run" /\ todo[s] = {} /\ Foremost(r, pre[s])
  /\ pre' = [pre EXCEPT ![s] = @ \ {r}]
  /\ cand' = [cand EXCEPT ![s] = @ \cup ds]
  /\ found' = found \cup ds
  /\ UNCHANGED <<committed, upto, phase, look, todo, won, outbox, delivered, windows, cool, cover,
                 faults, env>>

\* The engine sees the records that have been published.
Visible == \A s \in Streams : upto'[s] <= sent[s]
EngineWork(s) ==
  UNCHANGED dvars /\ (Work(s) \/ \E r \in pre[s] : Fetch(s, r)) /\ Visible
EngineBreak(s) == UNCHANGED dvars /\ Break(s)

\* Everything but a change of enforcement rules.
Traffic ==
  \/ \E s \in Streams : EngineWork(s) \/ EngineBreak(s) \/ Ask(s) \/ Publish(s)
  \/ \E r \in Refs : Decide(r) \/ CallFails(r)
  \/ \E k \in CooldownKeys : Expire(k) /\ UNCHANGED dvars

DecisionNext ==
  \/ Traffic
  \/ \E x \in RuleSubjects : ChangeRule(x) /\ UNCHANGED dvars

DecisionSpec == DecisionInit /\ [][DecisionNext]_allVars

-----------------------------------------------------------------------------
(* Properties *)

\* ResendReported of a resend under an event id of its own: asking first does
\* not hide it.
FreshResendReported ==
  \A q, r \in Refs :
    Resent(q, r) /\ Ev(q).id # Ev(r).id /\ Committed(q) /\ Committed(r) =>
      Reported(q) \/ Reported(r)

\* The two paths agree on what is a replay: a transaction that the service scored
\* without finding a replay is never reported as one by the engine, whose check
\* finds the key held by that call, whatever is retried, asked again or resent.
ClearedNeverFlagged ==
  \A a \in answers :
    a.scored /\ "replay_attack" \notin a.reasons =>
      Det(Id(a.ref, "replay_attack", "")) \notin delivered

\* "A retry with the same event_id returns the stored verdict": all the verdicts
\* ever scored for an event agree, and so does what is stored for the detection
\* engine.  (Not all the reasons: a call about a replay is scored at each retry,
\* and may find an anomaly besides.)
AnswersAgree ==
  \A a \in answers : a.scored =>
    LET stored == result[Ev(a.ref).id] IN stored # NotSet /\ Verdict(stored) = a.verdict

\* "Containment and the audit log are identical whether or not the authoriser
\* asked first": what the service found when it scored a transaction, before any
\* other delivery, is not lost to the asynchronous path.
FindingsReemitted == \A d \in scored : Committed(d.ref) => Accounted(d)
=============================================================================
