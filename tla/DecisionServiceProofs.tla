------------------------- MODULE DecisionServiceProofs -------------------------
(***************************************************************************)
(* Proofs about the decision service beside the detection engine, for      *)
(* every log and any number of streams and calls.                          *)
(*                                                                         *)
(* The engine's step lemmas hold with decision refs among the values of    *)
(* replay keys; what is added are the steps of calls, the fetch of phase C *)
(* and an invariant of the results the service stores.                     *)
(***************************************************************************)
EXTENDS DecisionService, DetectionLossProofs, DetectionWindowProofs

\* The types of the calls' variables.
Verdicts == {"ALLOW", "CHALLENGE", "DENY"}
Answers == [ref: Refs, verdict: Verdicts, reasons: SUBSET TxTypes, scored: BOOLEAN]

CallsOK ==
  /\ sent \in [Streams -> Nat]
  /\ call \in [Refs -> {"idle", "lookup", "script", "get", "store"}]
  /\ reasons \in [Refs -> SUBSET TxTypes]
  /\ asks \in [Refs -> Nat]
  /\ answers \in SUBSET Answers
  /\ \A r \in Refs : call[r] # "idle" => IsTx(r)

\* The replay key of a call, and whether the call holds it.
KeyOf(r) == seen[Ev(r).goHash]
Holds(r) == KeyOf(r) = DecisionRef(Ev(r).id)

\* The service finds a replay only when another delivery holds the key.
Excludes(ts, r) == "replay_attack" \in ts => KeyOf(r) # NotSet /\ ~Holds(r)
ResultOK ==
  \A r \in Refs : IsTx(r) =>
    /\ Excludes(reasons[r], r)
    /\ result[Ev(r).id] # NotSet => Excludes(result[Ev(r).id], r)

\* And it finds none only when the call holds the key.
NoReplay(ts) == "replay_attack" \notin ts
ClearedOK ==
  /\ \A r \in Refs :
       /\ call[r] \in {"get", "store"} /\ NoReplay(reasons[r]) => Holds(r)
       /\ IsTx(r) /\ result[Ev(r).id] # NotSet /\ NoReplay(result[Ev(r).id]) => Holds(r)
  /\ \A a \in answers : a.scored => IsTx(a.ref) /\ (NoReplay(a.reasons) => Holds(a.ref))

\* The hash of the decision service is the engine's.
Utc == \A r \in Refs : Ev(r).goHash = Ev(r).hash

\* Inductive whatever fails.
DInv == TypeOK /\ CallsOK /\ Base /\ ResultOK

\* A scored answer stands: it is what a retry will read, and what the detection
\* engine will fetch.  If the call never held the replay key, the event was found
\* to be a replay, and will be again.
Standing(a) ==
  LET stored == result[Ev(a.ref).id] IN
  /\ IsTx(a.ref) /\ KeyOf(a.ref) # NotSet
  /\ stored # NotSet /\ Verdict(stored) = a.verdict
  /\ ~Holds(a.ref) => "replay_attack" \in stored

\* No call about the event of r has been answered with a score.
NoAnswer(r) == \A a \in answers : a.scored => Ev(a.ref).id # Ev(r).id

\* Calls are about the next record to be published, so there is one about an event at
\* a time; one that is about to store a verdict either is the first to, or found a
\* replay.
Agreed ==
  /\ \A a \in answers : a.scored => Standing(a)
  /\ \A r \in Refs :
       /\ call[r] # "idle" => r = NextRecord(r[1])
       /\ call[r] = "get" => KeyOf(r) # NotSet /\ Holds(r)
       /\ call[r] = "store" =>
            /\ KeyOf(r) # NotSet
            /\ Holds(r) => NoAnswer(r)
            /\ ~Holds(r) => "replay_attack" \in reasons[r]
-----------------------------------------------------------------------------
\* The detectors find transaction types only.
LEMMA FindingsType ==
  ASSUME NEW ref, NEW e, NEW h
  PROVE  TxFindings(ref, e, h) \in SUBSET TxTypes
  BY Zenon DEF TxFindings, InterpretReplay, InterpretGeo, InterpretBurst, TxTypes

\* A verdict is one of three.
LEMMA VerdictType == \A ts : Verdict(ts) \in Verdicts
  BY DEF Verdict, Verdicts

\* An answer keeps the types.
LEMMA AnswerType ==
  ASSUME CallsOK, NEW r \in Refs, NEW v \in Verdicts, NEW ts \in SUBSET TxTypes,
         NEW b \in BOOLEAN, Answer(r, v, ts, b), UNCHANGED <<sent, asks>>
  PROVE  CallsOK'
  BY DEF CallsOK, Answer, Answers

\* Initially there are no calls.
LEMMA InitCalls == DecisionInit => CallsOK
  BY DEF DecisionInit, CallsOK

\* The steps of a call keep the types, ...
LEMMA DecideType ==
  ASSUME TypeOK, CallsOK, NEW r \in Refs, Decide(r)
  PROVE  TypeOK' /\ CallsOK'
<1> DEFINE e == Ev(r)
<1>0. e.id \in EventIds /\ e.goHash \in Hashes /\ DecisionRef(e.id) \in DecisionRefs
  BY EvType DEF DecisionRefs
<1>1. CASE Lookup(r)
  <2>1. TypeOK'
    BY <1>1 DEF Lookup, vars, TypeOK
  <2>2. CASE Answer(r, "DENY", {}, FALSE) \/ Answer(r, "CHALLENGE", {}, FALSE)
    BY <1>1, <2>1, <2>2, AnswerType DEF Lookup, Verdicts
  <2>3. CASE call' = [call EXCEPT ![r] = "script"] /\ UNCHANGED <<reasons, answers>>
    BY <1>1, <2>1, <2>3 DEF Lookup, CallsOK
  <2> QED
    BY <1>1, <2>1, <2>2, <2>3 DEF Lookup
<1>2. CASE Script(r)
  <2>1. /\ seen' \in [Hashes -> Refs \cup DecisionRefs \cup {NotSet}]
        /\ burst' \in [Users -> SUBSET Members]
        /\ session' \in [Users -> Sessions]
    BY <1>0, <1>2, TxScriptType DEF Script
  <2>2. TypeOK'
    BY <1>2, <2>1 DEF Script, TypeOK, work, env
  <2>3. CallsOK'
    BY <1>2, FindingsType DEF Script, CallsOK
  <2> QED
    BY <2>2, <2>3
<1>3. CASE GetResult(r)
  <2>1. TypeOK'
    <3>0. UNCHANGED faults \/ Fault("get")
      BY <1>3, Zenon DEF GetResult
    <3>1. faults' \in Nat
      BY <3>0 DEF Fault, TypeOK
    <3>2. UNCHANGED <<committed, upto, phase, work, outbox, delivered, windows, cool, found,
                      cover, env>>
      BY <1>3 DEF GetResult
    <3> QED
      BY <3>1, <3>2 DEF TypeOK, work, windows, env
  <2>2. result[e.id] # NotSet => result[e.id] \in SUBSET TxTypes
    BY <1>0 DEF TypeOK
  <2>3. CASE result[e.id] # NotSet /\ Answer(r, Verdict(result[e.id]), result[e.id], TRUE)
    BY <1>3, <2>1, <2>2, <2>3, AnswerType, VerdictType DEF GetResult
  <2>4. CASE call' = [call EXCEPT ![r] = "store"] /\ UNCHANGED <<reasons, answers>>
    BY <1>3, <2>1, <2>4 DEF GetResult, CallsOK
  <2> QED
    BY <1>3, <2>1, <2>3, <2>4 DEF GetResult
<1>4. CASE Store(r)
  <2>1. reasons[r] \in SUBSET TxTypes
    BY DEF CallsOK
  <2>2. TypeOK'
    BY <1>0, <1>4, <2>1 DEF Store, TypeOK, work, windows
  <2>3. CallsOK'
    BY <1>4, <2>1, AnswerType, VerdictType DEF Store
  <2> QED
    BY <2>2, <2>3
<1> QED
  BY <1>1, <1>2, <1>3, <1>4 DEF Decide

\* ... and so do its failure, ...
LEMMA CallFailsType ==
  ASSUME TypeOK, CallsOK, NEW r \in Refs, CallFails(r)
  PROVE  TypeOK' /\ CallsOK'
<1>1. reasons[r] \in SUBSET TxTypes /\ Ev(r).id \in EventIds
  BY EvType DEF CallsOK
<1>2. result' \in [EventIds -> (SUBSET TxTypes) \cup {NotSet}]
  BY <1>1 DEF CallFails, TypeOK
<1>3. TypeOK'
  BY <1>2 DEF CallFails, Fault, TypeOK, work, windows
<1>4. CallsOK'
  BY DEF CallFails, CallsOK
<1> QED
  BY <1>3, <1>4

\* ... what the authoriser does, ...
LEMMA AuthoriserType ==
  ASSUME TypeOK, CallsOK, NEW s \in Streams, Ask(s) \/ Publish(s)
  PROVE  TypeOK' /\ CallsOK'
<1>1. CASE Ask(s)
  BY <1>1 DEF Ask, CallsOK, TypeOK, vars
<1>2. CASE Publish(s)
  <2>1. TypeOK'
    BY <1>2 DEF Publish, Fault, TypeOK, work, windows, env
  <2>2. CallsOK'
    BY <1>2 DEF Publish, CallsOK, calls
  <2> QED
    BY <2>1, <2>2
<1> QED
  BY <1>1, <1>2

\* ... and the engine's look at a stored result.
LEMMA FetchType ==
  ASSUME TypeOK, NEW s \in Streams, NEW r \in pre[s], Fetch(s, r)
  PROVE  TypeOK'
<1>1. PICK ds : /\ ds \in SUBSET Ids
                 /\ cand' = [cand EXCEPT ![s] = @ \cup ds] /\ found' = found \cup ds
  BY Zenon DEF Fetch, TxDetections
<1> QED
  BY <1>1 DEF Fetch, TypeOK, windows, env
-----------------------------------------------------------------------------
\* A replay key that is set leaves the engine's invariant alone.
LEMMA SeenBase ==
  ASSUME TypeOK, Base, SeenKept, SeenOK',
         UNCHANGED <<committed, upto, phase, work, outbox, delivered, found>>
  PROVE  Base'
<1>1. WorkOK' /\ SentOK'
  BY DEF Base, WorkOK, StreamOK, Batch, Upto, SentOK, work
<1>2. FlaggedOK'
  <2>1. \A d \in found : Ev(d.ref).hash \in Hashes
    BY EvType, IdType DEF TypeOK
  <2> QED
    BY <2>1 DEF Base, FlaggedOK, Cleared, SeenKept
<1>3. PreOK'
  <2>1. \A s \in Streams : \A r \in pre[s] :
          Ev(r).hash \in Hashes /\ DecisionRef(Ev(r).id) # NotSet
    BY EvType, NotSetAssumption DEF TypeOK, DecisionRefs
  <2> QED
    BY <2>1 DEF Base, PreOK, SeenKept, work
<1> QED
  BY <1>1, <1>2, <1>3 DEF Base

\* The service runs the same script: it sets its key if nobody has.
LEMMA ScriptKeepsSeen ==
  ASSUME TypeOK, NEW r \in Refs, Script(r)
  PROVE  /\ SeenKept /\ seen'[Ev(r).goHash] = SetNx(seen[Ev(r).goHash], DecisionRef(Ev(r).id))
         /\ \A h \in Hashes \ {Ev(r).goHash} : seen'[h] = seen[h]
  BY SeenGrows, EvType DEF Script, SeenKept

\* So the script of a call keeps the engine's invariant.
LEMMA ScriptBase ==
  ASSUME TypeOK, CallsOK, Base, NEW r \in Refs, Script(r)
  PROVE  Base'
<1>1. IsTx(r) /\ Ev(r).goHash \in Hashes
  BY EvType DEF Script, CallsOK
<1>2. SeenOK'
  <2>1. DecisionRef(Ev(r).id) \notin Refs
    BY DecisionIsNotRef
  <2> QED
    BY <1>1, <2>1, ScriptKeepsSeen DEF Base, SeenOK, SetNx
<1> QED
  BY <1>2, SeenBase, ScriptKeepsSeen DEF Script

\* A record is taken for pre-scored only when the call about its event holds its key:
\* event ids are unique, so the service hashed that very event.
LEMMA PrescoredHolds ==
  ASSUME TypeOK, Base, NEW s \in Streams, NEW r \in pre[s]
  PROVE  IsTx(r) /\ r \in Refs /\ Holds(r)
<1>1. r \in Refs /\ IsTx(r) /\ seen[Ev(r).hash] = DecisionRef(Ev(r).id)
  BY DEF TypeOK, Base, PreOK
<1>2. Ev(r).hash \in Hashes /\ DecisionRef(Ev(r).id) \in DecisionRefs
  BY <1>1, EvType DEF DecisionRefs
<1>3. PICK q \in Refs : /\ IsTx(q) /\ Ev(q).goHash = Ev(r).hash
                        /\ seen[Ev(r).hash] = DecisionRef(Ev(q).id)
  BY <1>1, <1>2 DEF Base, SeenOK
<1>4. Ev(q).id = Ev(r).id
  BY <1>1, <1>3 DEF DecisionRef
<1>5. Ev(q) = Ev(r)
  BY <1>1, <1>3, <1>4, IdAssumption
<1> QED
  BY <1>1, <1>3, <1>5 DEF Holds, KeyOf

\* What the engine fetches for a pre-scored record is never a replay.
LEMMA FetchBase ==
  ASSUME TypeOK, Base, ResultOK, NEW s \in Streams, NEW r \in pre[s], Fetch(s, r)
  PROVE  Base'
<1>1. r \in Refs /\ IsTx(r) /\ r \in Batch(s)
  BY DEF TypeOK, Base, PreOK, WorkOK, StreamOK
<1>2. PICK ds : /\ ds \in SUBSET Ids
                /\ cand' = [cand EXCEPT ![s] = @ \cup ds] /\ found' = found \cup ds
                /\ \A d \in ds : d.ref = r /\ d.type # "replay_attack"
  <2> DEFINE stored == result[Ev(r).id]
             ds == IF stored = NotSet THEN {} ELSE TxDetections(r, stored)
  <2>1. cand' = [cand EXCEPT ![s] = @ \cup ds] /\ found' = found \cup ds
    BY DEF Fetch
  <2>2. ds \subseteq Ids /\ \A d \in ds : d.ref = r /\ d.type \in stored /\ stored # NotSet
    BY Zenon DEF TxDetections
  <2>3. stored # NotSet => "replay_attack" \notin stored
    BY <1>1, PrescoredHolds DEF ResultOK, Excludes
  <2> HIDE DEF ds, stored
  <2> QED
    BY <2>1, <2>2, <2>3
<1>3. WorkOK'
  BY <1>1, <1>2 DEF Fetch, TypeOK, Base, WorkOK, StreamOK, Batch, Upto
<1>4. SentOK'
  BY <1>2 DEF Fetch, Base, SentOK
<1>5. FlaggedOK'
  BY <1>2 DEF Fetch, windows, Base, FlaggedOK, Cleared
<1>6. PreOK' /\ SeenOK'
  BY DEF Fetch, windows, TypeOK, Base, PreOK, SeenOK
<1> QED
  BY <1>3, <1>4, <1>5, <1>6 DEF Base

\* Steps that store nothing keep ResultOK ...
LEMMA FrameResult ==
  ASSUME ResultOK, SeenKept, UNCHANGED result,
         \A r \in Refs : reasons'[r] \in {reasons[r], {}}
  PROVE  ResultOK'
<1> SUFFICES ASSUME NEW r \in Refs, IsTx(r)
             PROVE  /\ Excludes(reasons[r], r)'
                    /\ result'[Ev(r).id] # NotSet => Excludes(result[Ev(r).id], r)'
  BY DEF ResultOK
<1>1. Excludes(reasons[r], r)'
  <2>1. CASE reasons'[r] = {}
    BY <2>1 DEF Excludes
  <2>2. CASE reasons'[r] = reasons[r]
    BY <2>2, EvType DEF ResultOK, SeenKept, Excludes, KeyOf, Holds
  <2> QED
    BY <2>1, <2>2
<1>2. result'[Ev(r).id] # NotSet => Excludes(result[Ev(r).id], r)'
  BY EvType DEF ResultOK, SeenKept, Excludes, KeyOf, Holds
<1> QED
  BY <1>1, <1>2

\* ... the script finds a replay only when another delivery holds the key ...
LEMMA ScriptResult ==
  ASSUME TypeOK, CallsOK, ResultOK, NEW r \in Refs, Script(r)
  PROVE  ResultOK'
<1> DEFINE ts == TxFindings(DecisionRef(Ev(r).id), Ev(r), Ev(r).goHash)
<1>1. SeenKept
  BY ScriptKeepsSeen
<1>2. Excludes(ts, r)
  <2>1. "replay_attack" \in ts =>
          ReplayStatus(seen[Ev(r).goHash], DecisionRef(Ev(r).id), Ev(r).id) = "replay"
    BY ReplayFound
  <2> HIDE DEF ts
  <2> QED
    BY <2>1 DEF ReplayStatus, Excludes, KeyOf, Holds
<1>3. reasons' = [reasons EXCEPT ![r] = ts] /\ UNCHANGED result
  BY DEF Script, env
<1> HIDE DEF ts
<1> SUFFICES ASSUME NEW q \in Refs, IsTx(q)
             PROVE  /\ Excludes(reasons[q], q)'
                    /\ result'[Ev(q).id] # NotSet => Excludes(result[Ev(q).id], q)'
  BY DEF ResultOK
<1>4. Excludes(reasons'[q], q)
  BY <1>2, <1>3 DEF CallsOK, ResultOK
<1>5. result'[Ev(q).id] # NotSet => Excludes(result'[Ev(q).id], q)
  BY <1>3 DEF ResultOK
<1> QED
  BY <1>1, <1>4, <1>5, EvType DEF SeenKept, Excludes, KeyOf, Holds

\* ... and what a call found may be stored.
LEMMA StoredResult ==
  ASSUME TypeOK, CallsOK, ResultOK, NEW r \in Refs, IsTx(r), UNCHANGED seen,
         result' = [result EXCEPT ![Ev(r).id] = reasons[r]],
         reasons' = [reasons EXCEPT ![r] = {}]
  PROVE  ResultOK'
<1> SUFFICES ASSUME NEW q \in Refs, IsTx(q)
             PROVE  /\ Excludes(reasons[q], q)'
                    /\ result'[Ev(q).id] # NotSet => Excludes(result[Ev(q).id], q)'
  BY DEF ResultOK
<1>1. Excludes(reasons[q], q)'
  BY DEF CallsOK, ResultOK, Excludes, KeyOf, Holds
<1>2. CASE Ev(q).id = Ev(r).id
  <2>1. Ev(q) = Ev(r)
    BY <1>2, IdAssumption
  <2>2. result'[Ev(q).id] = reasons[r]
    BY <1>2, EvType DEF TypeOK
  <2>3. Excludes(reasons[r], r)
    BY DEF ResultOK
  <2> QED
    BY <1>1, <2>1, <2>2, <2>3 DEF Excludes, KeyOf, Holds
<1>3. CASE Ev(q).id # Ev(r).id
  <2>1. result'[Ev(q).id] = result[Ev(q).id]
    BY <1>3, EvType DEF TypeOK
  <2> QED
    BY <1>1, <2>1 DEF ResultOK, Excludes, KeyOf, Holds
<1> QED
  BY <1>2, <1>3

-----------------------------------------------------------------------------
\* Engine steps leave the calls alone.
LEMMA FrameCalls == ASSUME CallsOK, UNCHANGED dvars PROVE CallsOK'
  BY DEF CallsOK, dvars, calls

\* The engine's steps keep the invariant, ...
LEMMA EngineDInv ==
  ASSUME DInv, NEW s \in Streams, EngineWork(s) \/ EngineBreak(s)
  PROVE  DInv'
<1> USE DEF DInv
<1>1. UNCHANGED dvars
  BY DEF EngineWork, EngineBreak
<1>2. CallsOK' /\ \A r \in Refs : reasons'[r] = reasons[r]
  BY <1>1, FrameCalls DEF dvars, calls
<1>3. CASE Work(s) \/ Break(s)
  <2>1. TypeOK' /\ Base' /\ SeenKept
    BY <1>3, WorkType, BreakType, WorkBase, BreakBase, EngineKeepsSeen
  <2>2. UNCHANGED result
    BY <1>3 DEF Work, Break, Poll, Exists, Enforce, CheckTx, CheckAuth, Checked, Claim, Emit, FlushOk,
       Release, Commit, FlushFails, RedisFails, Crash, env
  <2> QED
    BY <1>2, <2>1, <2>2, FrameResult
<1>4. ASSUME NEW r \in pre[s], Fetch(s, r) PROVE DInv'
  <2>1. TypeOK' /\ Base'
    BY <1>4, FetchType, FetchBase
  <2>2. SeenKept /\ UNCHANGED result
    BY <1>4, SeenUnchanged DEF Fetch, windows, env
  <2> QED
    BY <1>2, <2>1, <2>2, FrameResult
<1> QED
  BY <1>3, <1>4 DEF EngineWork, EngineBreak

\* ... the calls' steps do, ...
LEMMA CallDInv ==
  ASSUME DInv, NEW r \in Refs, Decide(r) \/ CallFails(r)
  PROVE  DInv'
<1> USE DEF DInv
<1>1. TypeOK' /\ CallsOK'
  BY DecideType, CallFailsType
<1>2. CASE Script(r)
  BY <1>1, <1>2, ScriptBase, ScriptResult
<1>3. CASE Lookup(r) \/ GetResult(r)
  <2>1. UNCHANGED <<baseVars, result, seen>>
    BY <1>3 DEF Lookup, GetResult, vars, baseVars, work, windows, env
  <2>2. \A q \in Refs : reasons'[q] \in {reasons[q], {}}
    BY <1>3 DEF Lookup, GetResult, Answer, CallsOK
  <2> QED
    BY <1>1, <2>1, <2>2, FrameBase, FrameResult, SeenUnchanged
<1>4. CASE Store(r) \/ CallFails(r)
  <2>1. UNCHANGED <<baseVars, seen>> /\ IsTx(r)
    BY <1>4 DEF Store, CallFails, baseVars, work, windows, CallsOK
  <2>2. reasons' = [reasons EXCEPT ![r] = {}]
    BY <1>4 DEF Store, CallFails, Answer
  <2>3. UNCHANGED result \/ result' = [result EXCEPT ![Ev(r).id] = reasons[r]]
    BY <1>4 DEF Store, CallFails
  <2>4. \A q \in Refs : reasons'[q] \in {reasons[q], {}}
    BY <2>2 DEF CallsOK
  <2>5. ResultOK'
    BY <2>1, <2>2, <2>3, <2>4, StoredResult, FrameResult, SeenUnchanged
  <2> QED
    BY <1>1, <2>1, <2>5, FrameBase
<1> QED
  BY <1>2, <1>3, <1>4 DEF Decide

\* ... steps that touch neither replay keys nor results do, ...
LEMMA FrameDInv ==
  ASSUME DInv, TypeOK', CallsOK', UNCHANGED <<baseVars, result, reasons>>
  PROVE  DInv'
<1>1. SeenKept
  BY SeenUnchanged DEF baseVars
<1> QED
  BY <1>1, FrameBase, FrameResult DEF DInv

\* ... so every step of the traffic does.
LEMMA TrafficDInv == ASSUME DInv, Traffic PROVE DInv'
<1>1. ASSUME NEW s \in Streams, Ask(s) \/ Publish(s) PROVE DInv'
  <2>1. TypeOK' /\ CallsOK'
    BY <1>1, AuthoriserType DEF DInv
  <2>2. UNCHANGED <<baseVars, result, reasons>>
    BY <1>1 DEF Ask, Publish, vars, baseVars, work, windows, env, calls
  <2> QED
    BY <2>1, <2>2, FrameDInv
<1>2. ASSUME NEW k \in CooldownKeys, Expire(k), UNCHANGED dvars PROVE DInv'
  <2>1. TypeOK' /\ CallsOK'
    BY <1>2, SurroundingsType, FrameCalls DEF DInv
  <2>2. UNCHANGED <<baseVars, result, reasons>>
    BY <1>2 DEF Expire, baseVars, work, windows, dvars, calls
  <2> QED
    BY <2>1, <2>2, FrameDInv
<1> QED
  BY <1>1, <1>2, EngineDInv, CallDInv DEF Traffic

\* A change of enforcement rules, by whoever.
RulesOnly ==
  /\ rules' \in SUBSET RuleSubjects /\ changes' \in Nat
  /\ UNCHANGED <<committed, upto, phase, work, outbox, delivered, windows, result, cool, found,
                 cover, barred, expired, faults, dvars>>

\* A change of rules keeps the invariant.
LEMMA RulesDInv == ASSUME DInv, RulesOnly PROVE DInv'
<1>1. TypeOK'
  BY DEF RulesOnly, DInv, TypeOK, work, windows
<1>2. UNCHANGED <<dvars, baseVars, result, reasons>>
  BY DEF RulesOnly, baseVars, windows, dvars, calls
<1> QED
  BY <1>1, <1>2, FrameCalls, FrameDInv DEF DInv

\* Rule changes of DecisionSpec are such changes.
LEMMA ChangeRuleRulesOnly ==
  ASSUME TypeOK, NEW x \in RuleSubjects, ChangeRule(x), UNCHANGED dvars
  PROVE  RulesOnly
<1>1. TypeOK'
  BY SurroundingsType
<1> QED
  BY <1>1 DEF RulesOnly, ChangeRule, TypeOK

\* Initially the invariant holds.
LEMMA InitDInv == DecisionInit => DInv
<1> SUFFICES ASSUME DecisionInit PROVE DInv
  OBVIOUS
<1>1. ResultOK
  BY EvType DEF DecisionInit, Init, ResultOK, Excludes
<1> QED
  BY <1>1, InitType, InitBase, InitCalls DEF DecisionInit, DInv

-----------------------------------------------------------------------------
\* A fetch adds candidates and loses none.
LEMMA FetchLoss ==
  ASSUME TypeOK, Loss, NEW s \in Streams, NEW r \in pre[s], Fetch(s, r)
  PROVE  Loss'
<1> USE DEF Fetch, windows
<1>1. SeenKept
  BY SeenUnchanged
<1>2. CoolOK' /\ WonOK'
  BY DEF Loss, CoolOK, WonOK
<1>3. DoneOK'
  BY <1>1, DoneStep DEF Loss
<1>4. BatchOK(s)'
  <2> SUFFICES ASSUME NEW q \in Batch(s)', IsTx(q) PROVE Pending(s, q)'
    BY DEF BatchOK
  <2>1. q \in Batch(s) /\ q \in Refs
    BY DEF Batch, Upto
  <2>2. Pending(s, q)
    BY <2>1 DEF Loss, BatchOK
  <2>3. Cleared(q) => Cleared(q)'
    BY <1>1, <2>1, ClearedStable
  <2> QED
    BY <2>2, <2>3 DEF Pending, TypeOK
<1>5. \A t \in Streams \ {s} : BatchOK(t)'
  BY <1>1, OtherBatch DEF TypeOK, Loss
<1> QED
  BY <1>2, <1>3, <1>4, <1>5 DEF Loss

\* Calls and fetches keep what DetectionLossProofs shows of the engine.
LEMMA TrafficLoss == ASSUME NoLoss, DInv, Loss, Traffic PROVE Loss'
<1> USE DEF DInv
<1>1. ASSUME NEW s \in Streams, EngineWork(s) \/ EngineBreak(s) PROVE Loss'
  BY <1>1, WorkLoss, BreakLoss, FetchLoss DEF EngineWork, EngineBreak
<1>2. ASSUME NEW s \in Streams, Ask(s) \/ Publish(s) PROVE Loss'
  <2>1. UNCHANGED <<lossVars, seen, cool>>
    BY <1>2 DEF Ask, Publish, vars, lossVars, work, windows
  <2> QED
    BY <2>1, FrameLoss, SeenUnchanged
<1>3. ASSUME NEW r \in Refs, Decide(r) \/ CallFails(r) PROVE Loss'
  <2>1. UNCHANGED <<lossVars, cool>>
    BY <1>3 DEF Decide, Lookup, Script, GetResult, Store, CallFails, vars, lossVars, work
  <2>2. SeenKept
    <3>1. CASE Script(r)
      BY <3>1, ScriptKeepsSeen
    <3>2. CASE UNCHANGED seen
      BY <3>2, SeenUnchanged
    <3> QED
      BY <1>3, <3>1, <3>2 DEF Decide, Lookup, GetResult, Store, CallFails, vars, windows
  <2> QED
    BY <2>1, <2>2, FrameLoss
<1>4. ASSUME NEW k \in CooldownKeys, Expire(k) PROVE Loss'
  BY <1>4, FrameLoss, SeenUnchanged DEF Expire, lossVars, windows, TypeOK
<1> QED
  BY <1>1, <1>2, <1>3, <1>4 DEF Traffic

\* So do changes of rules.
LEMMA RulesLoss == ASSUME TypeOK, Loss, RulesOnly PROVE Loss'
  BY FrameLoss, SeenUnchanged DEF RulesOnly, lossVars, windows

\* A replay key clears records of one event only.
LEMMA LossFresh ==
  ASSUME Loss
  PROVE  FreshResendReported
<1> SUFFICES ASSUME NEW q \in Refs, NEW r \in Refs, Resent(q, r), Ev(q).id # Ev(r).id,
                    Committed(q), Committed(r)
             PROVE  Reported(q) \/ Reported(r)
  BY DEF FreshResendReported
<1>1. DecisionRef(Ev(q).id) # DecisionRef(Ev(r).id)
  BY DEF DecisionRef
<1> QED
  BY <1>1, ReportedOrCleared, DecisionIsNotRef DEF Resent, Cleared

\* Calls and fetches let nothing through the cooldown.
LEMMA TrafficWindowed ==
  ASSUME "produce" \notin Faults, TypeOK, TypeOK', Windowed, Traffic
  PROVE  Windowed'
<1>1. ASSUME NEW s \in Streams, Work(s) \/ Break(s) PROVE Windowed'
  BY <1>1, WorkWindowed, BreakWindowed
<1>2. ASSUME NEW k \in CooldownKeys, Expire(k) PROVE Windowed'
  BY <1>2, ExpireWindowed
<1>3. CASE \/ \E s \in Streams : Ask(s) \/ Publish(s) \/ \E r \in pre[s] : Fetch(s, r)
           \/ \E r \in Refs : Decide(r) \/ CallFails(r)
  <2>1. UNCHANGED <<phase, won, outbox, delivered, cool, expired>>
    BY <1>3 DEF Ask, Publish, Fetch, Decide, Lookup, Script, GetResult, Store, CallFails, vars,
       work, env
  <2> QED
    BY <2>1, FrameWindowed
<1> QED
  BY <1>1, <1>2, <1>3 DEF Traffic, EngineWork, EngineBreak
-----------------------------------------------------------------------------
\* A replay alone scores 100, so a set of reasons with a replay reaches every limit
\* that can be reached at all.
LEMMA ReplayReaches ==
  ASSUME NEW ts \in SUBSET TxTypes, "replay_attack" \in ts, NEW limit \in Nat
  PROVE  Reaches(ts, limit) <=> limit <= 100
<1>1. IsFiniteSet(TxTypes)
  <2>1. IsFiniteSet({"replay_attack"} \cup {"geo_velocity_anomaly"} \cup {"fraud_burst"})
    BY FS_Singleton, FS_AddElement, Zenon
  <2>2. TxTypes = {"replay_attack"} \cup {"geo_velocity_anomaly"} \cup {"fraud_burst"}
    BY DEF TxTypes
  <2> QED
    BY <2>1, <2>2
<1>2. IsFiniteSet(ts)
  BY <1>1, FS_Subset
<1>3. Cardinality(ts) \in Nat /\ Cardinality(ts) # 0
  BY <1>2, FS_CardinalityType, FS_EmptySet
<1>4. ReasonScore["replay_attack"] = 100
  BY DEF ReasonScore
<1>5. limit <= 100 => ReasonScore["replay_attack"] + 10 * (Cardinality(ts) - 1) >= limit
  BY <1>3, <1>4
<1> QED
  BY <1>5 DEF Reaches

\* All such sets get the same verdict.
LEMMA ReplayVerdict ==
  ASSUME NEW ts \in SUBSET TxTypes, "replay_attack" \in ts,
         NEW us \in SUBSET TxTypes, "replay_attack" \in us
  PROVE  Verdict(ts) = Verdict(us)
<1>1. /\ Reaches(ts, DenyScore) <=> Reaches(us, DenyScore)
      /\ Reaches(ts, ChallengeScore) <=> Reaches(us, ChallengeScore)
  BY ReplayReaches, AskAssumption
<1> QED
  BY <1>1 DEF Verdict

\* Calls about one event are about the same request, of one stream.
LEMMA SameId ==
  ASSUME NEW q \in Refs, NEW r \in Refs, IsTx(q), IsTx(r), Ev(q).id = Ev(r).id
  PROVE  Ev(q) = Ev(r) /\ q[1] = r[1]
  BY IdAssumption, LogAssumption DEF IsTx

\* Steps that leave calls and results alone keep Agreed.
LEMMA FrameAgreed ==
  ASSUME CallsOK, Agreed, SeenKept, UNCHANGED <<dvars, result>>
  PROVE  Agreed'
<1>1. ASSUME NEW r \in Refs, KeyOf(r) # NotSet
      PROVE  KeyOf(r)' = KeyOf(r) /\ (Holds(r)' <=> Holds(r))
  BY <1>1, EvType DEF SeenKept, KeyOf, Holds
<1>2. \A a \in answers : a.ref \in Refs
  BY DEF CallsOK, Answers
<1>3. \A a \in answers' : a.scored => Standing(a)'
  BY <1>1, <1>2 DEF Agreed, Standing, dvars, calls
<1>4. ASSUME NEW r \in Refs
      PROVE  /\ call'[r] # "idle" => r = NextRecord(r[1])'
             /\ call'[r] = "get" => KeyOf(r)' # NotSet /\ Holds(r)'
             /\ call'[r] = "store" =>
                  /\ KeyOf(r)' # NotSet
                  /\ Holds(r)' => NoAnswer(r)'
                  /\ ~Holds(r)' => "replay_attack" \in reasons'[r]
  BY <1>1 DEF Agreed, NextRecord, NoAnswer, dvars, calls
<1> QED
  BY <1>3, <1>4 DEF Agreed

\* A new call has neither found nor stored anything.
LEMMA AskAgreed ==
  ASSUME CallsOK, Agreed, NEW s \in Streams, Ask(s)
  PROVE  Agreed'
  BY RefType DEF Agreed, Ask, CallsOK, NextRecord, Standing, NoAnswer, KeyOf, Holds, vars

\* Without time-outs a record is published after the calls about it.
LEMMA PublishAgreed ==
  ASSUME "timeout" \notin Faults, CallsOK, Agreed, NEW s \in Streams, Publish(s)
  PROVE  Agreed'
<1>1. call[NextRecord(s)] = "idle"
  BY DEF Publish, Fault
<1>2. ASSUME NEW r \in Refs, call[r] # "idle" PROVE r = NextRecord(r[1])'
  <2>1. r = NextRecord(r[1]) /\ r[1] \in Streams
    BY <1>2, RefType DEF Agreed
  <2>2. r[1] # s
    BY <1>1, <1>2, <2>1
  <2> QED
    BY <2>1, <2>2 DEF Publish, NextRecord, CallsOK
<1> QED
  BY <1>2 DEF Agreed, Publish, Standing, NoAnswer, KeyOf, Holds, calls, windows, env

\* Answers from enforcement state are not scores.
LEMMA LookupAgreed ==
  ASSUME CallsOK, Agreed, NEW r \in Refs, Lookup(r)
  PROVE  Agreed'
<1>1. UNCHANGED <<seen, result, sent>>
  BY DEF Lookup, vars
<1>2. \A a \in answers' : a.scored => a \in answers
  BY DEF Lookup, Answer
<1>3. call'[r] \in {"idle", "script"} /\ call[r] # "idle"
  BY DEF Lookup, Answer, CallsOK
<1>4. \A q \in Refs \ {r} : call'[q] = call[q] /\ reasons'[q] = reasons[q]
  BY DEF Lookup, Answer, CallsOK
<1> QED
  BY <1>1, <1>2, <1>3, <1>4 DEF Agreed, NextRecord, Standing, NoAnswer, KeyOf, Holds

\* There is one call about an event at a time.
LEMMA OneCall ==
  ASSUME CallsOK, Agreed, NEW q \in Refs, NEW r \in Refs, call[q] # "idle", call[r] # "idle",
         Ev(q).id = Ev(r).id
  PROVE  q = r
<1>1. IsTx(q) /\ IsTx(r) /\ q = NextRecord(q[1]) /\ r = NextRecord(r[1])
  BY DEF CallsOK, Agreed
<1>2. q[1] = r[1]
  BY <1>1, SameId
<1> QED
  BY <1>1, <1>2

\* The script either holds the key for the first time, or has a stored verdict to look
\* for, or finds a replay.
LEMMA ScriptAgreed ==
  ASSUME TypeOK, CallsOK, Agreed, NEW r \in Refs, Script(r)
  PROVE  Agreed'
<1> DEFINE ref == DecisionRef(Ev(r).id)
           status == ReplayStatus(KeyOf(r), ref, Ev(r).id)
           ts == TxFindings(ref, Ev(r), Ev(r).goHash)
<1>1. /\ call[r] = "script" /\ IsTx(r) /\ r = NextRecord(r[1])
      /\ UNCHANGED <<sent, answers, result>>
  BY DEF Script, CallsOK, Agreed, env
<1>2. SeenKept /\ KeyOf(r)' = SetNx(KeyOf(r), ref)
  BY ScriptKeepsSeen DEF KeyOf
<1>3. /\ call'[r] = (IF status = "redelivery" THEN "get" ELSE "store") /\ reasons'[r] = ts
      /\ \A q \in Refs \ {r} : call'[q] = call[q] /\ reasons'[q] = reasons[q]
  BY DEF Script, CallsOK, KeyOf
<1>4. "replay_attack" \in ts <=> status = "replay"
  BY ReplayFound DEF KeyOf
<1>5. ref # NotSet
  BY EvType, NotSetAssumption DEF DecisionRefs
<1> HIDE DEF ts
<1>6. ASSUME NEW q \in Refs, KeyOf(q) # NotSet
      PROVE  KeyOf(q)' = KeyOf(q) /\ (Holds(q)' <=> Holds(q))
  BY <1>2, <1>6, EvType DEF SeenKept, KeyOf, Holds
<1>7. \A a \in answers : a.ref \in Refs
  BY DEF CallsOK, Answers
<1>8. \A a \in answers' : a.scored => Standing(a)'
  BY <1>1, <1>6, <1>7 DEF Agreed, Standing
<1>9. KeyOf(r) = NotSet => NoAnswer(r)
  <2> SUFFICES ASSUME KeyOf(r) = NotSet, NEW a \in answers, a.scored, Ev(a.ref).id = Ev(r).id
               PROVE  FALSE
    BY DEF NoAnswer
  <2>1. IsTx(a.ref) /\ KeyOf(a.ref) # NotSet
    BY DEF Agreed, Standing
  <2>2. Ev(a.ref) = Ev(r)
    BY <1>1, <1>7, <2>1, SameId
  <2> QED
    BY <2>1, <2>2 DEF KeyOf
<1>10. /\ call'[r] = "get" => KeyOf(r)' # NotSet /\ Holds(r)'
       /\ call'[r] = "store" =>
            /\ KeyOf(r)' # NotSet
            /\ Holds(r)' => NoAnswer(r)'
            /\ ~Holds(r)' => "replay_attack" \in reasons'[r]
  <2>1. CASE KeyOf(r) = NotSet
    BY <1>1, <1>2, <1>3, <1>5, <1>9, <2>1 DEF ReplayStatus, SetNx, Holds, KeyOf, NoAnswer
  <2>2. CASE KeyOf(r) = ref
    BY <1>2, <1>3, <1>5, <2>2 DEF ReplayStatus, SetNx, Holds, KeyOf
  <2>3. CASE KeyOf(r) \notin {NotSet, ref}
    <3>1. status = "replay"
      BY <2>3 DEF ReplayStatus
    <3>2. KeyOf(r)' # NotSet /\ ~Holds(r)'
      BY <1>2, <2>3 DEF SetNx, Holds, KeyOf
    <3> QED
      BY <1>3, <1>4, <3>1, <3>2
  <2> QED
    BY <2>1, <2>2, <2>3
<1>11. ASSUME NEW q \in Refs \ {r}
       PROVE  /\ call'[q] # "idle" => q = NextRecord(q[1])'
              /\ call'[q] = "get" => KeyOf(q)' # NotSet /\ Holds(q)'
              /\ call'[q] = "store" =>
                   /\ KeyOf(q)' # NotSet
                   /\ Holds(q)' => NoAnswer(q)'
                   /\ ~Holds(q)' => "replay_attack" \in reasons'[q]
  BY <1>1, <1>3, <1>6 DEF Agreed, NextRecord, NoAnswer
<1>12. r = NextRecord(r[1])'
  BY <1>1 DEF NextRecord
<1> QED
  BY <1>8, <1>10, <1>11, <1>12 DEF Agreed

\* An answer that stands concerns no other call.
LEMMA AnswerAgreed ==
  ASSUME CallsOK, Agreed, NEW r \in Refs, call[r] # "idle", call'[r] = "idle",
         \A q \in Refs \ {r} : call'[q] = call[q] /\ reasons'[q] = reasons[q],
         UNCHANGED <<seen, sent>>,
         \A a \in answers' : a.scored => Standing(a)' /\ (a \in answers \/ a.ref = r)
  PROVE  Agreed'
<1> SUFFICES ASSUME NEW q \in Refs \ {r}, call[q] # "idle"
             PROVE  /\ q = NextRecord(q[1])'
                    /\ call[q] = "get" => KeyOf(q)' # NotSet /\ Holds(q)'
                    /\ call[q] = "store" =>
                         /\ KeyOf(q)' # NotSet
                         /\ Holds(q)' => NoAnswer(q)'
                         /\ ~Holds(q)' => "replay_attack" \in reasons'[q]
  BY DEF Agreed
<1>1. NoAnswer(q) => NoAnswer(q)'
  BY OneCall DEF NoAnswer
<1> QED
  BY <1>1 DEF Agreed, NextRecord, KeyOf, Holds

\* A retry repeats the stored verdict, or there was none.
LEMMA GetResultAgreed ==
  ASSUME "get" \notin Faults, TypeOK, CallsOK, Agreed, NEW r \in Refs, GetResult(r)
  PROVE  Agreed'
<1> DEFINE stored == result[Ev(r).id]
<1>1. /\ call[r] = "get" /\ IsTx(r) /\ KeyOf(r) # NotSet /\ Holds(r) /\ r = NextRecord(r[1])
      /\ UNCHANGED <<seen, sent, result>>
  BY DEF GetResult, CallsOK, Agreed, windows, env
<1>2. CASE stored # NotSet /\ Answer(r, Verdict(stored), stored, TRUE)
  <2>1. PICK new : answers' = answers \cup {new} /\ new.ref = r /\ new.verdict = Verdict(stored)
    <3> DEFINE a == [ref |-> r, verdict |-> Verdict(stored), reasons |-> stored, scored |-> TRUE]
    <3>1. answers' = answers \cup {a}
      BY <1>2 DEF Answer
    <3>2. a.ref = r /\ a.verdict = Verdict(stored)
      OBVIOUS
    <3> HIDE DEF a
    <3> QED
      BY <3>1, <3>2, Zenon
  <2>2. Standing(new)'
    BY <1>1, <1>2, <2>1 DEF Standing, KeyOf, Holds
  <2>3. \A a \in answers : a.scored => Standing(a)'
    BY <1>1 DEF Agreed, Standing, KeyOf, Holds
  <2>4. /\ call'[r] = "idle"
        /\ \A q \in Refs \ {r} : call'[q] = call[q] /\ reasons'[q] = reasons[q]
    BY <1>2 DEF Answer, CallsOK
  <2> QED
    BY <1>1, <2>1, <2>2, <2>3, <2>4, AnswerAgreed
<1>3. CASE stored = NotSet /\ call' = [call EXCEPT ![r] = "store"] /\ UNCHANGED <<reasons, answers>>
  <2>1. NoAnswer(r)
    BY <1>3 DEF Agreed, Standing, NoAnswer
  <2> QED
    BY <1>1, <1>3, <2>1 DEF Agreed, CallsOK, NextRecord, Standing, NoAnswer, KeyOf, Holds
<1> QED
  BY <1>2, <1>3, Zenon DEF GetResult, Fault

\* Storing a verdict leaves earlier answers standing.
LEMMA StoredAgreed ==
  ASSUME TypeOK, CallsOK, Agreed, NEW r \in Refs, call[r] = "store",
         result' = [result EXCEPT ![Ev(r).id] = reasons[r]],
         NEW a \in answers, a.scored, UNCHANGED seen
  PROVE  Standing(a)'
<1>1. IsTx(r) /\ a.ref \in Refs /\ Standing(a) /\ reasons[r] \in SUBSET TxTypes
  BY DEF CallsOK, Answers, Agreed
<1>2. Ev(r).id \in EventIds /\ Ev(a.ref).id \in EventIds
  BY <1>1, EvType
<1>3. CASE Ev(a.ref).id # Ev(r).id
  <2>1. result'[Ev(a.ref).id] = result[Ev(a.ref).id]
    BY <1>2, <1>3 DEF TypeOK
  <2> QED
    BY <1>1, <2>1 DEF Standing, KeyOf, Holds
<1>4. CASE Ev(a.ref).id = Ev(r).id
  <2>1. Ev(a.ref) = Ev(r) /\ IsTx(a.ref)
    BY <1>1, <1>4, SameId DEF Standing
  <2>2. ~Holds(r)
    BY <1>4 DEF Agreed, NoAnswer
  <2>3. "replay_attack" \in reasons[r]
    BY <2>2 DEF Agreed
  <2>4. /\ result[Ev(r).id] \in SUBSET TxTypes /\ "replay_attack" \in result[Ev(r).id]
        /\ Verdict(result[Ev(r).id]) = a.verdict
    BY <1>1, <1>2, <2>1, <2>2 DEF Standing, Holds, KeyOf, TypeOK
  <2>5. Verdict(reasons[r]) = a.verdict
    BY <1>1, <2>3, <2>4, ReplayVerdict
  <2>6. result'[Ev(a.ref).id] = reasons[r] /\ reasons[r] # NotSet
    BY <1>1, <1>2, <2>1, NotSetAssumption DEF TypeOK
  <2> QED
    BY <1>1, <2>1, <2>3, <2>5, <2>6 DEF Standing, KeyOf, Holds
<1> QED
  BY <1>3, <1>4

\* The answer that is given when a verdict is stored stands.
LEMMA StoreAgreed ==
  ASSUME TypeOK, CallsOK, Agreed, NEW r \in Refs, Store(r)
  PROVE  Agreed'
<1>1. /\ call[r] = "store" /\ IsTx(r) /\ KeyOf(r) # NotSet
      /\ ~Holds(r) => "replay_attack" \in reasons[r]
      /\ UNCHANGED <<seen, sent>> /\ result' = [result EXCEPT ![Ev(r).id] = reasons[r]]
  BY DEF Store, CallsOK, Agreed, windows
<1>2. PICK new :
        answers' = answers \cup {new} /\ new.ref = r /\ new.verdict = Verdict(reasons[r])
  <2> DEFINE a == [ref |-> r, verdict |-> Verdict(reasons[r]), reasons |-> reasons[r],
                   scored |-> TRUE]
  <2>1. answers' = answers \cup {a}
    BY DEF Store, Answer
  <2>2. a.ref = r /\ a.verdict = Verdict(reasons[r])
    OBVIOUS
  <2> HIDE DEF a
  <2> QED
    BY <2>1, <2>2, Zenon
<1>3. Standing(new)'
  <2>1. result'[Ev(r).id] = reasons[r] /\ reasons[r] # NotSet
    BY <1>1, EvType, NotSetAssumption DEF TypeOK, CallsOK
  <2> QED
    BY <1>1, <1>2, <2>1 DEF Standing, KeyOf, Holds
<1>4. \A a \in answers : a.scored => Standing(a)'
  BY <1>1, StoredAgreed
<1>5. /\ call'[r] = "idle"
      /\ \A q \in Refs \ {r} : call'[q] = call[q] /\ reasons'[q] = reasons[q]
  BY DEF Store, Answer, CallsOK
<1> QED
  BY <1>1, <1>2, <1>3, <1>4, <1>5, AnswerAgreed

\* A call that fails gives no answer, whether its verdict was stored or not.
LEMMA CallFailsAgreed ==
  ASSUME TypeOK, CallsOK, Agreed, NEW r \in Refs, CallFails(r)
  PROVE  Agreed'
<1>1. /\ call[r] # "idle" /\ UNCHANGED <<seen, sent, answers>>
      /\ \/ UNCHANGED result
         \/ call[r] = "store" /\ result' = [result EXCEPT ![Ev(r).id] = reasons[r]]
  BY DEF CallFails, windows
<1>2. \A a \in answers : a.scored => Standing(a)'
  <2>1. CASE UNCHANGED result
    BY <1>1, <2>1 DEF Agreed, Standing, KeyOf, Holds
  <2>2. CASE call[r] = "store" /\ result' = [result EXCEPT ![Ev(r).id] = reasons[r]]
    BY <1>1, <2>2, StoredAgreed
  <2> QED
    BY <1>1, <2>1, <2>2
<1>3. /\ call'[r] = "idle"
      /\ \A q \in Refs \ {r} : call'[q] = call[q] /\ reasons'[q] = reasons[q]
  BY DEF CallFails, CallsOK
<1> QED
  BY <1>1, <1>2, <1>3, AnswerAgreed

\* Every step of the traffic keeps Agreed.
LEMMA TrafficAgreed ==
  ASSUME Faults \cap {"get", "timeout"} = {}, DInv, Agreed, Traffic
  PROVE  Agreed'
<1> USE DEF DInv
<1>1. ASSUME NEW s \in Streams, EngineWork(s) \/ EngineBreak(s) PROVE Agreed'
  <2>1. UNCHANGED dvars
    BY <1>1 DEF EngineWork, EngineBreak
  <2>2. CASE Work(s) \/ Break(s)
    <3>1. UNCHANGED result
      BY <2>2 DEF Work, Break, Poll, Exists, Enforce, CheckTx, CheckAuth, Checked, Claim, Emit, FlushOk,
         Release, Commit, FlushFails, RedisFails, Crash, env
    <3> QED
      BY <2>1, <2>2, <3>1, EngineKeepsSeen, FrameAgreed
  <2>3. ASSUME NEW r \in pre[s], Fetch(s, r) PROVE Agreed'
    BY <2>1, <2>3, SeenUnchanged, FrameAgreed DEF Fetch, windows, env
  <2> QED
    BY <1>1, <2>2, <2>3 DEF EngineWork, EngineBreak
<1>2. ASSUME NEW s \in Streams, Ask(s) \/ Publish(s) PROVE Agreed'
  BY <1>2, AskAgreed, PublishAgreed
<1>3. ASSUME NEW r \in Refs, Decide(r) \/ CallFails(r) PROVE Agreed'
  BY <1>3, LookupAgreed, ScriptAgreed, GetResultAgreed, StoreAgreed, CallFailsAgreed DEF Decide
<1>4. ASSUME NEW k \in CooldownKeys, Expire(k), UNCHANGED dvars PROVE Agreed'
  BY <1>4, SeenUnchanged, FrameAgreed DEF Expire, windows
<1> QED
  BY <1>1, <1>2, <1>3, <1>4 DEF Traffic

\* So does a change of rules.
LEMMA RulesAgreed == ASSUME DInv, Agreed, RulesOnly PROVE Agreed'
  BY SeenUnchanged, FrameAgreed DEF RulesOnly, DInv, windows

\* Initially there are no answers.
LEMMA InitAgreed == DecisionInit => Agreed
  BY DEF DecisionInit, Agreed

\* Answers that stand agree.
LEMMA AgreedImplies == Agreed => AnswersAgree
  BY DEF Agreed, Standing, AnswersAgree

-----------------------------------------------------------------------------
\* A call that holds its key keeps it.
LEMMA HoldsStable ==
  ASSUME SeenKept, NEW r \in Refs, Holds(r)
  PROVE  Holds(r)'
<1>1. DecisionRef(Ev(r).id) # NotSet /\ Ev(r).goHash \in Hashes
  BY EvType, NotSetAssumption DEF DecisionRefs
<1> QED
  BY <1>1 DEF SeenKept, Holds, KeyOf

\* Steps that find, store and answer nothing keep ClearedOK.
LEMMA FrameCleared ==
  ASSUME CallsOK, ClearedOK, SeenKept, UNCHANGED result,
         \A r \in Refs :
           call'[r] \in {"get", "store"} => call[r] \in {"get", "store"} /\ reasons'[r] = reasons[r],
         \A a \in answers' : a.scored => a \in answers
  PROVE  ClearedOK'
<1>1. \A a \in answers : a.ref \in Refs
  BY DEF CallsOK, Answers
<1>2. \A r \in Refs : call'[r] \in {"get", "store"} /\ NoReplay(reasons'[r]) => Holds(r)'
  BY HoldsStable DEF ClearedOK
<1>3. \A r \in Refs :
        IsTx(r) /\ result'[Ev(r).id] # NotSet /\ NoReplay(result'[Ev(r).id]) => Holds(r)'
  BY HoldsStable DEF ClearedOK
<1>4. \A a \in answers' : a.scored => IsTx(a.ref) /\ (NoReplay(a.reasons) => Holds(a.ref)')
  BY <1>1, HoldsStable DEF ClearedOK
<1> QED
  BY <1>2, <1>3, <1>4 DEF ClearedOK

\* The script finds no replay only when it set the key or finds its own ref there.
LEMMA ScriptCleared ==
  ASSUME TypeOK, CallsOK, ClearedOK, NEW r \in Refs, Script(r)
  PROVE  ClearedOK'
<1> DEFINE ref == DecisionRef(Ev(r).id)
           status == ReplayStatus(KeyOf(r), ref, Ev(r).id)
           ts == TxFindings(ref, Ev(r), Ev(r).goHash)
<1>1. SeenKept /\ KeyOf(r)' = SetNx(KeyOf(r), ref) /\ UNCHANGED <<answers, result>>
  BY ScriptKeepsSeen DEF KeyOf, Script, env
<1>2. /\ reasons'[r] = ts
      /\ \A q \in Refs \ {r} : call'[q] = call[q] /\ reasons'[q] = reasons[q]
  BY DEF Script, CallsOK
<1>3. NoReplay(ts) => status # "replay"
  BY ReplayFound DEF KeyOf, NoReplay
<1> HIDE DEF ts
<1>4. NoReplay(ts) => Holds(r)'
  BY <1>1, <1>3 DEF ReplayStatus, SetNx, Holds, KeyOf
<1>5. \A q \in Refs : call'[q] \in {"get", "store"} /\ NoReplay(reasons'[q]) => Holds(q)'
  BY <1>1, <1>2, <1>4, HoldsStable DEF ClearedOK
<1>6. \A q \in Refs :
        IsTx(q) /\ result'[Ev(q).id] # NotSet /\ NoReplay(result'[Ev(q).id]) => Holds(q)'
  BY <1>1, HoldsStable DEF ClearedOK
<1>7. \A a \in answers' : a.scored => IsTx(a.ref) /\ (NoReplay(a.reasons) => Holds(a.ref)')
  BY <1>1, HoldsStable DEF ClearedOK, CallsOK, Answers
<1> QED
  BY <1>5, <1>6, <1>7 DEF ClearedOK

\* What a call found may be stored and returned.
LEMMA StoredCleared ==
  ASSUME TypeOK, CallsOK, ClearedOK, NEW r \in Refs, call[r] \in {"get", "store"},
         UNCHANGED seen, NEW ts, NoReplay(ts) => Holds(r), call' = [call EXCEPT ![r] = "idle"],
         reasons' = [reasons EXCEPT ![r] = {}],
         \/ UNCHANGED result
         \/ result' = [result EXCEPT ![Ev(r).id] = ts],
         \A a \in answers' : a.scored => a \in answers \/ (a.ref = r /\ a.reasons = ts)
  PROVE  ClearedOK'
<1>1. IsTx(r) /\ \A q \in Refs : Holds(q)' <=> Holds(q)
  BY DEF CallsOK, Holds, KeyOf
<1>2. \A q \in Refs : call'[q] \in {"get", "store"} /\ NoReplay(reasons'[q]) => Holds(q)'
  BY <1>1 DEF CallsOK, ClearedOK
<1>3. ASSUME NEW q \in Refs, IsTx(q), result'[Ev(q).id] # NotSet, NoReplay(result'[Ev(q).id])
      PROVE  Holds(q)'
  <2>1. CASE result'[Ev(q).id] = result[Ev(q).id]
    BY <1>1, <1>3, <2>1 DEF ClearedOK
  <2>2. CASE Ev(q).id = Ev(r).id /\ result'[Ev(q).id] = ts
    <3>1. Ev(q) = Ev(r)
      BY <1>1, <1>3, <2>2, IdAssumption
    <3> QED
      BY <1>1, <1>3, <2>2, <3>1 DEF Holds, KeyOf
  <2> QED
    BY <2>1, <2>2, EvType DEF TypeOK
<1>4. \A a \in answers' : a.scored => IsTx(a.ref) /\ (NoReplay(a.reasons) => Holds(a.ref)')
  BY <1>1 DEF ClearedOK, CallsOK, Answers
<1> QED
  BY <1>2, <1>3, <1>4 DEF ClearedOK

\* The steps of a call keep it, ...
LEMMA CallCleared ==
  ASSUME TypeOK, CallsOK, ClearedOK, NEW r \in Refs, Decide(r) \/ CallFails(r)
  PROVE  ClearedOK'
<1>1. CASE Lookup(r)
  <2>1. UNCHANGED <<seen, result>>
    BY <1>1 DEF Lookup, vars
  <2>2. \A q \in Refs :
          call'[q] \in {"get", "store"} => call[q] \in {"get", "store"} /\ reasons'[q] = reasons[q]
    BY <1>1 DEF Lookup, Answer, CallsOK
  <2>3. \A a \in answers' : a.scored => a \in answers
    BY <1>1 DEF Lookup, Answer
  <2> QED
    BY <2>1, <2>2, <2>3, SeenUnchanged, FrameCleared
<1>2. CASE Script(r)
  BY <1>2, ScriptCleared
<1>3. CASE GetResult(r)
  <2> DEFINE stored == result[Ev(r).id]
  <2>1. UNCHANGED <<seen, result>> /\ call[r] = "get" /\ IsTx(r)
    BY <1>3 DEF GetResult, windows, env, CallsOK
  <2>2. CASE stored # NotSet /\ Answer(r, Verdict(stored), stored, TRUE)
    <3>1. NoReplay(stored) => Holds(r)
      BY <2>1, <2>2 DEF ClearedOK
    <3>2. \A a \in answers' : a.scored => a \in answers \/ (a.ref = r /\ a.reasons = stored)
      BY <2>2 DEF Answer
    <3>3. call' = [call EXCEPT ![r] = "idle"] /\ reasons' = [reasons EXCEPT ![r] = {}]
      BY <2>2 DEF Answer
    <3> HIDE DEF stored
    <3> QED
      BY <2>1, <3>1, <3>2, <3>3, StoredCleared
  <2>3. CASE call' = [call EXCEPT ![r] = "store"] /\ UNCHANGED <<reasons, answers>>
    BY <2>1, <2>3, SeenUnchanged, FrameCleared DEF CallsOK
  <2> QED
    BY <1>3, <2>2, <2>3 DEF GetResult
<1>4. CASE Store(r)
  <2>1. (NoReplay(reasons[r]) => Holds(r)) /\ UNCHANGED seen /\ call[r] = "store"
    BY <1>4 DEF Store, windows, ClearedOK
  <2>2. \A a \in answers' : a.scored => a \in answers \/ (a.ref = r /\ a.reasons = reasons[r])
    BY <1>4 DEF Store, Answer
  <2>3. call' = [call EXCEPT ![r] = "idle"] /\ reasons' = [reasons EXCEPT ![r] = {}]
    BY <1>4 DEF Store, Answer
  <2> QED
    BY <1>4, <2>1, <2>2, <2>3, StoredCleared DEF Store
<1>5. CASE CallFails(r)
  <2>1. /\ UNCHANGED <<seen, answers>>
        /\ call' = [call EXCEPT ![r] = "idle"] /\ reasons' = [reasons EXCEPT ![r] = {}]
    BY <1>5 DEF CallFails, windows
  <2>2. CASE UNCHANGED result
    BY <2>1, <2>2, SeenUnchanged, FrameCleared DEF CallsOK
  <2>3. CASE call[r] = "store" /\ result' = [result EXCEPT ![Ev(r).id] = reasons[r]]
    <3>1. NoReplay(reasons[r]) => Holds(r)
      BY <2>3 DEF ClearedOK
    <3> QED
      BY <2>1, <2>3, <3>1, StoredCleared
  <2> QED
    BY <1>5, <2>2, <2>3 DEF CallFails
<1> QED
  BY <1>1, <1>2, <1>3, <1>4, <1>5 DEF Decide

\* ... so every step of the traffic does.
LEMMA TrafficCleared == ASSUME DInv, ClearedOK, Traffic PROVE ClearedOK'
<1> USE DEF DInv
<1>1. ASSUME SeenKept, UNCHANGED <<result, call, reasons, answers>> PROVE ClearedOK'
  BY <1>1, FrameCleared
<1>2. ASSUME NEW s \in Streams, EngineWork(s) \/ EngineBreak(s) PROVE ClearedOK'
  <2>1. UNCHANGED <<call, reasons, answers>>
    BY <1>2 DEF EngineWork, EngineBreak, dvars, calls
  <2>2. CASE Work(s) \/ Break(s)
    <3>1. UNCHANGED result
      BY <2>2 DEF Work, Break, Poll, Exists, Enforce, CheckTx, CheckAuth, Checked, Claim, Emit,
         FlushOk, Release, Commit, FlushFails, RedisFails, Crash, env
    <3> QED
      BY <1>1, <2>1, <2>2, <3>1, EngineKeepsSeen
  <2>3. ASSUME NEW r \in pre[s], Fetch(s, r) PROVE ClearedOK'
    BY <1>1, <2>1, <2>3, SeenUnchanged DEF Fetch, windows, env
  <2> QED
    BY <1>2, <2>2, <2>3 DEF EngineWork, EngineBreak
<1>3. ASSUME NEW s \in Streams, Ask(s) PROVE ClearedOK'
  BY <1>3, SeenUnchanged, FrameCleared DEF Ask, vars, CallsOK
<1>4. ASSUME NEW s \in Streams, Publish(s) PROVE ClearedOK'
  BY <1>1, <1>4, SeenUnchanged DEF Publish, windows, env, calls
<1>5. ASSUME NEW k \in CooldownKeys, Expire(k), UNCHANGED dvars PROVE ClearedOK'
  BY <1>1, <1>5, SeenUnchanged DEF Expire, windows, dvars, calls
<1> QED
  BY <1>2, <1>3, <1>4, <1>5, CallCleared DEF Traffic

\* So does a change of rules.
LEMMA RulesCleared == ASSUME DInv, ClearedOK, RulesOnly PROVE ClearedOK'
  BY SeenUnchanged, FrameCleared DEF RulesOnly, DInv, windows, dvars, calls

\* Initially no call was made.
LEMMA InitCleared == DecisionInit => ClearedOK
<1> SUFFICES ASSUME DecisionInit PROVE ClearedOK
  OBVIOUS
<1>1. \A r \in Refs : call[r] = "idle" /\ result[Ev(r).id] = NotSet
  BY EvType DEF DecisionInit, Init
<1> QED
  BY <1>1 DEF DecisionInit, ClearedOK

\* A call that holds the replay key keeps its record from being flagged.
LEMMA ClearedImplies ==
  ASSUME Utc, DInv, ClearedOK
  PROVE  ClearedNeverFlagged
<1> SUFFICES ASSUME NEW a \in answers, a.scored, "replay_attack" \notin a.reasons,
                    Det(Rep(a.ref)) \in delivered
             PROVE  FALSE
  BY DEF ClearedNeverFlagged, Rep
<1>1. a.ref \in Refs /\ IsTx(a.ref) /\ Holds(a.ref)
  BY DEF DInv, CallsOK, Answers, ClearedOK, NoReplay
<1>2. Cleared(a.ref)
  BY <1>1 DEF Utc, Holds, KeyOf, Cleared
<1>3. Rep(a.ref) \in found /\ Rep(a.ref).ref = a.ref /\ Rep(a.ref).type = "replay_attack"
  BY <1>1, RepType DEF DInv, Base, SentOK
<1> QED
  BY <1>2, <1>3 DEF DInv, Base, FlaggedOK

-----------------------------------------------------------------------------
\* A step of DecisionSpec or RtaceSpec, a stuttering one included.
Step == Traffic \/ RulesOnly

\* Every step of DecisionSpec is a step of the traffic or a change of rules.
LEMMA NextIsStep == DInv /\ [DecisionNext]_allVars => Step
<1> SUFFICES ASSUME DInv, [DecisionNext]_allVars PROVE Step
  OBVIOUS
<1>1. CASE UNCHANGED allVars
  <2>1. UNCHANGED <<vars, dvars>>
    BY <1>1 DEF allVars
  <2> QED
    BY <2>1 DEF vars, Step, RulesOnly, DInv, TypeOK, work, windows
<1>2. ASSUME NEW x \in RuleSubjects, ChangeRule(x), UNCHANGED dvars PROVE Step
  BY <1>2, ChangeRuleRulesOnly DEF Step, DInv
<1> QED
  BY <1>1, <1>2 DEF DecisionNext, Step

\* Such steps keep the invariants.
LEMMA StepDInv == DInv /\ Step => DInv'
  BY TrafficDInv, RulesDInv DEF Step

\* Nothing is lost.
LEMMA StepLoss ==
  ASSUME NoLoss
  PROVE  DInv /\ Loss /\ Step => Loss'
  BY TrafficLoss, RulesLoss DEF Step, DInv

\* Answers stay in agreement.
LEMMA StepAgreed ==
  ASSUME Faults \cap {"get", "timeout"} = {}
  PROVE  DInv /\ Agreed /\ Step => Agreed'
  BY TrafficAgreed, RulesAgreed DEF Step

\* Calls that found no replay keep their keys.
LEMMA StepCleared == DInv /\ ClearedOK /\ Step => ClearedOK'
  BY TrafficCleared, RulesCleared DEF Step

\* Windows are respected.
LEMMA StepWindowed ==
  ASSUME "produce" \notin Faults
  PROVE  DInv /\ Windowed /\ Step => Windowed'
<1> SUFFICES ASSUME DInv, Windowed, Step PROVE Windowed'
  OBVIOUS
<1>1. TypeOK /\ TypeOK'
  BY StepDInv DEF DInv
<1>2. CASE RulesOnly
  BY <1>1, <1>2, FrameWindowed DEF RulesOnly, work
<1> QED
  BY <1>1, <1>2, TrafficWindowed DEF Step

\* The invariant holds throughout.
LEMMA DInvHolds == DecisionSpec => []DInv
<1>1. DInv /\ [DecisionNext]_allVars => DInv'
  BY NextIsStep, StepDInv
<1> QED
  BY <1>1, InitDInv, PTL DEF DecisionSpec

\* The calls of the decision service never take the shared keys out of their types.
THEOREM DecisionTypeCorrect == DecisionSpec => []TypeOK
<1>1. DInv => TypeOK
  BY DEF DInv
<1> QED
  BY <1>1, DInvHolds, PTL

\* Whatever fails, overtakes, is asked again or resent, the engine never reports a transaction
\* as a replay that the service has scored as none (prescored in lua/tx_check.lua, phase C of
\* pipeline.py), if timestamps are in UTC.  (If they are not, the service and the engine hash
\* one request differently.)
THEOREM ClearedSafe ==
  ASSUME Utc
  PROVE  DecisionSpec => []ClearedNeverFlagged
<1>1. DInv /\ ClearedOK /\ [DecisionNext]_allVars => ClearedOK'
  BY NextIsStep, StepCleared
<1>2. DInv /\ ClearedOK => ClearedNeverFlagged
  BY ClearedImplies
<1> QED
  BY <1>1, <1>2, InitCleared, DInvHolds, PTL DEF DecisionSpec

\* As long as no claim is lost, so does the one about losses.
LEMMA DecisionLoss ==
  ASSUME NoLoss
  PROVE  DecisionSpec => [](DInv /\ Loss)
<1>1. DecisionInit => Loss
  BY InitLoss DEF DecisionInit
<1>2. DInv /\ Loss /\ [DecisionNext]_allVars => Loss'
  BY NextIsStep, StepLoss
<1> QED
  BY <1>1, <1>2, DInvHolds, PTL DEF DecisionSpec

\* Asking first never hides a resend under a new event id (tx_check.lua, engine.go, and
\* pipeline.py with its cooldown and delivery gate), however often sends and calls fail.
THEOREM FreshResendSafe ==
  ASSUME Faults \cap {"crash", "redis"} = {}
  PROVE  DecisionSpec => []FreshResendReported
<1>1. DInv /\ Loss => FreshResendReported
  BY LossFresh
<1>2. DecisionSpec => [](DInv /\ Loss)
  BY DecisionLoss DEF NoLoss
<1> QED
  BY <1>1, <1>2, PTL

\* Nor does it lose a replay that the engine found.
THEOREM DecisionReplaySafe ==
  ASSUME Faults \cap {"crash", "redis"} = {}
  PROVE  DecisionSpec => []ReplayNeverLost
<1>1. DInv /\ Loss => ReplayNeverLost
  BY LossReplay DEF DInv
<1>2. DecisionSpec => [](DInv /\ Loss)
  BY DecisionLoss DEF NoLoss
<1> QED
  BY <1>1, <1>2, PTL

\* What the engine re-emits for the service passes the same cooldown: one per window.
THEOREM DecisionWindowSafe ==
  ASSUME "produce" \notin Faults
  PROVE  DecisionSpec => []OnePerWindow
<1>1. DecisionInit => Windowed
  BY InitWindowed DEF DecisionInit
<1>2. DInv /\ Windowed /\ [DecisionNext]_allVars => Windowed'
  BY NextIsStep, StepWindowed
<1>3. DInv /\ Windowed => OnePerWindow
  BY WindowedImplies DEF DInv
<1> QED
  BY <1>1, <1>2, <1>3, DInvHolds, PTL DEF DecisionSpec

\* As long as stored verdicts can be read and the authoriser waits for its answers, a retry never
\* contradicts a verdict already given, wherever earlier calls failed (Decide in engine.go), and
\* the engine finds that verdict stored.
THEOREM AnswersSafe ==
  ASSUME Faults \cap {"get", "timeout"} = {}
  PROVE  DecisionSpec => []AnswersAgree
<1>1. DInv /\ Agreed /\ [DecisionNext]_allVars => Agreed'
  BY NextIsStep, StepAgreed
<1> QED
  BY <1>1, InitAgreed, AgreedImplies, DInvHolds, PTL DEF DecisionSpec
==============================================================================
