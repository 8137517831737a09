------------------------- MODULE DetectionEngineProofs -------------------------
(***************************************************************************)
(* Proofs about the detection engine, for every log, any number of streams *)
(* and every combination of faults: its types, and that it never reports   *)
(* the original of a replayed transaction as a replay.                     *)
(*                                                                         *)
(* The lemmas about steps allow replay keys to name calls of the decision  *)
(* service, so DecisionServiceProofs uses them as they are.                *)
(***************************************************************************)
EXTENDS DetectionEngine, TLAPS

\* The fields of a delivery ref, of the event it carries and of a detection name.
LEMMA RefType ==
  \A r \in Refs : /\ r[1] \in Streams /\ r[2] \in 1 .. Len(Log[r[1]])
                  /\ r = <<r[1], r[2]>>
  BY DEF Refs

LEMMA EvType ==
  \A r \in Refs :
    /\ Ev(r).kind \in {"tx", "auth"} /\ Ev(r).id \in EventIds /\ Ev(r).user \in Users
    /\ Ev(r).ip \in Ips \cup {NoIp} /\ (~IsTx(r) => Ev(r).ip \in Ips)
    /\ Ev(r).hash \in Hashes /\ Ev(r).goHash \in Hashes
    /\ Ev(r).at \in {Ev(q).at : q \in Refs} /\ Ev(r).ts \in Int
    /\ Ev(r).success \in BOOLEAN
<1> SUFFICES ASSUME NEW r \in Refs
             PROVE  /\ Ev(r).kind \in {"tx", "auth"} /\ Ev(r).id \in EventIds
                    /\ Ev(r).user \in Users
                    /\ Ev(r).ip \in Ips \cup {NoIp} /\ (~IsTx(r) => Ev(r).ip \in Ips)
                    /\ Ev(r).hash \in Hashes /\ Ev(r).goHash \in Hashes
                    /\ Ev(r).at \in {Ev(q).at : q \in Refs} /\ Ev(r).ts \in Int
                    /\ Ev(r).success \in BOOLEAN
  BY Zenon
<1> DEFINE Events == [kind: {"tx", "auth"}, id: EventIds, user: Users,
                      ip: Ips \cup {NoIp}, hash: Hashes, goHash: Hashes,
                      at: {Ev(q).at : q \in Refs}, ts: Int, success: BOOLEAN]
<1> HIDE DEF Events
<1>1. Log[r[1]] \in Seq(Events)
  BY RefType, LogAssumption, Zenon DEF Events
<1>2. Ev(r) \in Events
  BY <1>1, RefType DEF Ev
<1>3. ~IsTx(r) => Ev(r).ip # NoIp
  BY LogAssumption, Zenon
<1> QED
  BY <1>2, <1>3 DEF Events

LEMMA IdType ==
  \A d \in Ids : d.ref \in Refs /\ CooldownKey(d) \in CooldownKeys /\ Det(d) \in Messages
  BY DEF Ids, CooldownKeys, Messages

\* A batch consists of records.
LEMMA BatchType == \A s, to : Upto(s, to) \subseteq Refs /\ Batch(s) \subseteq Refs
  BY DEF Batch, Upto

\* What the scripts write: a window, a baseline, and the three keys of tx_check.lua.
LEMMA SlideType ==
  ASSUME NEW win \in SUBSET Members, NEW id \in EventIds, NEW ts \in Int, NEW width
  PROVE  Slide(win, id, ts, width) \in SUBSET Members
  BY DEF Slide, Members

LEMMA BaselineType ==
  ASSUME NEW r \in Refs, NEW b \in Sessions
  PROVE  Baseline(b, Ev(r)) \in Sessions
  BY EvType DEF Baseline, Sessions

LEMMA TxScriptType ==
  ASSUME TypeOK, NEW r \in Refs, NEW ref \in Refs \cup DecisionRefs, NEW h \in Hashes,
         TxScript(ref, Ev(r), h)
  PROVE  /\ seen' \in [Hashes -> Refs \cup DecisionRefs \cup {NotSet}]
         /\ burst' \in [Users -> SUBSET Members]
         /\ session' \in [Users -> Sessions]
<1> DEFINE e == Ev(r)
<1>1. e.user \in Users /\ e.id \in EventIds /\ e.ts \in Int
  BY EvType
<1>2. Window(e) \in SUBSET Members
  BY <1>1, SlideType DEF Window, TypeOK
<1>3. Baseline(session[e.user], e) \in Sessions
  BY <1>1, BaselineType DEF TypeOK
<1> HIDE DEF e
<1> QED
  BY <1>1, <1>2, <1>3 DEF TypeOK, TxScript, SetNx, e

\* Initially the state is well typed.
LEMMA InitType == Init => TypeOK
<1> SUFFICES ASSUME Init PROVE TypeOK
  OBVIOUS
<1>1. \A s \in Streams : Len(Log[s]) \in Nat
  BY LogAssumption
<1> QED
  BY <1>1 DEF Init, TypeOK, Sessions

\* The check of a record keeps the types.
LEMMA CheckType ==
  ASSUME TypeOK, NEW s \in Streams, NEW r \in todo[s],
         CheckTx(s, r) \/ CheckAuth(s, r)
  PROVE  TypeOK'
<1>1. r \in Refs
  BY DEF TypeOK
<1>2. PICK skip, ds : ds \in SUBSET Ids /\ Checked(s, r, skip, ds)
  BY Zenon DEF CheckTx, CheckAuth, TxDetections
<1>3. /\ seen' \in [Hashes -> Refs \cup DecisionRefs \cup {NotSet}]
      /\ burst' \in [Users -> SUBSET Members]
      /\ session' \in [Users -> Sessions]
      /\ fails' \in [Subjects -> SUBSET Members]
  <2>1. CASE CheckTx(s, r)
    BY <1>1, <2>1, EvType, TxScriptType DEF CheckTx, TypeOK
  <2>2. CASE CheckAuth(s, r)
    <3> DEFINE e == Ev(r)
               win(x) == Slide(fails[x], e.id, e.ts, AuthWindow)
    <3>1. fails' = [fails EXCEPT ![<<"user", e.user>>] = win(<<"user", e.user>>),
                                 ![<<"ip", e.ip>>] = win(<<"ip", e.ip>>)]
      BY <2>2 DEF CheckAuth
    <3>2. <<"user", e.user>> \in Subjects /\ <<"ip", e.ip>> \in Subjects
      BY <1>1, <2>2, EvType DEF CheckAuth, Subjects
    <3>3. \A x \in Subjects : win(x) \in SUBSET Members
      BY <1>1, EvType, SlideType DEF TypeOK
    <3> HIDE DEF win
    <3> QED
      BY <2>2, <3>1, <3>2, <3>3 DEF CheckAuth, TypeOK
  <2> QED
    BY <2>1, <2>2
<1> QED
  BY <1>1, <1>2, <1>3 DEF TypeOK, Checked, env

\* So does every step of a consumer process, ...
LEMMA WorkType ==
  ASSUME TypeOK, NEW s \in Streams, Work(s)
  PROVE  TypeOK'
<1>0. Len(Log[s]) \in Nat
  BY LogAssumption
<1>1. CASE Poll(s)
  <2>1. look' \in [Streams -> SUBSET Refs]
    BY <1>1, BatchType DEF TypeOK, Poll
  <2> QED
    BY <1>0, <1>1, <2>1 DEF TypeOK, Poll, Goto, windows, env
<1>2. ASSUME NEW r \in look[s], Exists(s, r) PROVE TypeOK'
  <2>1. r \in Refs
    BY DEF TypeOK
  <2>2. /\ barred \in SUBSET Refs /\ todo \in [Streams -> SUBSET Refs]
        /\ \/ barred' = barred \cup {r} /\ todo' = todo
           \/ barred' = barred /\ todo' = [todo EXCEPT ![s] = @ \cup {r}]
    BY <1>2 DEF TypeOK, Exists
  <2>3. barred' \in SUBSET Refs /\ todo' \in [Streams -> SUBSET Refs]
    BY <2>1, <2>2
  <2> QED
    BY <1>2, <2>3 DEF TypeOK, Exists, windows
<1>3. CASE Enforce(s)
  <2>1. \A r \in Refs : Refused(r) \in Messages
    BY DEF Messages
  <2>2. Batch(s) \in SUBSET Refs
    BY BatchType
  <2> QED
    BY <1>3, <2>1, <2>2 DEF TypeOK, Enforce, Goto, windows, env
<1>4. ASSUME NEW r \in todo[s], CheckTx(s, r) \/ CheckAuth(s, r) PROVE TypeOK'
  BY <1>4, CheckType
<1>5. ASSUME NEW d \in cand[s], Claim(s, d) PROVE TypeOK'
  <2>1. d \in Ids /\ CooldownKey(d) \in CooldownKeys
    BY IdType DEF TypeOK
  <2> QED
    BY <1>5, <2>1 DEF TypeOK, Claim, SetNx, windows, env
<1>6. CASE Emit(s)
  BY <1>6, IdType DEF TypeOK, Emit, Goto, work, windows, env
<1>7. CASE FlushOk(s)
  BY <1>7 DEF TypeOK, FlushOk, Goto, work, windows, env
<1>8. CASE Release(s)
  BY <1>8, BatchType DEF TypeOK, Release, Restart, Goto, windows, env
<1>9. CASE Commit(s)
  BY <1>9 DEF TypeOK, Commit, Goto, windows, env
<1> QED
  BY <1>1, <1>2, <1>3, <1>4, <1>5, <1>6, <1>7, <1>8, <1>9, Zenon DEF Work

\* ... every failure of it, ...
LEMMA BreakType ==
  ASSUME TypeOK, NEW s \in Streams, Break(s)
  PROVE  TypeOK'
<1>1. CASE FlushFails(s)
  BY <1>1 DEF TypeOK, FlushFails, Fault, Goto, work, windows, env
<1>2. CASE RedisFails(s)
  <2>1. look' \in [Streams -> SUBSET Refs]
    BY <1>2, BatchType DEF TypeOK, RedisFails, Restart
  <2> QED
    BY <1>2, <2>1 DEF TypeOK, RedisFails, Restart, Fault, Goto, windows, env
<1>3. CASE Crash(s)
  BY <1>3 DEF TypeOK, Crash, Fault, Goto, windows, env
<1> QED
  BY <1>1, <1>2, <1>3 DEF Break

\* ... and what happens around it.
LEMMA SurroundingsType ==
  ASSUME TypeOK,
         \/ \E k \in CooldownKeys : Expire(k)
         \/ \E x \in RuleSubjects : ChangeRule(x)
  PROVE  TypeOK'
<1>1. ASSUME NEW k \in CooldownKeys, Expire(k) PROVE TypeOK'
  BY <1>1 DEF TypeOK, Expire, work, windows
<1>2. ASSUME NEW x \in RuleSubjects, ChangeRule(x) PROVE TypeOK'
  BY <1>2 DEF TypeOK, ChangeRule, work, windows
<1> QED
  BY <1>1, <1>2

\* Every step keeps the types.
LEMMA NextType == TypeOK /\ [Next]_vars => TypeOK'
<1> SUFFICES ASSUME TypeOK, [Next]_vars PROVE TypeOK'
  OBVIOUS
<1>1. CASE UNCHANGED vars
  BY <1>1 DEF vars, TypeOK
<1>2. CASE Next
  <2>1. Subjects \subseteq RuleSubjects
    BY DEF RuleSubjects
  <2> QED
    BY <1>2, <2>1, WorkType, BreakType, SurroundingsType DEF Next
<1> QED
  BY <1>1, <1>2

\* Every variable of the detection engine keeps its type: the model of pipeline.py,
\* consumer.py and cooldown.py never leaves its state space.
THEOREM TypeCorrect == Spec => []TypeOK
  BY InitType, NextType, PTL DEF Spec
-----------------------------------------------------------------------------

\* What an attempt works with belongs to its batch and was found by the checks,
\* and a phase leaves nothing behind that the next attempt could take for its own.
StreamOK(s) ==
  /\ look[s] \subseteq Batch(s) /\ todo[s] \subseteq Batch(s) /\ pre[s] \subseteq Batch(s)
  /\ \A d \in cand[s] \cup won[s] : d \in found /\ d.ref \in Batch(s)
  /\ phase[s] # "enforce" => look[s] = {}
  /\ phase[s] \notin {"enforce", "run"} => todo[s] = {}
  /\ phase[s] # "run" => pre[s] = {} /\ cand[s] = {}
  /\ phase[s] \in {"poll", "enforce"} => won[s] = {}
  /\ phase[s] \notin {"run", "flush"} => outbox[s] = {}
WorkOK == \A s \in Streams : StreamOK(s)

\* Every detection in flight or delivered was found.
SentOK ==
  \A d \in Ids :
    (Det(d) \in delivered \/ \E s \in Streams : Det(d) \in outbox[s]) => d \in found

\* A replay key names a delivery of its request.
SeenOK ==
  \A h \in Hashes :
    /\ seen[h] \in Refs => IsTx(seen[h]) /\ Ev(seen[h]).hash = h
    /\ seen[h] \in DecisionRefs =>
         \E q \in Refs : IsTx(q) /\ Ev(q).goHash = h /\ seen[h] = DecisionRef(Ev(q).id)

\* The record for which a replay key is held: by itself or by the call about it.
Cleared(r) == seen[Ev(r).hash] \in {r, DecisionRef(Ev(r).id)}

\* A record is flagged only when its replay key is held for another one ...
FlaggedOK ==
  \A d \in found : d.type = "replay_attack" => seen[Ev(d.ref).hash] # NotSet /\ ~Cleared(d.ref)

\* ... and skipped only when its key is held by the call about it.
PreOK ==
  \A s \in Streams : \A r \in pre[s] : IsTx(r) /\ seen[Ev(r).hash] = DecisionRef(Ev(r).id)

\* Inductive, given the types, with and without the decision service.
Base == WorkOK /\ SentOK /\ SeenOK /\ FlaggedOK /\ PreOK

baseVars == <<committed, upto, phase, work, outbox, delivered, seen, found>>

\* Initially the invariant holds.
LEMMA InitBase == Init => Base
<1> SUFFICES ASSUME Init PROVE Base
  OBVIOUS
<1>1. SeenOK
  BY NotSetAssumption DEF Init, SeenOK
<1> QED
  BY <1>1 DEF Init, Base, WorkOK, StreamOK, SentOK, FlaggedOK, PreOK

\* A step that touches none of its variables keeps it.
LEMMA FrameBase ==
  ASSUME Base, UNCHANGED baseVars
  PROVE  Base'
  BY DEF Base, baseVars, work, WorkOK, StreamOK, SentOK, SeenOK, FlaggedOK, PreOK, Cleared, Batch, Upto

\* So does one that adds no detection and touches no replay key, if its work and its
\* messages stay within what was found.
LEMMA QuietBase ==
  ASSUME Base, UNCHANGED <<seen, found>>, WorkOK', SentOK',
         \A s \in Streams : pre'[s] \subseteq pre[s]
  PROVE  Base'
  BY DEF Base, SeenOK, FlaggedOK, PreOK, Cleared

\* Messages are told apart.
LEMMA RefusedIsNotDet == \A d, r : Det(d) # Refused(r)
  BY DEF Det, Refused
\* Different detections are different messages.
LEMMA DetIsDet == \A c, d : Det(c) = Det(d) => c = d
  BY DEF Det

\* Failures keep the invariant.
LEMMA BreakBase ==
  ASSUME TypeOK, Base, NEW s \in Streams, Break(s)
  PROVE  Base'
<1>1. CASE FlushFails(s)
  <2>1. WorkOK'
    BY <1>1 DEF TypeOK, Base, WorkOK, StreamOK, Batch, Upto, FlushFails, Goto, work
  <2>2. SentOK'
    BY <1>1 DEF TypeOK, Base, SentOK, FlushFails
  <2> QED
    BY <1>1, <2>1, <2>2, QuietBase DEF FlushFails, work, windows
<1>2. CASE RedisFails(s)
  <2>1. WorkOK'
    BY <1>2 DEF TypeOK, Base, WorkOK, StreamOK, Batch, Upto, RedisFails, Restart, Goto
  <2>2. SentOK'
    BY <1>2 DEF TypeOK, Base, SentOK, RedisFails
  <2>3. \A t \in Streams : pre'[t] \subseteq pre[t]
    BY <1>2 DEF TypeOK, RedisFails
  <2> QED
    BY <1>2, <2>1, <2>2, <2>3, QuietBase DEF RedisFails, windows
<1>3. CASE Crash(s)
  <2>1. WorkOK'
    BY <1>3 DEF TypeOK, Base, WorkOK, StreamOK, Batch, Upto, Crash, Goto
  <2>2. SentOK'
    BY <1>3 DEF TypeOK, Base, SentOK, Crash
  <2>3. \A t \in Streams : pre'[t] \subseteq pre[t]
    BY <1>3 DEF TypeOK, Crash
  <2> QED
    BY <1>3, <2>1, <2>2, <2>3, QuietBase DEF Crash, windows
<1> QED
  BY <1>1, <1>2, <1>3 DEF Break

\* Of the three detectors, only the replay detector comes up with a replay, and exactly
\* on the status "replay".
LEMMA ReplayFound ==
  ASSUME NEW ref, NEW e, NEW h
  PROVE  "replay_attack" \in TxFindings(ref, e, h) <=>
           ReplayStatus(seen[h], ref, e.id) = "replay"
<1>1. "replay_attack" \notin InterpretGeo(GeoStatus(session[e.user], e))
  BY Zenon DEF InterpretGeo
<1>2. "replay_attack" \notin InterpretBurst(ZCard(Window(e)))
  BY Zenon DEF InterpretBurst
<1>3. "replay_attack" \in InterpretReplay(ReplayStatus(seen[h], ref, e.id))
        <=> ReplayStatus(seen[h], ref, e.id) = "replay"
  BY Zenon DEF InterpretReplay
<1> QED
  BY <1>1, <1>2, <1>3, Zenon DEF TxFindings

\* The script writes a replay key once: SET NX.
LEMMA SeenGrows ==
  ASSUME TypeOK, NEW ref, NEW e, NEW h \in Hashes, TxScript(ref, e, h)
  PROVE  /\ seen'[h] = SetNx(seen[h], ref)
         /\ \A g \in Hashes : seen[g] # NotSet => seen'[g] = seen[g]
         /\ \A g \in Hashes \ {h} : seen'[g] = seen[g]
  BY DEF TxScript, SetNx, TypeOK

\* No record has the ref of a call.
LEMMA DecisionIsNotRef == \A r \in Refs : \A id : r # DecisionRef(id)
  BY RefType, NotSetAssumption DEF DecisionRef

\* Only logins are found to be credential stuffing.
LEMMA ReplayIsTx ==
  \A d \in Ids : IsTx(d.ref) <=> d.type # "credential_stuffing"
  BY DEF Ids, TxTypes

\* The check of a transaction keeps the invariant.
LEMMA CheckTxBase ==
  ASSUME TypeOK, Base, NEW s \in Streams, NEW r \in todo[s], CheckTx(s, r)
  PROVE  Base'
<1> DEFINE e == Ev(r)
           skip == Prescored(r, e, e.hash)
           ts == TxFindings(r, e, e.hash)
           ds == IF skip THEN {} ELSE TxDetections(r, ts)
<1>1. r \in Refs /\ IsTx(r) /\ r \in Batch(s)
  BY DEF CheckTx, TypeOK, Base, WorkOK, StreamOK
<1>2. e.hash \in Hashes
  BY <1>1, EvType
<1>3. Checked(s, r, skip, ds) /\ TxScript(r, e, e.hash)
  BY DEF CheckTx
<1>4. /\ seen'[e.hash] = SetNx(seen[e.hash], r)
      /\ \A g \in Hashes : seen[g] # NotSet => seen'[g] = seen[g]
      /\ \A g \in Hashes \ {e.hash} : seen'[g] = seen[g]
  BY <1>2, <1>3, SeenGrows
<1>5. \A d \in ds : d \in Ids /\ d.ref = r /\ d.type \in ts
  BY Zenon DEF TxDetections
<1>6. "replay_attack" \in ts => ReplayStatus(seen[e.hash], r, e.id) = "replay"
  BY ReplayFound
<1>7. skip => seen[e.hash] = DecisionRef(e.id) /\ seen[e.hash] # NotSet
  <2>1. DecisionRef(e.id) # NotSet
    BY <1>1, EvType, NotSetAssumption DEF DecisionRefs
  <2> QED
    BY <2>1 DEF Prescored, ReplayStatus
<1> HIDE DEF ts, ds, skip
<1>8. WorkOK'
  BY <1>1, <1>3, <1>5 DEF Checked, TypeOK, Base, WorkOK, StreamOK, Batch, Upto
<1>9. SentOK'
  BY <1>3 DEF Checked, Base, SentOK
<1>10. SeenOK'
  BY <1>1, <1>2, <1>4, DecisionIsNotRef DEF Base, SeenOK, SetNx, DecisionRefs
<1>11. FlaggedOK'
  <2> SUFFICES ASSUME NEW d \in found', d.type = "replay_attack"
               PROVE  seen'[Ev(d.ref).hash] # NotSet /\ ~Cleared(d.ref)'
    BY DEF FlaggedOK
  <2>1. CASE d \in found
    <3>1. Ev(d.ref).hash \in Hashes
      BY <2>1, EvType, IdType DEF TypeOK
    <3> QED
      BY <2>1, <3>1, <1>4 DEF Base, FlaggedOK, Cleared
  <2>2. CASE d \in ds
    <3>1. ReplayStatus(seen[e.hash], r, e.id) = "replay" /\ d.ref = r
      BY <2>2, <1>5, <1>6
    <3>2. seen[e.hash] \notin {NotSet, r, DecisionRef(e.id)}
      BY <3>1 DEF ReplayStatus
    <3> QED
      BY <3>1, <3>2, <1>2, <1>4 DEF Cleared
  <2> QED
    BY <1>3, <2>1, <2>2 DEF Checked
<1>12. PreOK'
  <2> SUFFICES ASSUME NEW t \in Streams, NEW q \in pre'[t]
               PROVE  IsTx(q) /\ seen'[Ev(q).hash] = DecisionRef(Ev(q).id)
    BY DEF PreOK
  <2>1. CASE q \in pre[t]
    <3>1. Ev(q).hash \in Hashes /\ Ev(q).id \in EventIds
      BY <2>1, EvType DEF TypeOK
    <3> QED
      BY <2>1, <3>1, <1>4, NotSetAssumption DEF Base, PreOK, DecisionRefs
  <2>2. CASE q = r /\ skip
    BY <2>2, <1>1, <1>2, <1>4, <1>7
  <2> QED
    BY <1>3, <2>1, <2>2 DEF Checked, TypeOK
<1> QED
  BY <1>8, <1>9, <1>10, <1>11, <1>12 DEF Base

\* The check of a login keeps the invariant.
LEMMA CheckAuthBase ==
  ASSUME TypeOK, Base, NEW s \in Streams, NEW r \in todo[s], CheckAuth(s, r)
  PROVE  Base'
<1>1. PICK ds : ds \in SUBSET Ids /\ Checked(s, r, FALSE, ds) /\ \A d \in ds : d.ref = r
  <2> DEFINE e == Ev(r)
             win(x) == Slide(fails[x], e.id, e.ts, AuthWindow)
             scopes == InterpretAuth(ZCard(win(<<"user", e.user>>)),
                                     ZCard(win(<<"ip", e.ip>>)))
             ds == {d \in Ids : d.ref = r /\ d.scope \in scopes}
  <2>1. Checked(s, r, FALSE, ds)
    BY DEF CheckAuth
  <2>2. ds \subseteq Ids /\ \A d \in ds : d.ref = r
    BY Zenon
  <2> HIDE DEF ds
  <2> QED
    BY <2>1, <2>2, Zenon
<1>2. ~IsTx(r) /\ UNCHANGED seen /\ r \in Batch(s)
  BY DEF CheckAuth, Base, WorkOK, StreamOK
<1>3. WorkOK'
  BY <1>1, <1>2 DEF Checked, TypeOK, Base, WorkOK, StreamOK, Batch, Upto
<1>4. SentOK'
  BY <1>1 DEF Checked, Base, SentOK
<1>5. FlaggedOK'
  BY <1>1, <1>2, ReplayIsTx DEF Checked, Base, FlaggedOK, Cleared
<1>6. PreOK' /\ SeenOK'
  BY <1>1, <1>2 DEF Checked, TypeOK, Base, PreOK, SeenOK
<1> QED
  BY <1>3, <1>4, <1>5, <1>6 DEF Base

\* Every step of a consumer process keeps it.
LEMMA WorkBase ==
  ASSUME TypeOK, Base, NEW s \in Streams, Work(s)
  PROVE  Base'
<1> USE DEF TypeOK, Base
<1>1. CASE Poll(s)
  <2>1. WorkOK' /\ SentOK'
    BY <1>1 DEF WorkOK, StreamOK, Batch, Upto, SentOK, Poll, Goto, work
  <2> QED
    BY <1>1, <2>1, QuietBase DEF Poll, work, windows
<1>2. ASSUME NEW r \in look[s], Exists(s, r) PROVE Base'
  <2>1. WorkOK' /\ SentOK'
    BY <1>2 DEF WorkOK, StreamOK, Batch, Upto, SentOK, Exists
  <2> QED
    BY <1>2, <2>1, QuietBase DEF Exists, windows
<1>3. CASE Enforce(s)
  <2>1. WorkOK'
    BY <1>3 DEF WorkOK, StreamOK, Batch, Upto, Enforce, Goto
  <2>2. SentOK'
    BY <1>3, RefusedIsNotDet DEF SentOK, Enforce
  <2> QED
    BY <1>3, <2>1, <2>2, QuietBase DEF Enforce, windows
<1>4. ASSUME NEW r \in todo[s], CheckTx(s, r) \/ CheckAuth(s, r) PROVE Base'
  BY <1>4, CheckTxBase, CheckAuthBase
<1>5. ASSUME NEW d \in cand[s], Claim(s, d) PROVE Base'
  <2>1. WorkOK' /\ SentOK'
    BY <1>5 DEF WorkOK, StreamOK, Batch, Upto, SentOK, Claim
  <2> QED
    BY <1>5, <2>1, QuietBase DEF Claim, windows
<1>6. CASE Emit(s)
  <2>1. WorkOK'
    BY <1>6 DEF WorkOK, StreamOK, Batch, Upto, Emit, Scored, Goto, work
  <2>2. SentOK'
    BY <1>6, DetIsDet DEF WorkOK, StreamOK, SentOK, Emit, work
  <2> QED
    BY <1>6, <2>1, <2>2, QuietBase DEF Emit, work, windows
<1>7. CASE FlushOk(s)
  <2>1. WorkOK' /\ SentOK'
    BY <1>7 DEF WorkOK, StreamOK, Batch, Upto, SentOK, FlushOk, Goto, work
  <2> QED
    BY <1>7, <2>1, QuietBase DEF FlushOk, work, windows
<1>8. CASE Release(s)
  <2>1. WorkOK' /\ SentOK'
    BY <1>8 DEF WorkOK, StreamOK, Batch, Upto, SentOK, Release, Restart, Goto
  <2> QED
    BY <1>8, <2>1, QuietBase DEF Release, windows
<1>9. CASE Commit(s)
  <2>1. WorkOK' /\ SentOK'
    BY <1>9 DEF WorkOK, StreamOK, Batch, Upto, SentOK, Commit, Goto
  <2> QED
    BY <1>9, <2>1, QuietBase DEF Commit, windows
<1> QED
  BY <1>1, <1>2, <1>3, <1>4, <1>5, <1>6, <1>7, <1>8, <1>9, Zenon DEF Work

-----------------------------------------------------------------------------

\* Without the decision service every replay key holds a record.
NoCalls == \A h \in Hashes : seen[h] \notin DecisionRefs

\* Without the service no call is ever named by a replay key.
LEMMA NoCallsStep ==
  ASSUME TypeOK, NoCalls, [Next]_vars
  PROVE  NoCalls'
<1>1. CASE UNCHANGED seen
  BY <1>1 DEF NoCalls
<1>2. ASSUME NEW s \in Streams, NEW r \in todo[s], CheckTx(s, r) PROVE NoCalls'
  <2>1. r \in Refs /\ Ev(r).hash \in Hashes
    BY EvType DEF TypeOK
  <2>2. TxScript(r, Ev(r), Ev(r).hash)
    BY <1>2 DEF CheckTx
  <2> QED
    BY <2>1, <2>2, SeenGrows, DecisionIsNotRef DEF NoCalls, SetNx, DecisionRefs
<1> QED
  BY <1>1, <1>2, ZenonT(60) DEF Next, Work, Break, Poll, Exists, Enforce, CheckAuth, Claim, Emit,
     FlushOk, Release, Commit, FlushFails, RedisFails, Crash, Expire, ChangeRule, windows, vars

\* A step rewrites no replay key.
SeenKept == \A h \in Hashes : seen[h] # NotSet => seen'[h] = seen[h]

\* Keys are never rewritten, so a cleared record stays cleared.
LEMMA ClearedStable ==
  ASSUME SeenKept, NEW r \in Refs, Cleared(r)
  PROVE  Cleared(r)'
<1>1. r # NotSet /\ DecisionRef(Ev(r).id) # NotSet /\ Ev(r).hash \in Hashes
  BY EvType, NotSetAssumption DEF DecisionRefs
<1> QED
  BY <1>1 DEF SeenKept, Cleared

\* Most steps touch no replay key.
LEMMA SeenUnchanged == ASSUME UNCHANGED seen PROVE SeenKept
  BY DEF SeenKept

\* The engine rewrites no replay key.
LEMMA EngineKeepsSeen ==
  ASSUME TypeOK, NEW s \in Streams, Work(s) \/ Break(s)
  PROVE  SeenKept
<1>1. CASE UNCHANGED seen
  BY <1>1, SeenUnchanged
<1>2. ASSUME NEW r \in todo[s], CheckTx(s, r) PROVE SeenKept
  <2>1. r \in Refs /\ Ev(r).hash \in Hashes
    BY EvType DEF TypeOK
  <2> QED
    BY <1>2, <2>1, SeenGrows DEF CheckTx, SeenKept
<1> QED
  BY <1>1, <1>2 DEF Work, Break, Poll, Exists, Enforce, CheckAuth, Claim, Emit, FlushOk, Release,
     Commit, FlushFails, RedisFails, Crash, windows

\* The engine has got past a transaction: it set the replay key of its request, or
\* found it set, or phase A refused the transaction.
Settled(r) == seen[Ev(r).hash] # NotSet \/ r \in barred

\* It gets past transactions in the order of the stream, ...
PastOK == \A r \in Refs : IsTx(r) /\ Committed(r) => Settled(r)
PassedOK(s) ==
  phase[s] \notin {"poll", "release"} =>
    \A r \in Batch(s) : IsTx(r) => r \in look[s] \cup todo[s] \/ Settled(r)

\* ... so a delivery that holds its replay key is the first that was not refused.
FirstOK ==
  \A q, r \in Refs : Resent(q, r) /\ seen[Ev(q).hash] = q /\ r[2] < q[2] => r \in barred

\* Inductive, given the types and Base.
OrderOK == PastOK /\ FirstOK /\ \A s \in Streams : PassedOK(s)

\* Initially nothing is held.
LEMMA InitOrder == Init => OrderOK
<1> SUFFICES ASSUME Init PROVE OrderOK
  OBVIOUS
<1>1. \A r \in Refs : ~Committed(r)
  BY RefType, LogAssumption DEF Init, Committed
<1>2. \A r \in Refs : seen[Ev(r).hash] # r
  BY EvType, NotSetAssumption DEF Init
<1> QED
  BY <1>1, <1>2 DEF Init, OrderOK, PastOK, FirstOK, PassedOK

\* Replay keys and refusals are not taken back.
LEMMA SettledStable ==
  ASSUME SeenKept, barred \subseteq barred', NEW r \in Refs, Settled(r)
  PROVE  Settled(r)'
  BY EvType DEF SeenKept, Settled

\* A stream whose batch is left alone has got past no less than before.
LEMMA FramePassed ==
  ASSUME NEW t \in Streams, PassedOK(t), SeenKept, barred \subseteq barred',
         committed'[t] = committed[t], upto'[t] = upto[t], phase'[t] = phase[t],
         look'[t] = look[t], todo'[t] = todo[t]
  PROVE  PassedOK(t)'
<1> SUFFICES ASSUME phase'[t] \notin {"poll", "release"}, NEW r \in Batch(t)', IsTx(r)
             PROVE  r \in look'[t] \cup todo'[t] \/ Settled(r)'
  BY DEF PassedOK
<1>1. r \in Batch(t) /\ r \in Refs
  BY DEF Batch, Upto
<1> QED
  BY <1>1, SettledStable DEF PassedOK

\* A step that commits nothing.
LEMMA OrderStep ==
  ASSUME OrderOK, NEW s \in Streams, SeenKept, barred \subseteq barred', UNCHANGED committed,
         \A t \in Streams \ {s} :
           /\ upto'[t] = upto[t] /\ phase'[t] = phase[t]
           /\ look'[t] = look[t] /\ todo'[t] = todo[t],
         FirstOK', PassedOK(s)'
  PROVE  OrderOK'
<1>1. PastOK'
  BY SettledStable DEF OrderOK, PastOK, Committed
<1>2. \A t \in Streams \ {s} : PassedOK(t)'
  BY FramePassed DEF OrderOK
<1> QED
  BY <1>1, <1>2 DEF OrderOK

\* Only a check sets a replay key.
LEMMA FrameFirst ==
  ASSUME FirstOK, UNCHANGED seen, barred \subseteq barred'
  PROVE  FirstOK'
  BY DEF FirstOK

\* The check of a transaction settles it, after those before it.
LEMMA CheckTxOrder ==
  ASSUME TypeOK, Base, OrderOK, NEW s \in Streams, NEW r \in todo[s], CheckTx(s, r)
  PROVE  OrderOK'
<1> DEFINE h == Ev(r).hash
<1>1. r \in Refs /\ IsTx(r) /\ h \in Hashes /\ r \in Batch(s) /\ r # NotSet
  BY EvType, NotSetAssumption DEF CheckTx, TypeOK, Base, WorkOK, StreamOK
<1>2. PICK skip, ds : Checked(s, r, skip, ds)
  BY Zenon DEF CheckTx
<1>3. SeenKept /\ UNCHANGED <<committed, upto, phase, look, barred>>
  BY <1>2, EngineKeepsSeen DEF Work, Checked, env
<1>4. seen'[h] = SetNx(seen[h], r) /\ \A g \in Hashes \ {h} : seen'[g] = seen[g]
  BY <1>1, SeenGrows DEF CheckTx
<1>5. todo' = [todo EXCEPT ![s] = @ \ {r}] /\ phase[s] = "run" /\ Foremost(r, todo[s])
  BY <1>2 DEF Checked
<1>6. PassedOK(s)'
  <2> SUFFICES ASSUME NEW q \in Batch(s)', IsTx(q)
               PROVE  q \in look'[s] \cup todo'[s] \/ Settled(q)'
    BY DEF PassedOK
  <2>1. q \in Batch(s) /\ q \in Refs
    BY <1>3 DEF Batch, Upto
  <2>2. CASE q = r
    BY <1>1, <1>4, <2>2 DEF SetNx, Settled
  <2>3. CASE q # r
    <3>1. q \in look[s] \cup todo[s] \/ Settled(q)
      BY <1>5, <2>1 DEF OrderOK, PassedOK
    <3>2. Settled(q) => Settled(q)'
      BY <1>3, <2>1, SettledStable
    <3> QED
      BY <1>3, <1>5, <2>3, <3>1, <3>2 DEF TypeOK
  <2> QED
    BY <2>2, <2>3
<1>7. FirstOK'
  <2> SUFFICES ASSUME NEW q \in Refs, NEW p \in Refs, Resent(q, p), seen'[Ev(q).hash] = q,
                      p[2] < q[2]
               PROVE  p \in barred
    BY <1>3 DEF FirstOK
  <2>1. CASE seen[Ev(q).hash] = q
    BY <2>1 DEF OrderOK, FirstOK
  <2>2. CASE seen[Ev(q).hash] # q
    <3>1. q = r /\ seen[h] = NotSet
      BY <1>4, <2>2, EvType DEF SetNx
    <3>2. p[1] = s /\ q[1] = s /\ Ev(p).hash = h
      BY <1>1, <3>1, LogAssumption DEF Resent, IsTx, Batch, Upto
    <3>3. CASE Committed(p)
      BY <3>1, <3>2, <3>3 DEF Resent, OrderOK, PastOK, Settled
    <3>4. CASE ~Committed(p)
      <4>1. /\ committed[s] \in Nat /\ upto[s] \in Nat /\ p[2] \in Nat /\ q[2] \in Nat
            /\ q[2] <= upto[s]
        BY <1>1, <3>1, RefType, LogAssumption DEF TypeOK, Batch, Upto
      <4>2. p \in Batch(s)
        BY <3>2, <3>4, <4>1 DEF Committed, Batch, Upto
      <4>3. p \notin look[s] \cup todo[s]
        BY <1>5, <3>1, <4>1 DEF Foremost, Base, WorkOK, StreamOK
      <4> QED
        BY <1>5, <3>1, <3>2, <4>2, <4>3 DEF Resent, OrderOK, PassedOK, Settled
    <3> QED
      BY <3>3, <3>4
  <2> QED
    BY <2>1, <2>2
<1> QED
  BY <1>3, <1>5, <1>6, <1>7, OrderStep DEF TypeOK

\* Phase A refuses a transaction or leaves it to be checked.
LEMMA ExistsOrder ==
  ASSUME TypeOK, OrderOK, NEW s \in Streams, NEW r \in look[s], Exists(s, r)
  PROVE  OrderOK'
<1>1. /\ UNCHANGED <<committed, upto, phase, seen>> /\ barred \subseteq barred'
      /\ look' = [look EXCEPT ![s] = @ \ {r}]
      /\ \/ todo' = todo /\ r \in barred'
         \/ todo' = [todo EXCEPT ![s] = @ \cup {r}]
  BY DEF Exists, windows
<1>2. SeenKept
  BY <1>1, SeenUnchanged
<1>3. PassedOK(s)'
  <2> SUFFICES ASSUME phase'[s] \notin {"poll", "release"}, NEW q \in Batch(s)', IsTx(q)
               PROVE  q \in look'[s] \cup todo'[s] \/ Settled(q)'
    BY DEF PassedOK
  <2>1. q \in Batch(s) /\ q \in Refs
    BY <1>1 DEF Batch, Upto
  <2>2. q \in look[s] \cup todo[s] \/ Settled(q)
    BY <1>1, <2>1 DEF OrderOK, PassedOK
  <2>3. Settled(q) => Settled(q)'
    BY <1>1, <1>2, <2>1, SettledStable
  <2> QED
    BY <1>1, <2>2, <2>3 DEF TypeOK, Settled
<1> QED
  BY <1>1, <1>2, <1>3, FrameFirst, OrderStep DEF TypeOK, OrderOK

\* What is committed has been got past.
LEMMA CommitOrder ==
  ASSUME TypeOK, Base, OrderOK, NEW s \in Streams, Commit(s)
  PROVE  OrderOK'
<1> USE DEF Commit, Goto, windows, env
<1>1. PastOK'
  <2> SUFFICES ASSUME NEW r \in Refs, IsTx(r), Committed(r)' PROVE Settled(r)
    BY DEF PastOK, Settled
  <2>1. CASE Committed(r)
    BY <2>1 DEF OrderOK, PastOK
  <2>2. CASE ~Committed(r)
    <3>1. r[1] \in Streams /\ r[2] \in Nat
      BY RefType, LogAssumption
    <3>2. r \in Batch(s)
      BY <2>2, <3>1 DEF Committed, TypeOK, Batch, Upto
    <3> QED
      BY <3>2 DEF OrderOK, PassedOK, Base, WorkOK, StreamOK
  <2> QED
    BY <2>1, <2>2
<1>2. PassedOK(s)'
  BY DEF PassedOK, TypeOK
<1>3. \A t \in Streams \ {s} : PassedOK(t)'
  BY SeenUnchanged, FramePassed DEF TypeOK, OrderOK
<1>4. FirstOK'
  BY FrameFirst DEF OrderOK
<1> QED
  BY <1>1, <1>2, <1>3, <1>4 DEF OrderOK

\* The other steps of a consumer process settle nothing, and an attempt that starts
\* over looks up every record again.
LEMMA OtherOrder ==
  ASSUME TypeOK, Base, OrderOK, NEW s \in Streams,
         \/ Poll(s) \/ Enforce(s) \/ Emit(s) \/ FlushOk(s) \/ Release(s) \/ Break(s)
         \/ \E r \in todo[s] : CheckAuth(s, r)
         \/ \E d \in cand[s] : Claim(s, d)
  PROVE  OrderOK'
<1>1. UNCHANGED <<committed, seen, barred>>
  BY DEF Poll, Enforce, Emit, FlushOk, Release, Break, FlushFails, RedisFails, Crash, CheckAuth,
     Checked, Claim, windows, env
<1>2. SeenKept /\ FirstOK' /\ \A r \in Refs : Settled(r) => Settled(r)'
  BY <1>1, SeenUnchanged, FrameFirst, SettledStable DEF OrderOK
<1>3. PassedOK(s)'
  <2> USE DEF TypeOK, Goto
  <2>1. CASE Poll(s)
    BY <2>1 DEF PassedOK, Poll, Batch, Upto
  <2>2. CASE Release(s) \/ RedisFails(s)
    BY <2>2 DEF PassedOK, Release, RedisFails, Restart, Batch, Upto
  <2>3. CASE FlushFails(s) \/ Crash(s)
    BY <2>3 DEF PassedOK, FlushFails, Crash
  <2>4. CASE \/ Enforce(s) \/ Emit(s) \/ FlushOk(s)
             \/ \E r \in todo[s] : CheckAuth(s, r)
             \/ \E d \in cand[s] : Claim(s, d)
    <3>1. phase[s] \notin {"poll", "release"} /\ UNCHANGED <<committed, upto, look>>
      BY <2>4 DEF Enforce, CheckAuth, Checked, Claim, Emit, Scored, FlushOk, work
    <3>2. ASSUME NEW q \in todo[s], IsTx(q) PROVE q \in todo'[s]
      <4>1. ASSUME NEW r \in todo[s], CheckAuth(s, r) PROVE q \in todo'[s]
        <5>1. todo' = [todo EXCEPT ![s] = @ \ {r}] /\ ~IsTx(r)
          BY <4>1, Zenon DEF CheckAuth, Checked
        <5> QED
          BY <3>2, <5>1
      <4>2. CASE Enforce(s)
        BY <3>2, <4>2 DEF Enforce
      <4>3. CASE Emit(s) \/ FlushOk(s) \/ \E d \in cand[s] : Claim(s, d)
        BY <4>3 DEF Claim, Emit, FlushOk, work
      <4> QED
        BY <2>4, <4>1, <4>2, <4>3
    <3> QED
      BY <1>2, <3>1, <3>2 DEF OrderOK, PassedOK, Batch, Upto
  <2> QED
    BY <2>1, <2>2, <2>3, <2>4 DEF Break
<1>4. \A t \in Streams \ {s} :
        /\ upto'[t] = upto[t] /\ phase'[t] = phase[t]
        /\ look'[t] = look[t] /\ todo'[t] = todo[t]
  <2>1. CASE Poll(s) \/ Enforce(s) \/ Emit(s) \/ FlushOk(s) \/ Release(s)
    BY <2>1 DEF TypeOK, Poll, Enforce, Emit, FlushOk, Release, Goto, Restart, work
  <2>2. CASE \/ \E r \in todo[s] : CheckAuth(s, r)
             \/ \E d \in cand[s] : Claim(s, d)
    BY <2>2 DEF TypeOK, CheckAuth, Checked, Claim, Goto, work
  <2>3. CASE Break(s)
    BY <2>3 DEF TypeOK, Break, FlushFails, RedisFails, Crash, Goto, Restart, work
  <2> QED
    BY <2>1, <2>2, <2>3
<1> QED
  BY <1>1, <1>2, <1>3, <1>4, OrderStep

\* Every step of a consumer process keeps the order, ...
LEMMA WorkOrder ==
  ASSUME TypeOK, Base, OrderOK, NEW s \in Streams, Work(s) \/ Break(s)
  PROVE  OrderOK'
  BY CheckTxOrder, ExistsOrder, CommitOrder, OtherOrder DEF Work

\* ... and nothing else touches it.
LEMMA FrameOrder ==
  ASSUME OrderOK, UNCHANGED <<committed, upto, phase, work, seen, barred>>
  PROVE  OrderOK'
  BY DEF OrderOK, PastOK, FirstOK, PassedOK, Settled, Committed, Batch, Upto, work

\* The inductive invariant of the engine on its own.
IInv == TypeOK /\ Base /\ NoCalls /\ OrderOK

\* Initially IInv holds.
LEMMA InitIInv == Init => IInv
<1> SUFFICES ASSUME Init PROVE NoCalls
  BY InitType, InitBase, InitOrder DEF IInv
<1> QED
  BY NotSetAssumption DEF Init, NoCalls

\* Every step preserves it.
LEMMA NextIInv == IInv /\ [Next]_vars => IInv'
<1> SUFFICES ASSUME IInv, [Next]_vars PROVE IInv'
  OBVIOUS
<1> USE DEF IInv
<1>1. TypeOK' /\ NoCalls'
  BY NextType, NoCallsStep
<1>2. CASE UNCHANGED <<baseVars, barred>>
  BY <1>1, <1>2, FrameBase, FrameOrder DEF baseVars
<1>3. ASSUME NEW s \in Streams, Work(s) \/ Break(s) PROVE IInv'
  BY <1>1, <1>3, WorkBase, BreakBase, WorkOrder
<1>4. UNCHANGED vars \/ (\E k \in CooldownKeys : Expire(k)) \/ (\E x \in Subjects : ChangeRule(x))
        => UNCHANGED <<baseVars, barred>>
  BY DEF vars, baseVars, work, windows, Expire, ChangeRule
<1> QED
  BY <1>2, <1>3, <1>4 DEF Next

\* The replay detection about a record.
Rep(r) == Id(r, "replay_attack", "")

\* A transaction has one replay detection.
LEMMA RepType ==
  ASSUME NEW r \in Refs, IsTx(r)
  PROVE  /\ Rep(r) \in Ids /\ Rep(r).ref = r /\ Rep(r).type = "replay_attack"
         /\ \A d \in Ids : d.ref = r /\ d.type = "replay_attack" => d = Rep(r)
<1>1. Rep(r) \in Ids /\ Rep(r).ref = r /\ Rep(r).type = "replay_attack"
  BY DEF Rep, Id, Ids, TxTypes
<1>2. ASSUME NEW d \in Ids, d.ref = r, d.type = "replay_attack" PROVE d = Rep(r)
  <2>1. d = [ref |-> d.ref, type |-> d.type, scope |-> d.scope]
    BY DEF Ids
  <2>2. d.scope = ""
    BY <1>2 DEF Ids
  <2> QED
    BY <1>2, <2>1, <2>2 DEF Rep, Id
<1> QED
  BY <1>1, <1>2

\* Without the service only an earlier delivery, or one behind a refused one, holds the
\* key of a flagged record.
LEMMA OriginalUnflagged ==
  ASSUME IInv
  PROVE  OriginalNeverFlagged
<1> SUFFICES ASSUME NEW r \in Refs, Original(r), r \notin barred, Det(Rep(r)) \in delivered
             PROVE  FALSE
  BY DEF OriginalNeverFlagged, Rep
<1>1. IsTx(r) /\ Ev(r).hash \in Hashes /\ Rep(r) \in Ids
  BY EvType, RepType DEF Original
<1>2. seen[Ev(r).hash] # NotSet /\ ~Cleared(r)
  BY <1>1, RepType DEF IInv, Base, SentOK, FlaggedOK
<1>3. PICK q \in Refs : seen[Ev(r).hash] = q /\ q # r
  BY <1>1, <1>2 DEF IInv, NoCalls, TypeOK, Cleared
<1>4. Resent(q, r)
  BY <1>1, <1>3 DEF IInv, Base, SeenOK, Resent
<1>5. r[2] < q[2]
  BY <1>4 DEF Original
<1> QED
  BY <1>3, <1>4, <1>5 DEF IInv, OrderOK, FirstOK, Resent

\* Whatever is retried, redelivered or crashes, the delivery that first carried a
\* transaction is never reported as its replay (lua/tx_check.lua with the refs of
\* pipeline.py), unless an attempt refused it under a rule that then ended.
THEOREM OriginalSafe == Spec => []OriginalNeverFlagged
<1>1. Spec => []IInv
  BY InitIInv, NextIInv, PTL DEF Spec
<1>2. IInv => OriginalNeverFlagged
  BY OriginalUnflagged
<1> QED
  BY <1>1, <1>2, PTL
==============================================================================
