-------------------------- MODULE DetectionLossProofs --------------------------
(***************************************************************************)
(* Proof that failed deliveries lose no replay: claim, send, delivery      *)
(* gate, release and retry (consumer.py, cooldown.py) together.            *)
(***************************************************************************)
EXTENDS DetectionEngineProofs

\* The faults that lose claims do not happen.
NoLoss == Faults \cap {"crash", "redis"} = {}

\* A cooldown key holds a detection of that key which was delivered, or which the
\* attempt that claimed it still has.
CoolOK ==
  \A k \in CooldownKeys : cool[k] # NotSet =>
    /\ CooldownKey(cool[k]) = k
    /\ Det(cool[k]) \in delivered \/ cool[k] \in won[cool[k].ref[1]]

\* The messages of an attempt that is about to flush, and of one that has.
WonOK ==
  \A s \in Streams : \A d \in won[s] :
    /\ phase[s] = "flush" => Det(d) \in outbox[s]
    /\ phase[s] = "commit" => Det(d) \in delivered

\* What the attempt at a batch has made of transaction r so far.
Safe(r, msgs) == Refused(r) \in msgs \/ Cleared(r) \/ Det(cover[Rep(r)]) \in msgs
Pending(s, r) ==
  \/ r \in todo[s] \/ Refused(r) \in outbox[s] \/ Cleared(r)
  \/ Rep(r) \in cand[s] \/ cover[Rep(r)] \in won[s] \/ Det(cover[Rep(r)]) \in delivered

\* A transaction is not forgotten between the phases.
BatchOK(s) ==
  \A r \in Batch(s) : IsTx(r) =>
    /\ phase[s] = "run" => Pending(s, r)
    /\ phase[s] = "flush" => Safe(r, outbox[s] \cup delivered)
    /\ phase[s] = "commit" => Safe(r, delivered)

\* What became of it once it is committed.
DoneOK ==
  \A r \in Refs : IsTx(r) /\ Committed(r) => Safe(r, delivered)

\* Inductive, given IInv, as long as no claim is lost.
Loss == CoolOK /\ WonOK /\ DoneOK /\ \A s \in Streams : BatchOK(s)
-----------------------------------------------------------------------------
\* A step leaves the batches of other streams as they were if it leaves their
\* cover alone.
LEMMA OtherBatch ==
  ASSUME NEW t \in Streams, BatchOK(t), SeenKept, delivered \subseteq delivered',
         committed'[t] = committed[t], upto'[t] = upto[t], phase'[t] = phase[t],
         todo'[t] = todo[t], cand'[t] = cand[t], won'[t] = won[t], outbox'[t] = outbox[t],
         \A r \in Batch(t) : IsTx(r) => cover'[Rep(r)] = cover[Rep(r)]
  PROVE  BatchOK(t)'
<1> SUFFICES ASSUME NEW r \in Batch(t)', IsTx(r)
             PROVE  /\ phase'[t] = "run" => Pending(t, r)'
                    /\ phase'[t] = "flush" => Safe(r, outbox[t] \cup delivered)'
                    /\ phase'[t] = "commit" => Safe(r, delivered)'
  BY DEF BatchOK
<1>1. r \in Batch(t) /\ r \in Refs
  BY DEF Batch, Upto
<1>2. Cleared(r) => Cleared(r)'
  BY <1>1, ClearedStable
<1> QED
  BY <1>1, <1>2 DEF BatchOK, Pending, Safe

\* The same of the records that are committed.
LEMMA DoneStep ==
  ASSUME DoneOK, SeenKept, UNCHANGED committed, delivered \subseteq delivered',
         \A r \in Refs : IsTx(r) /\ Committed(r) => cover'[Rep(r)] = cover[Rep(r)]
  PROVE  DoneOK'
<1> SUFFICES ASSUME NEW r \in Refs, IsTx(r), Committed(r)'
             PROVE  Safe(r, delivered)'
  BY DEF DoneOK
<1>1. Cleared(r) => Cleared(r)'
  BY ClearedStable
<1> QED
  BY <1>1 DEF DoneOK, Safe, Committed

\* Initially nothing can have been lost.
LEMMA InitLoss == Init => Loss
<1> SUFFICES ASSUME Init PROVE Loss
  OBVIOUS
<1>1. \A r \in Refs : ~Committed(r)
  BY RefType, LogAssumption DEF Init, Committed
<1>2. \A s \in Streams : Batch(s) = {}
  BY RefType, LogAssumption DEF Init, Batch, Upto
<1> QED
  BY <1>1, <1>2 DEF Init, Loss, CoolOK, WonOK, DoneOK, BatchOK

\* A new batch has no claims yet.
LEMMA PollLoss ==
  ASSUME TypeOK, Base, Loss, NEW s \in Streams, Poll(s)
  PROVE  Loss'
<1> USE DEF Poll, Goto, windows
<1>1. SeenKept
  BY SeenUnchanged
<1>2. CoolOK' /\ WonOK'
  BY DEF TypeOK, Loss, CoolOK, WonOK
<1>3. DoneOK'
  BY <1>1, DoneStep DEF Loss
<1>4. BatchOK(s)'
  BY DEF BatchOK, TypeOK
<1>5. \A t \in Streams \ {s} : BatchOK(t)'
  BY <1>1, OtherBatch DEF TypeOK, Loss
<1> QED
  BY <1>2, <1>3, <1>4, <1>5 DEF Loss

\* Phase A looks up one rule after the other ...
LEMMA ExistsLoss ==
  ASSUME TypeOK, Base, Loss, NEW s \in Streams, NEW r \in look[s], Exists(s, r)
  PROVE  Loss'
<1>1. SeenKept /\ UNCHANGED <<committed, upto, phase, cand, won, outbox, delivered, cool, cover>>
  BY SeenUnchanged DEF Exists, windows
<1>2. CoolOK' /\ WonOK'
  BY <1>1 DEF Loss, CoolOK, WonOK
<1>3. DoneOK'
  BY <1>1, DoneStep DEF Loss
<1>4. BatchOK(s)'
  BY <1>1 DEF Exists, BatchOK
<1>5. \A t \in Streams \ {s} : todo'[t] = todo[t]
  BY DEF Exists, TypeOK
<1>6. \A t \in Streams \ {s} : BatchOK(t)'
  BY <1>1, <1>5, OtherBatch DEF Loss
<1> QED
  BY <1>2, <1>3, <1>4, <1>6 DEF Loss

\* ... and a transaction is refused or left to be checked.
LEMMA EnforceLoss ==
  ASSUME TypeOK, Base, Loss, NEW s \in Streams, Enforce(s)
  PROVE  Loss'
<1> USE DEF Enforce, Goto, windows
<1>1. SeenKept
  BY SeenUnchanged
<1>2. CoolOK' /\ WonOK'
  BY DEF TypeOK, Loss, CoolOK, WonOK
<1>3. DoneOK'
  BY <1>1, DoneStep DEF Loss
<1>4. BatchOK(s)'
  <2>1. phase'[s] = "run" /\ Batch(s)' = Batch(s)
    BY DEF TypeOK, Batch, Upto
  <2>2. ASSUME NEW r \in Batch(s), IsTx(r) PROVE r \in todo'[s] \/ Refused(r) \in outbox'[s]
    BY <2>2 DEF TypeOK
  <2> QED
    BY <2>1, <2>2 DEF BatchOK, Pending
<1>5. \A t \in Streams \ {s} : BatchOK(t)'
  BY <1>1, OtherBatch DEF TypeOK, Loss
<1> QED
  BY <1>2, <1>3, <1>4, <1>5 DEF Loss

\* A check of a record either clears it or leaves its replay to be claimed ...
LEMMA CheckedLoss ==
  ASSUME TypeOK, Base, Loss, SeenKept, NEW s \in Streams, NEW r \in todo[s],
         NEW skip, NEW ds \in SUBSET Ids, Checked(s, r, skip, ds),
         IsTx(r) => Cleared(r)' \/ Rep(r) \in ds
  PROVE  Loss'
<1> USE DEF Checked
<1>1. CoolOK' /\ WonOK'
  BY DEF TypeOK, Loss, CoolOK, WonOK
<1>2. DoneOK'
  BY DoneStep DEF Loss
<1>3. BatchOK(s)'
  <2> SUFFICES ASSUME NEW q \in Batch(s)', IsTx(q) PROVE Pending(s, q)'
    BY DEF BatchOK
  <2>1. q \in Batch(s) /\ q \in Refs
    BY DEF Batch, Upto
  <2>2. CASE q = r
    BY <2>2 DEF Pending, TypeOK
  <2>3. CASE q # r
    <3>1. Pending(s, q)
      BY <2>1 DEF Loss, BatchOK
    <3>2. Cleared(q) => Cleared(q)'
      BY <2>1, ClearedStable
    <3> QED
      BY <2>3, <3>1, <3>2 DEF Pending, TypeOK
  <2> QED
    BY <2>2, <2>3
<1>4. \A t \in Streams \ {s} : BatchOK(t)'
  BY OtherBatch DEF TypeOK, Loss
<1> QED
  BY <1>1, <1>2, <1>3, <1>4 DEF Loss

\* ... and the transaction script does one of the two, whatever was tried before.
LEMMA CheckTxLoss ==
  ASSUME TypeOK, Base, Loss, NEW s \in Streams, NEW r \in todo[s], CheckTx(s, r)
  PROVE  Loss'
<1> DEFINE e == Ev(r)
           skip == Prescored(r, e, e.hash)
           ts == TxFindings(r, e, e.hash)
           ds == IF skip THEN {} ELSE TxDetections(r, ts)
<1>1. r \in Refs /\ IsTx(r) /\ e.hash \in Hashes
  BY EvType DEF CheckTx, TypeOK
<1>2. Checked(s, r, skip, ds) /\ TxScript(r, e, e.hash)
  BY DEF CheckTx
<1>3. SeenKept /\ seen'[e.hash] = SetNx(seen[e.hash], r)
  BY <1>1, <1>2, SeenGrows DEF SeenKept
<1>4. ds \in SUBSET Ids
  BY Zenon DEF TxDetections
<1>5. Cleared(r)' \/ Rep(r) \in ds
  <2>1. CASE seen[e.hash] = NotSet
    BY <1>3, <2>1 DEF SetNx, Cleared
  <2>2. CASE Cleared(r)
    BY <1>1, <1>3, <2>2, ClearedStable
  <2>3. CASE seen[e.hash] # NotSet /\ ~Cleared(r)
    <3>1. ReplayStatus(seen[e.hash], r, e.id) = "replay"
      BY <2>3 DEF ReplayStatus, Cleared
    <3>2. "replay_attack" \in ts /\ ~skip
      BY <3>1, ReplayFound DEF Prescored
    <3>3. Rep(r) \in TxDetections(r, ts)
      BY <1>1, <3>2, RepType, Zenon DEF TxDetections
    <3> QED
      BY <3>2, <3>3
  <2> QED
    BY <2>1, <2>2, <2>3
<1> HIDE DEF ds, skip, ts
<1> QED
  BY <1>2, <1>3, <1>4, <1>5, CheckedLoss

\* Logins are not transactions.
LEMMA CheckAuthLoss ==
  ASSUME TypeOK, Base, Loss, NEW s \in Streams, NEW r \in todo[s], CheckAuth(s, r)
  PROVE  Loss'
<1>1. PICK ds : ds \in SUBSET Ids /\ Checked(s, r, FALSE, ds)
  BY Zenon DEF CheckAuth
<1>2. SeenKept /\ ~IsTx(r)
  BY SeenUnchanged DEF CheckAuth
<1> QED
  BY <1>1, <1>2, CheckedLoss

\* Replay detections of one cooldown key are about one user, whose transactions
\* share a partition.
LEMMA SameKeySameStream ==
  ASSUME NEW c \in Ids, NEW d \in Ids, CooldownKey(c) = CooldownKey(d),
         d.type = "replay_attack"
  PROVE  c.ref[1] = d.ref[1]
<1>1. c.type = "replay_attack"
  BY DEF CooldownKey
<1>2. c.scope = "" /\ d.scope = "" /\ IsTx(c.ref) /\ IsTx(d.ref) /\ c.ref \in Refs /\ d.ref \in Refs
  BY <1>1 DEF Ids
<1>3. Ev(c.ref).user = Ev(d.ref).user
  BY <1>2 DEF CooldownKey, CooldownSubject
<1> QED
  BY <1>2, <1>3, LogAssumption DEF IsTx

\* A claim is won, or yields to a detection that was delivered or that the same
\* attempt has won.
LEMMA ClaimLoss ==
  ASSUME TypeOK, Base, Loss, NEW s \in Streams, NEW d \in cand[s], Claim(s, d)
  PROVE  Loss'
<1> DEFINE k == CooldownKey(d)
<1>1. d \in Ids /\ d.ref \in Batch(s) /\ d.ref \in Refs /\ k \in CooldownKeys /\ d.ref[1] = s
  BY IdType DEF TypeOK, Base, WorkOK, StreamOK, Batch, Upto
<1>2. SeenKept
  BY SeenUnchanged DEF Claim, windows
<1>3. CoolOK'
  <2> SUFFICES ASSUME NEW j \in CooldownKeys, cool'[j] # NotSet
               PROVE  /\ CooldownKey(cool'[j]) = j
                      /\ Det(cool'[j]) \in delivered' \/ cool'[j] \in won'[cool'[j].ref[1]]
    BY DEF CoolOK
  <2>1. CASE cool'[j] = cool[j]
    BY <2>1 DEF Claim, Loss, CoolOK, TypeOK
  <2>2. CASE cool'[j] # cool[j]
    <3>1. j = k /\ cool[k] = NotSet /\ cool'[j] = d
      BY <2>2, <1>1 DEF Claim, SetNx, TypeOK
    <3> QED
      BY <1>1, <3>1 DEF Claim, TypeOK
  <2> QED
    BY <2>1, <2>2
<1>4. WonOK'
  BY DEF Claim, Scored, Loss, WonOK, TypeOK
<1>5. \A c \in Ids : c # d => cover'[c] = cover[c]
  BY DEF Claim, TypeOK
<1>6. \A r \in Refs : IsTx(r) => Rep(r) \in Ids /\ Rep(r).ref = r /\ Rep(r).type = "replay_attack"
  BY RepType
<1>7. DoneOK'
  <2>1. ~Committed(d.ref)
    BY <1>1, RefType DEF Committed, Batch, Upto, TypeOK
  <2>2. \A r \in Refs : IsTx(r) /\ Committed(r) => cover'[Rep(r)] = cover[Rep(r)]
    BY <1>5, <1>6, <2>1
  <2> QED
    BY <1>2, <2>2, DoneStep DEF Claim, Loss
<1>8. BatchOK(s)'
  <2> SUFFICES ASSUME NEW r \in Batch(s)', IsTx(r) PROVE Pending(s, r)'
    BY DEF BatchOK, Claim, Scored
  <2>1. r \in Batch(s) /\ r \in Refs
    BY DEF Batch, Upto, Claim
  <2>2. Pending(s, r)
    BY <2>1 DEF Claim, Scored, Loss, BatchOK
  <2>3. Cleared(r) => Cleared(r)'
    BY <1>2, <2>1, ClearedStable
  <2>4. CASE Rep(r) # d
    BY <2>1, <2>2, <2>3, <2>4, <1>5, <1>6 DEF Pending, Claim, TypeOK
  <2>5. CASE Rep(r) = d
    <3>1. CASE cool[k] = NotSet
      BY <1>1, <2>5, <3>1 DEF Pending, Claim, SetNx, TypeOK
    <3>2. CASE cool[k] # NotSet
      <4> DEFINE c == cool[k]
      <4>1. c \in Ids /\ CooldownKey(c) = k /\ (Det(c) \in delivered \/ c \in won[c.ref[1]])
        BY <1>1, <3>2 DEF Loss, CoolOK, TypeOK
      <4>2. c.ref[1] = s
        BY <1>1, <1>6, <2>1, <2>5, <4>1, SameKeySameStream
      <4>3. cover'[d] = c
        BY <1>1, <3>2 DEF Claim, SetNx, TypeOK
      <4>4. won'[s] = won[s] /\ delivered' = delivered
        BY <3>2 DEF Claim, TypeOK
      <4> QED
        BY <2>5, <4>1, <4>2, <4>3, <4>4 DEF Pending
    <3> QED
      BY <3>1, <3>2
  <2> QED
    BY <2>4, <2>5
<1>9. ASSUME NEW t \in Streams \ {s} PROVE BatchOK(t)'
  <2>1. \A r \in Batch(t) : IsTx(r) => cover'[Rep(r)] = cover[Rep(r)]
    BY <1>1, <1>5, <1>6 DEF Batch, Upto
  <2> QED
    BY <1>2, <2>1, OtherBatch DEF Claim, Loss, TypeOK
<1> QED
  BY <1>3, <1>4, <1>7, <1>8, <1>9 DEF Loss

\* What was won is handed to the producer.
LEMMA EmitLoss ==
  ASSUME TypeOK, Base, Loss, NEW s \in Streams, Emit(s)
  PROVE  Loss'
<1> USE DEF Emit, Scored, Goto, work, windows
<1>1. SeenKept
  BY SeenUnchanged
<1>2. CoolOK' /\ WonOK'
  BY DEF TypeOK, Loss, CoolOK, WonOK
<1>3. DoneOK'
  BY <1>1, DoneStep DEF Loss
<1>4. BatchOK(s)'
  <2>1. /\ phase'[s] = "flush" /\ Batch(s)' = Batch(s) /\ delivered' = delivered
        /\ outbox'[s] = outbox[s] \cup {Det(d) : d \in won[s]}
    BY DEF TypeOK, Batch, Upto
  <2>2. ASSUME NEW r \in Batch(s), IsTx(r) PROVE Safe(r, outbox[s] \cup delivered)'
    <3>1. Pending(s, r) /\ r \notin todo[s] /\ Rep(r) \notin cand[s]
      BY <2>2 DEF Loss, BatchOK
    <3>2. Cleared(r) => Cleared(r)'
      BY <1>1, ClearedStable DEF Batch, Upto
    <3> QED
      BY <2>1, <3>1, <3>2 DEF Pending, Safe
  <2> QED
    BY <2>1, <2>2 DEF BatchOK
<1>5. \A t \in Streams \ {s} : BatchOK(t)'
  BY <1>1, OtherBatch DEF TypeOK, Loss
<1> QED
  BY <1>2, <1>3, <1>4, <1>5 DEF Loss

\* After the delivery gate the broker has it.
LEMMA FlushOkLoss ==
  ASSUME TypeOK, Base, Loss, NEW s \in Streams, FlushOk(s)
  PROVE  Loss'
<1> USE DEF FlushOk, Goto, work, windows
<1>1. SeenKept
  BY SeenUnchanged
<1>2. CoolOK' /\ WonOK'
  BY DEF TypeOK, Loss, CoolOK, WonOK
<1>3. DoneOK'
  BY <1>1, DoneStep DEF Loss
<1>4. BatchOK(s)'
  <2>1. /\ phase'[s] = "commit" /\ Batch(s)' = Batch(s)
        /\ delivered' = outbox[s] \cup delivered
    BY DEF TypeOK, Batch, Upto
  <2>2. ASSUME NEW r \in Batch(s), IsTx(r) PROVE Safe(r, delivered)'
    <3>1. Safe(r, outbox[s] \cup delivered)
      BY <2>2 DEF Loss, BatchOK
    <3>2. Cleared(r) => Cleared(r)'
      BY <1>1, ClearedStable DEF Batch, Upto
    <3> QED
      BY <2>1, <3>1, <3>2 DEF Safe
  <2> QED
    BY <2>1, <2>2 DEF BatchOK
<1>5. \A t \in Streams \ {s} : BatchOK(t)'
  BY <1>1, OtherBatch DEF TypeOK, Loss
<1> QED
  BY <1>2, <1>3, <1>4, <1>5 DEF Loss

\* A failed send leaves the claims to be released ...
LEMMA FlushFailsLoss ==
  ASSUME TypeOK, Base, Loss, NEW s \in Streams, FlushFails(s)
  PROVE  Loss'
<1> USE DEF FlushFails, Goto, work, windows
<1>1. SeenKept /\ delivered \subseteq delivered'
  BY SeenUnchanged
<1>2. CoolOK' /\ WonOK'
  BY DEF TypeOK, Loss, CoolOK, WonOK
<1>3. DoneOK'
  BY <1>1, DoneStep DEF Loss
<1>4. BatchOK(s)'
  BY DEF BatchOK, TypeOK
<1>5. \A t \in Streams \ {s} : BatchOK(t)'
  BY <1>1, OtherBatch DEF TypeOK, Loss
<1> QED
  BY <1>2, <1>3, <1>4, <1>5 DEF Loss

\* ... and then no key is left that stands for an undelivered detection.
LEMMA ReleaseLoss ==
  ASSUME TypeOK, Base, Loss, NEW s \in Streams, Release(s)
  PROVE  Loss'
<1> USE DEF Release, Restart, Goto, windows
<1>1. SeenKept
  BY SeenUnchanged
<1>2. CoolOK'
  <2> SUFFICES ASSUME NEW k \in CooldownKeys, cool'[k] # NotSet
               PROVE  /\ CooldownKey(cool'[k]) = k
                      /\ Det(cool'[k]) \in delivered' \/ cool'[k] \in won'[cool'[k].ref[1]]
    BY DEF CoolOK
  <2>1. cool'[k] = cool[k] /\ ~ \E d \in won[s] : CooldownKey(d) = k
    OBVIOUS
  <2>2. CooldownKey(cool[k]) = k /\ (Det(cool[k]) \in delivered \/ cool[k] \in won[cool[k].ref[1]])
    BY <2>1 DEF Loss, CoolOK
  <2> QED
    BY <2>1, <2>2 DEF TypeOK
<1>3. WonOK'
  BY DEF TypeOK, Loss, WonOK
<1>4. DoneOK'
  BY <1>1, DoneStep DEF Loss
<1>5. BatchOK(s)'
  BY DEF BatchOK, TypeOK
<1>6. \A t \in Streams \ {s} : BatchOK(t)'
  BY <1>1, OtherBatch DEF TypeOK, Loss
<1> QED
  BY <1>2, <1>3, <1>4, <1>5, <1>6 DEF Loss

\* Only a batch behind the gate is committed.
LEMMA CommitLoss ==
  ASSUME TypeOK, Base, Loss, NEW s \in Streams, Commit(s)
  PROVE  Loss'
<1> USE DEF Commit, Goto, windows
<1>1. SeenKept
  BY SeenUnchanged
<1>2. CoolOK' /\ WonOK'
  BY DEF TypeOK, Loss, CoolOK, WonOK
<1>3. DoneOK'
  <2> SUFFICES ASSUME NEW r \in Refs, IsTx(r), Committed(r)' PROVE Safe(r, delivered)'
    BY DEF DoneOK
  <2>1. Safe(r, delivered)
    <3>1. CASE Committed(r)
      BY <3>1 DEF Loss, DoneOK
    <3>2. CASE ~Committed(r)
      <4>1. r[1] \in Streams /\ r[2] \in Nat
        BY RefType, LogAssumption
      <4>2. r[1] = s /\ committed[s] < r[2] /\ r[2] <= upto[s]
        BY <3>2, <4>1 DEF Committed, TypeOK
      <4>3. r \in Batch(s)
        BY <4>2 DEF Batch, Upto
      <4> QED
        BY <4>3 DEF Loss, BatchOK
    <3> QED
      BY <3>1, <3>2
  <2>2. Cleared(r) => Cleared(r)'
    BY <1>1, ClearedStable
  <2> QED
    BY <2>1, <2>2 DEF Safe
<1>4. BatchOK(s)'
  BY DEF BatchOK, TypeOK
<1>5. \A t \in Streams \ {s} : BatchOK(t)'
  BY <1>1, OtherBatch DEF TypeOK, Loss
<1> QED
  BY <1>2, <1>3, <1>4, <1>5 DEF Loss

\* Every step of a consumer process keeps the invariant, ...
LEMMA WorkLoss ==
  ASSUME TypeOK, Base, Loss, NEW s \in Streams, Work(s)
  PROVE  Loss'
  BY PollLoss, ExistsLoss, EnforceLoss, CheckTxLoss, CheckAuthLoss, ClaimLoss, EmitLoss, FlushOkLoss,
     ReleaseLoss, CommitLoss DEF Work

\* ... and so does a failure, other than a crash or a failing Redis.
LEMMA BreakLoss ==
  ASSUME NoLoss, TypeOK, Base, Loss, NEW s \in Streams, Break(s)
  PROVE  Loss'
<1>1. ~RedisFails(s) /\ ~Crash(s)
  BY DEF NoLoss, RedisFails, Crash, Fault
<1> QED
  BY <1>1, FlushFailsLoss DEF Break

\* What the invariant depends on, besides the replay and cooldown keys.
lossVars == <<committed, upto, phase, work, outbox, delivered, cover>>

\* A cooldown may expire at any time.
LEMMA FrameLoss ==
  ASSUME TypeOK, Loss, UNCHANGED lossVars, SeenKept,
         \A k \in CooldownKeys : cool'[k] \in {cool[k], NotSet}
  PROVE  Loss'
<1> USE DEF lossVars, work
<1>1. CoolOK' /\ WonOK'
  BY DEF Loss, CoolOK, WonOK
<1>2. DoneOK'
  BY DoneStep DEF Loss
<1>3. \A t \in Streams : BatchOK(t)'
  BY OtherBatch DEF Loss
<1> QED
  BY <1>1, <1>2, <1>3 DEF Loss

\* Every step of the engine keeps it.
LEMMA NextLoss == NoLoss /\ IInv /\ Loss /\ [Next]_vars => Loss'
<1> SUFFICES ASSUME NoLoss, IInv, Loss, [Next]_vars PROVE Loss'
  OBVIOUS
<1> USE DEF IInv
<1>1. ASSUME NEW s \in Streams, Work(s) \/ Break(s) PROVE Loss'
  BY <1>1, WorkLoss, BreakLoss
<1>2. ASSUME NEW k \in CooldownKeys, Expire(k) PROVE Loss'
  BY <1>2, FrameLoss, SeenUnchanged DEF Expire, lossVars, windows, TypeOK
<1>3. ASSUME NEW x \in Subjects, ChangeRule(x) PROVE Loss'
  BY <1>3, FrameLoss, SeenUnchanged DEF ChangeRule, lossVars, windows
<1>4. CASE UNCHANGED vars
  BY <1>4, FrameLoss, SeenUnchanged DEF vars, lossVars, work
<1> QED
  BY <1>1, <1>2, <1>3, <1>4 DEF Next

\* A replay that was found is not cleared, so once committed it is accounted for.
LEMMA LossReplay ==
  ASSUME TypeOK, Base, Loss
  PROVE  ReplayNeverLost
<1> SUFFICES ASSUME NEW d \in found, d.type = "replay_attack", Committed(d.ref)
             PROVE  Accounted(d)
  BY DEF ReplayNeverLost
<1>1. d \in Ids /\ d.ref \in Refs /\ IsTx(d.ref) /\ d = Rep(d.ref)
  BY IdType, ReplayIsTx, RepType DEF TypeOK
<1>2. Safe(d.ref, delivered) /\ ~Cleared(d.ref)
  BY <1>1 DEF Loss, DoneOK, Base, FlaggedOK
<1> QED
  BY <1>1, <1>2 DEF Safe, Accounted

\* A committed transaction is reported or cleared.
LEMMA ReportedOrCleared ==
  ASSUME Loss, NEW r \in Refs, IsTx(r), Committed(r)
  PROVE  Reported(r) \/ Cleared(r)
<1>1. Safe(r, delivered) /\ Rep(r).ref = r
  BY RepType DEF Loss, DoneOK
<1> QED
  BY <1>1 DEF Safe, Reported, Accounted, Rep

\* A replay key clears one record.
LEMMA LossResend ==
  ASSUME NoCalls, Loss
  PROVE  ResendReported
<1> SUFFICES ASSUME NEW q \in Refs, NEW r \in Refs, Resent(q, r), Committed(q), Committed(r)
             PROVE  Reported(q) \/ Reported(r)
  BY DEF ResendReported
<1>1. seen[Ev(q).hash] \notin DecisionRefs /\ Ev(q).hash \in Hashes
  BY EvType DEF NoCalls
<1>2. Ev(q).id \in EventIds /\ Ev(r).id \in EventIds
  BY EvType
<1> QED
  BY <1>1, <1>2, ReportedOrCleared DEF Resent, Cleared, DecisionRefs

\* The inductive invariant.
LossInv == IInv /\ Loss

\* The invariant holds throughout.
LEMMA LossInvHolds ==
  ASSUME NoLoss
  PROVE  Spec => []LossInv
<1>1. Init => LossInv
  BY InitIInv, InitLoss DEF LossInv
<1>2. LossInv /\ [Next]_vars => LossInv'
  BY NextIInv, NextLoss DEF LossInv
<1> QED
  BY <1>1, <1>2, PTL DEF Spec

\* However often deliveries fail and batches are retried, and whichever cooldowns expire
\* and rules change meanwhile, a replay that was found is delivered, yields to one that is,
\* or is refused, before its offset is committed (handle_batch in consumer.py).  Crashes and
\* Redis failures are excluded: they do lose detections (README, finding 1).
THEOREM ReplaySafe ==
  ASSUME Faults \cap {"crash", "redis"} = {}
  PROVE  Spec => []ReplayNeverLost
<1>1. LossInv => ReplayNeverLost
  BY LossReplay DEF LossInv, IInv
<1>2. Spec => []LossInv
  BY LossInvHolds DEF NoLoss
<1> QED
  BY <1>1, <1>2, PTL

\* Under the same faults, of two committed deliveries of one request one was reported.
THEOREM ResendSafe ==
  ASSUME Faults \cap {"crash", "redis"} = {}
  PROVE  Spec => []ResendReported
<1>1. LossInv => ResendReported
  BY LossResend DEF LossInv, IInv
<1>2. Spec => []LossInv
  BY LossInvHolds DEF NoLoss
<1> QED
  BY <1>1, <1>2, PTL
==============================================================================
