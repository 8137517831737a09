--------------------------- MODULE ConsumerLoopProofs ---------------------------
(***************************************************************************)
(* Proofs about ConsumerLoop, for any number of workers and partitions,    *)
(* any log and any number of faults.                                       *)
(***************************************************************************)
EXTENDS ConsumerLoop, TLAPS

(***************************************************************************)
(* CommittedIsSettled is not inductive: a commit publishes what the worker *)
(* knows, so the invariant says what each phase of the loop knows.  While  *)
(* the producer is flushed (AwaitingAcks) every record is settled or its   *)
(* message is still among the sends of this attempt, unless an error is    *)
(* latched; sends of earlier attempts do not count.                        *)
(***************************************************************************)
Ordered == \A w \in Workers, p \in Partitions : from[w][p] <= upto[w][p]

SettledUpTo(p, n) == \A o \in Offsets : o <= n => Settled(p, o)

BeforeBatch == \A w \in Workers, p \in Partitions : SettledUpTo(p, from[w][p])

BatchDone ==
  \A w \in Workers : phase[w] \in {"poll", "commit", "stopped", "down"} =>
    \A p \in Partitions : SettledUpTo(p, upto[w][p])

Expected(w, p, o) ==
  \/ Kind[p][o] = "good" /\ Out(p, o) \in inflight[w]
  \/ Dlq(p, o) \in inflight[w]

AwaitingAcks ==
  \A w \in Workers : phase[w] = "flush" /\ ~latch[w] =>
    \A p \in Partitions, o \in Offsets :
      o <= upto[w][p] => Settled(p, o) \/ Expected(w, p, o)

OwnerAhead ==
  \A w \in Workers, p \in Partitions :
    owner[p] = w /\ phase[w] # "down" => committed[p] <= from[w][p]

IInv ==
  /\ TypeOK
  /\ Ordered
  /\ CommittedIsSettled
  /\ BeforeBatch
  /\ BatchDone
  /\ AwaitingAcks
  /\ OwnerAhead

-----------------------------------------------------------------------------

LEMMA InitInv == Init => IInv
<1> SUFFICES ASSUME Init PROVE IInv
  OBVIOUS
<1>1. 0 \in 0 .. LogLen
  BY LogAssumption
<1>2. TypeOK
  BY <1>1 DEF Init, TypeOK, Phases
<1>3. \A o \in Offsets : ~(o <= 0)
  BY LogAssumption DEF Offsets
<1>4. Ordered /\ OwnerAhead
  BY DEF Init, Ordered, OwnerAhead
<1>5. CommittedIsSettled /\ BeforeBatch /\ BatchDone /\ AwaitingAcks
  BY <1>3 DEF Init, CommittedIsSettled, BeforeBatch, BatchDone, AwaitingAcks, SettledUpTo
<1> QED
  BY <1>2, <1>4, <1>5 DEF IInv

\* What is settled stays settled.
LEMMA SettledStays ==
  ASSUME delivered \subseteq delivered', NEW p \in Partitions, NEW o \in Offsets, Settled(p, o)
  PROVE  Settled(p, o)'
BY DEF Settled

LEMMA NextType == IInv /\ [Next]_vars => TypeOK'
<1> SUFFICES ASSUME IInv, [Next]_vars PROVE TypeOK'
  OBVIOUS
<1> USE DEF IInv
<1>0. TypeOK
  OBVIOUS
<1>1. 0 \in 0 .. LogLen
  BY LogAssumption
<1>2. ASSUME NEW w \in Workers, Fault(w) PROVE faults' \in Nat
  BY <1>2, <1>0 DEF Fault, TypeOK
<1>3. ASSUME NEW rs \in SUBSET (Partitions \X Offsets)
      PROVE  Outs(rs) \subseteq Messages /\ Dlqs(rs) \subseteq Messages
  BY DEF Outs, Dlqs, Messages
<1>4. ASSUME NEW w \in Workers, NEW ks
      PROVE  OfKind(w, ks) \in SUBSET (Partitions \X Offsets)
  BY DEF OfKind, Batch
<1>5. ASSUME NEW w \in Workers, NEW ph \in Phases, Goto(w, ph)
      PROVE  phase' \in [Workers -> Phases]
  BY <1>0, <1>5 DEF Goto, TypeOK
<1>6. ASSUME NEW w \in Workers, NEW sends \in SUBSET Messages, StartAttempt(w, sends)
      PROVE  /\ latch' \in [Workers -> BOOLEAN] /\ stale' \in [Workers -> SUBSET Messages]
             /\ inflight' \in [Workers -> SUBSET Messages]
  BY <1>0, <1>6 DEF StartAttempt, TypeOK
<1>7. ASSUME NEW w \in Workers, Poll(w) PROVE TypeOK'
  <2>1. from' \in [Workers -> [Partitions -> 0 .. LogLen]]
    BY <1>0, <1>7 DEF Poll, TypeOK
  <2>2. upto' \in [Workers -> [Partitions -> 0 .. LogLen]]
    BY <1>0, <1>7 DEF Poll, TypeOK
  <2>3. phase' \in [Workers -> Phases]
    BY <1>0, <1>7 DEF Poll, TypeOK, Goto, Phases
  <2> QED
    BY <1>0, <1>7, <2>1, <2>2, <2>3 DEF Poll, TypeOK, kafka, producer
<1>8. ASSUME NEW w \in Workers, Handle(w) PROVE TypeOK'
  <2>1. /\ phase' \in [Workers -> Phases] /\ faults' \in Nat
        /\ UNCHANGED <<kafka, fetch, shutdown, delivered>>
    BY <1>0, <1>2, <1>5, <1>8 DEF Handle, HandleOk, HandleTransient, HandleBug, Phases, TypeOK
  <2>2. \E sends \in SUBSET Messages : StartAttempt(w, sends)
    <3>1. CASE HandleOk(w)
      BY <3>1, <1>3, <1>4 DEF HandleOk
    <3>2. CASE HandleTransient(w)
      <4>1. PICK sent \in SUBSET OfKind(w, {"good"}) : StartAttempt(w, Outs(sent))
        BY <3>2 DEF HandleTransient
      <4>2. Outs(sent) \subseteq Messages
        BY <1>3, <1>4
      <4> QED
        BY <4>1, <4>2
    <3>3. CASE HandleBug(w)
      <4>1. PICK sent \in SUBSET OfKind(w, {"good"}) :
              StartAttempt(w, Outs(sent) \cup Dlqs(Decoded(w) \cup OfKind(w, {"badjson"})))
        BY <3>3 DEF HandleBug
      <4>2. Outs(sent) \subseteq Messages
        BY <1>3, <1>4
      <4>3. Decoded(w) \cup OfKind(w, {"badjson"}) \in SUBSET (Partitions \X Offsets)
        BY <1>4 DEF Decoded
      <4>4. Dlqs(Decoded(w) \cup OfKind(w, {"badjson"})) \subseteq Messages
        BY <1>3, <4>3
      <4> QED
        BY <4>1, <4>2, <4>4
    <3> QED
      BY <1>8, <3>1, <3>2, <3>3 DEF Handle
  <2> QED
    BY <1>0, <1>6, <2>1, <2>2 DEF TypeOK, kafka, fetch
<1>9. ASSUME NEW w \in Workers, BackoffRetry(w) \/ BackoffAbandon(w) \/ LeaveLoop(w)
      PROVE  TypeOK'
  BY <1>0, <1>5, <1>9 DEF BackoffRetry, BackoffAbandon, LeaveLoop, TypeOK, kafka, fetch,
     producer, Phases
<1>10. ASSUME NEW w \in Workers, FlushAndVerify(w) PROVE TypeOK'
  BY <1>0, <1>10 DEF FlushAndVerify, TypeOK, Goto, kafka, fetch, Phases
<1>11. ASSUME NEW w \in Workers, Commit(w) PROVE TypeOK'
  BY <1>0, <1>11 DEF Commit, EndBatch, Goto, TypeOK, producer, Phases
<1>12. ASSUME NEW w \in Workers, CommitFails(w) PROVE TypeOK'
  BY <1>0, <1>2, <1>12 DEF CommitFails, EndBatch, Goto, TypeOK, kafka, producer, Phases
<1>13. ASSUME NEW w \in Workers, Gone(w)
       PROVE  /\ from' \in [Workers -> [Partitions -> 0 .. LogLen]]
              /\ upto' \in [Workers -> [Partitions -> 0 .. LogLen]]
              /\ inflight' \in [Workers -> SUBSET Messages]
              /\ stale' \in [Workers -> SUBSET Messages]
              /\ latch' \in [Workers -> BOOLEAN] /\ shutdown' \in [Workers -> BOOLEAN]
  BY <1>0, <1>1, <1>13 DEF Gone, TypeOK
<1>14. ASSUME NEW w \in Workers, Close(w) PROVE TypeOK'
  BY <1>0, <1>5, <1>13, <1>14 DEF Close, TypeOK, Phases
<1>15. ASSUME NEW w \in Workers, Crash(w) PROVE TypeOK'
  BY <1>0, <1>2, <1>5, <1>13, <1>15 DEF Crash, TypeOK, kafka, Phases
<1>16. ASSUME NEW w \in Workers, NEW m \in Messages, Ack(w, m) PROVE TypeOK'
  BY <1>0, <1>16 DEF Ack, TypeOK, kafka, fetch
<1>17. ASSUME NEW w \in Workers, NEW m \in Messages, Nack(w, m) PROVE TypeOK'
  BY <1>0, <1>2, <1>17 DEF Nack, TypeOK, kafka, fetch
<1>18. ASSUME NEW w \in Workers, RequestShutdown(w) \/ Evict(w) \/ Restart(w) PROVE TypeOK'
  BY <1>0, <1>2, <1>5, <1>18 DEF RequestShutdown, Evict, Restart, TypeOK, kafka, fetch,
     producer, Phases
<1>19. ASSUME NEW w \in Workers, NEW p \in Partitions, Assign(w, p) PROVE TypeOK'
  BY <1>0, <1>19 DEF Assign, TypeOK, producer
<1>20. ASSUME UNCHANGED vars PROVE TypeOK'
  BY <1>0, <1>20 DEF vars, TypeOK
<1> QED
  BY <1>7, <1>8, <1>9, <1>10, <1>11, <1>12, <1>14, <1>15, <1>16, <1>17, <1>18, <1>19,
     <1>20 DEF Next, Loop, Deliver, PollNothing

\* Steps that move no offset and no partition only have to say what the batches
\* of the workers know.
LEMMA SameOffsets ==
  ASSUME IInv, TypeOK', UNCHANGED <<committed, from, upto>>, delivered \subseteq delivered',
         \A w \in Workers, p \in Partitions : owner'[p] = w /\ phase'[w] # "down" =>
           owner[p] = w /\ phase[w] # "down",
         BatchDone', AwaitingAcks'
  PROVE  IInv'
<1>1. Ordered' /\ OwnerAhead'
  BY DEF IInv, Ordered, OwnerAhead
<1>2. CommittedIsSettled'
  BY SettledStays DEF IInv, CommittedIsSettled
<1>3. BeforeBatch'
  BY SettledStays DEF IInv, BeforeBatch, SettledUpTo
<1> QED
  BY <1>1, <1>2, <1>3 DEF IInv

\* Steps that leave the phases alone leave BatchDone alone.
LEMMA BatchDoneStays ==
  ASSUME IInv, UNCHANGED upto, delivered \subseteq delivered',
         \A w \in Workers : phase'[w] \in {"poll", "commit", "stopped", "down"} =>
           phase[w] \in {"poll", "commit", "stopped", "down"}
  PROVE  BatchDone'
BY SettledStays DEF IInv, BatchDone, SettledUpTo

\* Steps of other workers, and steps that leave what is in flight alone, leave
\* AwaitingAcks alone.
LEMMA AwaitingAcksStays ==
  ASSUME IInv, UNCHANGED upto, delivered \subseteq delivered',
         \A w \in Workers : phase'[w] = "flush" /\ ~latch'[w] =>
           /\ phase[w] = "flush" /\ ~latch[w]
           /\ \A m \in inflight[w] : m \in inflight'[w] \/ m \in delivered'
  PROVE  AwaitingAcks'
<1> SUFFICES ASSUME NEW w \in Workers, phase'[w] = "flush", ~latch'[w],
                    NEW p \in Partitions, NEW o \in Offsets, o <= upto[w][p]
             PROVE  Settled(p, o)' \/ Expected(w, p, o)'
  BY DEF AwaitingAcks
<1>1. Settled(p, o) \/ Expected(w, p, o)
  BY DEF IInv, AwaitingAcks
<1>2. CASE Settled(p, o)
  BY <1>2, SettledStays
<1>3. CASE Expected(w, p, o)
  BY <1>3 DEF Expected, Settled
<1> QED
  BY <1>1, <1>2, <1>3

\* A completed attempt has a message in flight for every record that needs one.
LEMMA AttemptSendsAll ==
  ASSUME IInv, TypeOK', NEW w \in Workers, HandleOk(w) \/ HandleBug(w),
         NEW p \in Partitions, NEW o \in Offsets, o <= upto[w][p]
  PROVE  Settled(p, o) \/ Expected(w, p, o)'
<1>1. CASE o <= from[w][p]
  BY <1>1 DEF IInv, BeforeBatch, SettledUpTo
<1>2. CASE ~(o <= from[w][p])
  <2>1. from[w][p] < o
    BY <1>2, LogAssumption DEF IInv, TypeOK, Offsets
  <2>2. <<p, o>> \in Batch(w)
    BY <2>1 DEF Batch
  <2>3. Kind[p][o] \in Kinds
    BY LogAssumption
  <2>4. CASE Kind[p][o] = "tombstone"
    BY <2>4 DEF Settled
  <2>5. CASE Kind[p][o] # "tombstone" /\ HandleOk(w)
    <3>1. inflight'[w] = Outs(OfKind(w, {"good"})) \cup Dlqs(OfKind(w, {"poison", "badjson"}))
      BY <2>5 DEF HandleOk, StartAttempt, IInv, TypeOK
    <3>2. CASE Kind[p][o] = "good"
      <4>1. <<p, o>> \in OfKind(w, {"good"})
        BY <2>2, <3>2 DEF OfKind
      <4>2. Out(p, o) \in Outs(OfKind(w, {"good"}))
        BY <4>1 DEF Outs
      <4> QED
        BY <3>1, <3>2, <4>2 DEF Expected
    <3>3. CASE Kind[p][o] \in {"poison", "badjson"}
      <4>1. <<p, o>> \in OfKind(w, {"poison", "badjson"})
        BY <2>2, <3>3 DEF OfKind
      <4>2. Dlq(p, o) \in Dlqs(OfKind(w, {"poison", "badjson"}))
        BY <4>1 DEF Dlqs
      <4> QED
        BY <3>1, <4>2 DEF Expected
    <3> QED
      BY <2>3, <2>5, <3>2, <3>3 DEF Kinds
  <2>6. CASE Kind[p][o] # "tombstone" /\ HandleBug(w)
    <3>1. <<p, o>> \in Decoded(w) \cup OfKind(w, {"badjson"})
      BY <2>2, <2>3, <2>6 DEF Decoded, OfKind, Kinds
    <3>2. Dlq(p, o) \in Dlqs(Decoded(w) \cup OfKind(w, {"badjson"}))
      BY <3>1 DEF Dlqs
    <3>3. Dlq(p, o) \in inflight'[w]
      BY <2>6, <3>2 DEF HandleBug, StartAttempt, IInv, TypeOK
    <3> QED
      BY <3>3 DEF Expected
  <2> QED
    BY <2>4, <2>5, <2>6
<1> QED
  BY <1>1, <1>2

\* The end of a batch: what was handled is behind the worker.
LEMMA EndBatchStep ==
  ASSUME IInv, TypeOK', NEW w \in Workers, phase[w] = "commit", EndBatch(w),
         UNCHANGED <<owner, upto, inflight, latch, delivered>>,
         \A p \in Partitions : \/ committed'[p] = committed[p]
                               \/ owner[p] = w /\ committed'[p] = upto[w][p]
  PROVE  IInv'
<1>1. /\ \A p \in Partitions : from'[w][p] = upto[w][p]
      /\ \A v \in Workers \ {w} : from'[v] = from[v] /\ phase'[v] = phase[v]
      /\ phase'[w] = "poll"
  BY DEF EndBatch, Goto, IInv, TypeOK
<1>2. \A p \in Partitions : SettledUpTo(p, upto[w][p])
  BY DEF IInv, BatchDone
<1>3. \A p \in Partitions : from[w][p] <= upto[w][p]
  BY DEF IInv, Ordered
<1>4. \A n : \A p \in Partitions : SettledUpTo(p, n)' = SettledUpTo(p, n)
  BY DEF SettledUpTo, Settled
<1>5. Ordered'
  <2> SUFFICES ASSUME NEW v \in Workers, NEW p \in Partitions PROVE from'[v][p] <= upto[v][p]
    BY DEF Ordered
  <2>1. upto[v][p] \in Nat
    BY DEF IInv, TypeOK
  <2> QED
    BY <1>1, <2>1 DEF IInv, Ordered
<1>6. CommittedIsSettled'
  <2> SUFFICES ASSUME NEW p \in Partitions, NEW o \in Offsets, o <= committed'[p]
               PROVE  Settled(p, o)
    BY DEF CommittedIsSettled, Settled
  <2> QED
    BY <1>2 DEF IInv, CommittedIsSettled, SettledUpTo
<1>7. BeforeBatch'
  <2> SUFFICES ASSUME NEW v \in Workers, NEW p \in Partitions
               PROVE  SettledUpTo(p, from'[v][p])
    BY DEF BeforeBatch, SettledUpTo, Settled
  <2>1. CASE v = w
    BY <1>1, <1>2, <2>1
  <2>2. CASE v # w
    BY <1>1, <2>2 DEF IInv, BeforeBatch
  <2> QED
    BY <2>1, <2>2
<1>8. BatchDone'
  BY <1>1, BatchDoneStays
<1>9. AwaitingAcks'
  BY <1>1, AwaitingAcksStays
<1>10. OwnerAhead'
  <2> SUFFICES ASSUME NEW v \in Workers, NEW p \in Partitions, owner[p] = v, phase'[v] # "down"
               PROVE  committed'[p] <= from'[v][p]
    BY DEF OwnerAhead
  <2>1. committed[p] \in Nat /\ upto[w][p] \in Nat /\ from[w][p] \in Nat
    BY DEF IInv, TypeOK
  <2>2. CASE v = w
    <3>1. committed[p] <= from[w][p]
      BY <2>2 DEF IInv, OwnerAhead
    <3> QED
      BY <1>1, <1>3, <2>1, <2>2, <3>1
  <2>3. CASE v # w
    BY <1>1, <2>3 DEF IInv, OwnerAhead
  <2> QED
    BY <2>2, <2>3
<1> QED
  BY <1>5, <1>6, <1>7, <1>8, <1>9, <1>10 DEF IInv

\* A process disappears, and with it its batch and its sends.
LEMMA GoneStep ==
  ASSUME IInv, TypeOK', NEW w \in Workers, Gone(w), UNCHANGED <<committed, delivered>>,
         NEW ph \in {"stopped", "down"}, Goto(w, ph),
         \A p \in Partitions : owner'[p] = owner[p] \/ owner'[p] = NoOne,
         ph = "stopped" => \A p \in Partitions : owner'[p] # w
  PROVE  IInv'
<1>1. /\ \A p \in Partitions : from'[w][p] = 0 /\ upto'[w][p] = 0
      /\ phase'[w] = ph
      /\ \A v \in Workers \ {w} :
           /\ from'[v] = from[v] /\ upto'[v] = upto[v] /\ phase'[v] = phase[v]
           /\ inflight'[v] = inflight[v] /\ latch'[v] = latch[v]
  BY DEF Gone, Goto, IInv, TypeOK
<1>2. \A o \in Offsets : ~(o <= 0)
  BY LogAssumption DEF Offsets
<1>3. Ordered'
  <2> SUFFICES ASSUME NEW v \in Workers, NEW p \in Partitions PROVE from'[v][p] <= upto'[v][p]
    BY DEF Ordered
  <2> QED
    BY <1>1 DEF IInv, Ordered
<1>4. CommittedIsSettled'
  BY DEF IInv, CommittedIsSettled, Settled
<1>5. BeforeBatch'
  <2> SUFFICES ASSUME NEW v \in Workers, NEW p \in Partitions, NEW o \in Offsets,
                      o <= from'[v][p]
               PROVE  Settled(p, o)
    BY DEF BeforeBatch, SettledUpTo, Settled
  <2> QED
    BY <1>1, <1>2 DEF IInv, BeforeBatch, SettledUpTo
<1>6. BatchDone'
  <2> SUFFICES ASSUME NEW v \in Workers, phase'[v] \in {"poll", "commit", "stopped", "down"},
                      NEW p \in Partitions, NEW o \in Offsets, o <= upto'[v][p]
               PROVE  Settled(p, o)
    BY DEF BatchDone, SettledUpTo, Settled
  <2> QED
    BY <1>1, <1>2 DEF IInv, BatchDone, SettledUpTo
<1>7. AwaitingAcks'
  <2> SUFFICES ASSUME NEW v \in Workers, phase'[v] = "flush", ~latch'[v],
                      NEW p \in Partitions, NEW o \in Offsets, o <= upto'[v][p]
               PROVE  Settled(p, o) \/ Expected(v, p, o)'
    BY DEF AwaitingAcks, Settled
  <2>1. v # w
    BY <1>1
  <2> QED
    BY <1>1, <2>1 DEF IInv, AwaitingAcks, Expected
<1>8. OwnerAhead'
  <2> SUFFICES ASSUME NEW v \in Workers, NEW p \in Partitions, owner'[p] = v, phase'[v] # "down"
               PROVE  committed[p] <= from'[v][p]
    BY DEF OwnerAhead
  <2>1. v # w /\ owner[p] = v
    BY <1>1, LogAssumption
  <2> QED
    BY <1>1, <2>1 DEF IInv, OwnerAhead
<1> QED
  BY <1>3, <1>4, <1>5, <1>6, <1>7, <1>8 DEF IInv

LEMMA NextInv == IInv /\ [Next]_vars => IInv'
<1> SUFFICES ASSUME IInv, [Next]_vars PROVE IInv'
  OBVIOUS
<1>0. TypeOK /\ TypeOK'
  BY NextType DEF IInv
<1>1. ASSUME NEW w \in Workers, Poll(w) PROVE IInv'
  <2>1. PICK to \in [Partitions -> 0 .. LogLen] :
          /\ \A p \in Partitions : upto[w][p] <= to[p]
          /\ \A p \in Partitions : owner[p] # w => to[p] = upto[w][p]
          /\ from' = [from EXCEPT ![w] = upto[w]]
          /\ upto' = [upto EXCEPT ![w] = to]
          /\ Goto(w, IF \E p \in Partitions, o \in Offsets :
                          /\ upto[w][p] < o /\ o <= to[p]
                          /\ Kind[p][o] # "tombstone"
                     THEN "attempt" ELSE "commit")
    BY <1>1 DEF Poll
  <2>2. /\ from'[w] = upto[w] /\ upto'[w] = to
        /\ \A v \in Workers \ {w} : /\ from'[v] = from[v] /\ upto'[v] = upto[v]
                                    /\ phase'[v] = phase[v]
        /\ phase'[w] \in {"attempt", "commit"}
        /\ UNCHANGED <<committed, owner, inflight, latch, delivered>>
    BY <1>0, <1>1, <2>1 DEF Poll, Goto, TypeOK, kafka, producer
  <2>3. \A p \in Partitions : SettledUpTo(p, upto[w][p])
    BY <1>1 DEF Poll, IInv, BatchDone
  <2>4. Ordered'
    BY <2>1, <2>2 DEF IInv, Ordered
  <2>5. CommittedIsSettled'
    BY <2>2 DEF IInv, CommittedIsSettled, Settled
  <2>6. BeforeBatch'
    <3> SUFFICES ASSUME NEW v \in Workers, NEW p \in Partitions
                 PROVE  SettledUpTo(p, from'[v][p])
      BY <2>2 DEF BeforeBatch, SettledUpTo, Settled
    <3> QED
      BY <2>2, <2>3 DEF IInv, BeforeBatch
  <2>7. BatchDone'
    <3> SUFFICES ASSUME NEW v \in Workers, phase'[v] \in {"poll", "commit", "stopped", "down"},
                        NEW p \in Partitions, NEW o \in Offsets, o <= upto'[v][p]
                 PROVE  Settled(p, o)
      BY <2>2 DEF BatchDone, SettledUpTo, Settled
    <3>1. CASE v # w
      BY <2>2, <3>1 DEF IInv, BatchDone, SettledUpTo
    <3>2. CASE v = w
      <4>1. CASE o <= upto[w][p]
        BY <2>3, <4>1 DEF SettledUpTo
      <4>2. CASE ~(o <= upto[w][p])
        <5>1. upto[w][p] < o /\ o <= to[p]
          BY <1>0, <2>2, <3>2, <4>2, LogAssumption DEF TypeOK, Offsets
        <5>2. phase'[w] = "commit"
          BY <2>2, <3>2
        <5>3. Kind[p][o] = "tombstone"
          BY <1>0, <2>1, <5>1, <5>2 DEF Goto, TypeOK
        <5> QED
          BY <5>3 DEF Settled
      <4> QED
        BY <4>1, <4>2
    <3> QED
      BY <3>1, <3>2
  <2>8. AwaitingAcks'
    <3> SUFFICES ASSUME NEW v \in Workers, phase'[v] = "flush", ~latch'[v],
                        NEW p \in Partitions, NEW o \in Offsets, o <= upto'[v][p]
                 PROVE  Settled(p, o) \/ Expected(v, p, o)
      BY <2>2 DEF AwaitingAcks, Settled, Expected
    <3> QED
      BY <2>2 DEF IInv, AwaitingAcks
  <2>9. OwnerAhead'
    <3> SUFFICES ASSUME NEW v \in Workers, NEW p \in Partitions, owner[p] = v,
                        phase'[v] # "down"
                 PROVE  committed[p] <= from'[v][p]
      BY <2>2 DEF OwnerAhead
    <3>1. committed[p] <= from[v][p]
      BY <1>1, <2>2 DEF IInv, OwnerAhead, Poll
    <3>2. from[v][p] <= upto[v][p]
      BY DEF IInv, Ordered
    <3>3. committed[p] \in Nat /\ from[v][p] \in Nat /\ upto[v][p] \in Nat
      BY <1>0 DEF TypeOK
    <3>4. from'[v][p] \in {from[v][p], upto[v][p]}
      BY <2>2
    <3> QED
      BY <3>1, <3>2, <3>3, <3>4
  <2> QED
    BY <1>0, <2>4, <2>5, <2>6, <2>7, <2>8, <2>9 DEF IInv
<1>2. ASSUME NEW w \in Workers, Handle(w) PROVE IInv'
  <2>1. /\ UNCHANGED <<committed, owner, from, upto, delivered>>
        /\ phase[w] = "attempt" /\ phase'[w] \in {"flush", "backoff"}
        /\ \A v \in Workers \ {w} : /\ phase'[v] = phase[v] /\ latch'[v] = latch[v]
                                    /\ inflight'[v] = inflight[v]
    BY <1>0, <1>2 DEF Handle, HandleOk, HandleTransient, HandleBug, StartAttempt, Goto,
       kafka, fetch, TypeOK
  <2>2. BatchDone'
    BY <2>1, BatchDoneStays
  <2>3. AwaitingAcks'
    <3> SUFFICES ASSUME NEW v \in Workers, phase'[v] = "flush", ~latch'[v],
                        NEW p \in Partitions, NEW o \in Offsets, o <= upto[v][p]
                 PROVE  Settled(p, o) \/ Expected(v, p, o)'
      BY <2>1 DEF AwaitingAcks, Settled
    <3>1. CASE v = w
      <4>1. HandleOk(w) \/ HandleBug(w)
        BY <1>0, <1>2, <3>1 DEF Handle, HandleTransient, Goto, TypeOK
      <4> QED
        BY <1>0, <3>1, <4>1, AttemptSendsAll
    <3>2. CASE v # w
      BY <2>1, <3>2 DEF IInv, AwaitingAcks, Expected
    <3> QED
      BY <3>1, <3>2
  <2> QED
    BY <1>0, <2>1, <2>2, <2>3, SameOffsets
<1>3. ASSUME NEW w \in Workers, BackoffRetry(w) \/ BackoffAbandon(w) \/ LeaveLoop(w)
      PROVE  IInv'
  <2>1. /\ UNCHANGED <<committed, owner, from, upto, delivered, inflight, latch>>
        /\ phase[w] # "down" /\ phase'[w] \in {"attempt", "closing"}
        /\ \A v \in Workers \ {w} : phase'[v] = phase[v]
    BY <1>0, <1>3 DEF BackoffRetry, BackoffAbandon, LeaveLoop, Goto, kafka, fetch, producer,
       TypeOK
  <2>2. BatchDone' /\ AwaitingAcks'
    BY <2>1, BatchDoneStays, AwaitingAcksStays
  <2> QED
    BY <1>0, <2>1, <2>2, SameOffsets
<1>4. ASSUME NEW w \in Workers, FlushAndVerify(w) PROVE IInv'
  <2>1. /\ UNCHANGED <<committed, owner, from, upto, delivered, inflight>>
        /\ phase[w] = "flush" /\ inflight[w] = {}
        /\ phase'[w] = (IF latch[w] THEN "backoff" ELSE "commit")
        /\ \A v \in Workers \ {w} : phase'[v] = phase[v] /\ latch'[v] = latch[v]
    BY <1>0, <1>4 DEF FlushAndVerify, Goto, kafka, fetch, TypeOK
  <2>2. BatchDone'
    <3> SUFFICES ASSUME NEW v \in Workers, phase'[v] \in {"poll", "commit", "stopped", "down"},
                        NEW p \in Partitions, NEW o \in Offsets, o <= upto[v][p]
                 PROVE  Settled(p, o)
      BY <2>1 DEF BatchDone, SettledUpTo, Settled
    <3>1. CASE v = w
      <4>1. ~latch[w]
        BY <2>1, <3>1
      <4>2. Settled(p, o) \/ Expected(w, p, o)
        BY <2>1, <3>1, <4>1 DEF IInv, AwaitingAcks
      <4> QED
        BY <2>1, <4>2 DEF Expected
    <3>2. CASE v # w
      BY <2>1, <3>2 DEF IInv, BatchDone, SettledUpTo
    <3> QED
      BY <3>1, <3>2
  <2>3. AwaitingAcks'
    BY <2>1, AwaitingAcksStays
  <2> QED
    BY <1>0, <2>1, <2>2, <2>3, SameOffsets
<1>5. ASSUME NEW w \in Workers, Commit(w) PROVE IInv'
  BY <1>0, <1>5, EndBatchStep DEF Commit, producer, Touched
<1>6. ASSUME NEW w \in Workers, CommitFails(w) PROVE IInv'
  BY <1>0, <1>6, EndBatchStep DEF CommitFails, producer, kafka
<1>7. ASSUME NEW w \in Workers, Close(w) PROVE IInv'
  BY <1>0, <1>7, GoneStep, LogAssumption DEF Close
<1>8. ASSUME NEW w \in Workers, Crash(w) PROVE IInv'
  BY <1>0, <1>8, GoneStep DEF Crash, kafka
<1>9. ASSUME NEW w \in Workers, NEW m \in Messages, Ack(w, m) \/ Nack(w, m) PROVE IInv'
  <2>1. /\ UNCHANGED <<committed, owner, from, upto, phase>> /\ delivered \subseteq delivered'
        /\ \A v \in Workers \ {w} : inflight'[v] = inflight[v] /\ latch'[v] = latch[v]
    BY <1>0, <1>9 DEF Ack, Nack, kafka, fetch, TypeOK
  <2>2. ~latch'[w] => /\ ~latch[w]
                      /\ \A n \in inflight[w] : n \in inflight'[w] \/ n \in delivered'
    BY <1>0, <1>9 DEF Ack, Nack, TypeOK
  <2>3. BatchDone'
    BY <2>1, BatchDoneStays
  <2>4. AwaitingAcks'
    <3>1. \A v \in Workers : phase'[v] = "flush" /\ ~latch'[v] =>
            /\ phase[v] = "flush" /\ ~latch[v]
            /\ \A n \in inflight[v] : n \in inflight'[v] \/ n \in delivered'
      BY <2>1, <2>2
    <3> QED
      BY <2>1, <3>1, AwaitingAcksStays
  <2> QED
    BY <1>0, <2>1, <2>3, <2>4, SameOffsets
<1>10. ASSUME NEW w \in Workers, RequestShutdown(w) PROVE IInv'
  <2>1. UNCHANGED <<committed, owner, from, upto, phase, inflight, latch, delivered>>
    BY <1>10 DEF RequestShutdown, kafka, fetch, producer
  <2>2. BatchDone' /\ AwaitingAcks'
    BY <2>1, BatchDoneStays, AwaitingAcksStays
  <2> QED
    BY <1>0, <2>1, <2>2, SameOffsets
<1>11. ASSUME NEW w \in Workers, Evict(w) PROVE IInv'
  <2>1. /\ UNCHANGED <<committed, from, upto, phase, inflight, latch, delivered>>
        /\ \A p \in Partitions : owner'[p] = owner[p] \/ owner'[p] = NoOne
    BY <1>11 DEF Evict, fetch, producer
  <2>2. BatchDone' /\ AwaitingAcks'
    BY <2>1, BatchDoneStays, AwaitingAcksStays
  <2> QED
    BY <1>0, <2>1, <2>2, LogAssumption, SameOffsets
<1>12. ASSUME NEW w \in Workers, Restart(w) PROVE IInv'
  <2>1. /\ UNCHANGED <<committed, owner, from, upto, inflight, latch, delivered>>
        /\ phase'[w] = "poll" /\ ~Running(w)
        /\ \A v \in Workers \ {w} : phase'[v] = phase[v]
        /\ \A p \in Partitions : owner[p] # w
    BY <1>0, <1>12 DEF Restart, Goto, kafka, fetch, producer, TypeOK
  <2>4. BatchDone'
    BY <2>1, BatchDoneStays DEF Running
  <2>5. AwaitingAcks'
    BY <2>1, AwaitingAcksStays
  <2> QED
    BY <1>0, <2>1, <2>4, <2>5, SameOffsets
<1>13. ASSUME NEW w \in Workers, NEW p \in Partitions, Assign(w, p) PROVE IInv'
  <2>1. /\ UNCHANGED <<committed, phase, inflight, latch, delivered>>
        /\ phase[w] = "poll"
        /\ from'[w][p] = committed[p] /\ upto'[w][p] = committed[p]
        /\ \A v \in Workers, q \in Partitions : <<v, q>> # <<w, p>> =>
             from'[v][q] = from[v][q] /\ upto'[v][q] = upto[v][q]
        /\ owner'[p] = w /\ \A q \in Partitions \ {p} : owner'[q] = owner[q]
    BY <1>0, <1>13 DEF Assign, producer, TypeOK
  <2>2. committed[p] \in Nat
    BY <1>0 DEF TypeOK
  <2>3. SettledUpTo(p, committed[p])
    BY DEF IInv, CommittedIsSettled, SettledUpTo
  <2>4. Ordered'
    <3> SUFFICES ASSUME NEW v \in Workers, NEW q \in Partitions PROVE from'[v][q] <= upto'[v][q]
      BY DEF Ordered
    <3> QED
      BY <2>1, <2>2 DEF IInv, Ordered
  <2>5. CommittedIsSettled'
    BY <2>1 DEF IInv, CommittedIsSettled, Settled
  <2>6. BeforeBatch'
    <3> SUFFICES ASSUME NEW v \in Workers, NEW q \in Partitions
                 PROVE  SettledUpTo(q, from'[v][q])
      BY <2>1 DEF BeforeBatch, SettledUpTo, Settled
    <3> QED
      BY <2>1, <2>3 DEF IInv, BeforeBatch
  <2>7. BatchDone'
    <3> SUFFICES ASSUME NEW v \in Workers, NEW q \in Partitions,
                        phase[v] \in {"poll", "commit", "stopped", "down"}
                 PROVE  SettledUpTo(q, upto'[v][q])
      BY <2>1 DEF BatchDone, SettledUpTo, Settled
    <3> QED
      BY <2>1, <2>3 DEF IInv, BatchDone
  <2>8. AwaitingAcks'
    <3> SUFFICES ASSUME NEW v \in Workers, phase[v] = "flush", ~latch[v],
                        NEW q \in Partitions, NEW o \in Offsets, o <= upto'[v][q]
                 PROVE  Settled(q, o) \/ Expected(v, q, o)
      BY <2>1 DEF AwaitingAcks, Settled, Expected
    <3>1. upto'[v][q] = upto[v][q]
      BY <2>1
    <3> QED
      BY <3>1 DEF IInv, AwaitingAcks
  <2>9. OwnerAhead'
    <3> SUFFICES ASSUME NEW v \in Workers, NEW q \in Partitions, owner'[q] = v,
                        phase[v] # "down"
                 PROVE  committed[q] <= from'[v][q]
      BY <2>1 DEF OwnerAhead
    <3>1. CASE q = p
      BY <2>1, <2>2, <3>1
    <3>2. CASE q # p
      BY <2>1, <3>2 DEF IInv, OwnerAhead
    <3> QED
      BY <3>1, <3>2
  <2> QED
    BY <1>0, <2>4, <2>5, <2>6, <2>7, <2>8, <2>9 DEF IInv
<1>14. ASSUME UNCHANGED vars PROVE IInv'
  BY <1>0, <1>14 DEF vars, IInv, Ordered, CommittedIsSettled, BeforeBatch, BatchDone,
     AwaitingAcks, OwnerAhead, SettledUpTo, Settled, Expected
<1> QED
  BY <1>1, <1>2, <1>3, <1>4, <1>5, <1>6, <1>7, <1>8, <1>9, <1>10, <1>11, <1>12, <1>13,
     <1>14 DEF Next, Loop, Deliver, PollNothing

-----------------------------------------------------------------------------
(* The theorems *)

\* The inductive invariant holds in every reachable state.
THEOREM InvariantHolds == Spec => []IInv
<1>1. Init => IInv
  BY InitInv
<1>2. IInv /\ [Next]_vars => IInv'
  BY NextInv
<1> QED
  BY <1>1, <1>2, PTL DEF Spec

\* Type correctness of the loop.
THEOREM TypeCorrect == Spec => []TypeOK
<1>1. IInv => TypeOK
  BY DEF IInv
<1> QED
  BY <1>1, InvariantHolds, PTL

\* End-to-end at-least-once: no committed record is unaccounted for.
THEOREM AtLeastOnce == Spec => []CommittedIsSettled
<1>1. IInv => CommittedIsSettled
  BY DEF IInv
<1> QED
  BY <1>1, InvariantHolds, PTL

\* The committed offsets of the group never move backwards, although evicted
\* workers go on handling, and try to commit, their batches.
THEOREM CommitMonotone == Spec => CommittedNeverRegresses
<1>1. IInv /\ [Next]_vars => [\A p \in Partitions : committed'[p] >= committed[p]]_vars
  <2> SUFFICES ASSUME IInv, Next, NEW p \in Partitions PROVE committed'[p] >= committed[p]
    OBVIOUS
  <2>1. committed[p] \in Nat
    BY DEF IInv, TypeOK
  <2>2. CASE \E w \in Workers : Commit(w)
    <3>1. PICK w \in Workers : Commit(w)
      BY <2>2
    <3>2. CASE p \in Touched(w)
      <4>1. committed'[p] = upto[w][p] /\ committed[p] <= from[w][p] /\ from[w][p] < upto[w][p]
        BY <3>1, <3>2 DEF Commit, Touched, IInv, OwnerAhead
      <4>2. from[w][p] \in Nat /\ upto[w][p] \in Nat
        BY DEF IInv, TypeOK
      <4> QED
        BY <2>1, <4>1, <4>2
    <3>3. CASE p \notin Touched(w)
      BY <2>1, <3>1, <3>3 DEF Commit
    <3> QED
      BY <3>2, <3>3
  <2>3. CASE ~\E w \in Workers : Commit(w)
    <3>1. committed' = committed
      BY <2>3, ZenonT(60) DEF Next, Loop, Deliver, Poll, PollNothing, Handle, HandleOk,
         HandleTransient, HandleBug, BackoffRetry, BackoffAbandon, FlushAndVerify, CommitFails,
         LeaveLoop, Close, Ack, Nack, RequestShutdown, Crash, Evict, Restart, Assign, kafka, vars
    <3> QED
      BY <2>1, <3>1
  <2> QED
    BY <2>2, <2>3
<1> QED
  BY <1>1, InvariantHolds, PTL DEF Spec, CommittedNeverRegresses
=============================================================================
