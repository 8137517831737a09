------------------------------ MODULE ConsumerLoop ------------------------------
(***************************************************************************)
(* The consumer loop shared by the detection and the containment engine    *)
(* (common/consumer_loop.py) over its Kafka clients                        *)
(* (common/kafka_client.py): poll a batch, run the handler, retry          *)
(* transient failures, dead-letter permanent ones, flush and verify the    *)
(* producer, commit.                                                       *)
(*                                                                         *)
(* The producer's I/O thread acknowledges or fails sends at any moment,    *)
(* also those of an attempt that was given up; a process may be told to    *)
(* shut down or die anywhere; the group may evict a slow process and hand  *)
(* its partitions to another one while it is still working on a batch.     *)
(*                                                                         *)
(* Record o of partition p has a kind that decides what handling it means; *)
(* the messages it leads to are named after it.                            *)
(***************************************************************************)
EXTENDS Naturals

CONSTANTS
  Partitions,
  Workers,
  NoOne,           \* owner of an unassigned partition
  LogLen,          \* records per partition: offsets 1 .. LogLen
  Kind,            \* the kind of each record
  MaxFaults        \* bound on the faults of one behaviour

Offsets == 1 .. LogLen
Kinds == {"good",       \* the handler produces a message for it
          "poison",     \* the handler fails on it permanently
          "badjson",    \* decode_json raises ValueError
          "tombstone"}  \* decode_json returns None

ASSUME LogAssumption ==
  /\ LogLen \in Nat /\ Kind \in [Partitions -> [Offsets -> Kinds]]
  /\ NoOne \notin Workers
  /\ MaxFaults \in Nat

\* Messages: the handler's output for a record, and its dead letter.
Out(p, o) == <<"out", p, o>>
Dlq(p, o) == <<"dlq", p, o>>
Messages == {Out(p, o) : p \in Partitions, o \in Offsets}
            \cup {Dlq(p, o) : p \in Partitions, o \in Offsets}

VARIABLES
  committed,  \* the group's committed offset of each partition
  owner,      \* the member each partition is assigned to
  from,       \* per worker and partition: records before the current batch
  upto,       \* per worker and partition: the consumer's position
  phase,      \* where each worker is in the loop
  inflight,   \* per worker: sends of this attempt not yet acknowledged
  stale,      \* per worker: unacknowledged sends of earlier attempts
  latch,      \* per worker: producer._rtace_last_error is set
  shutdown,   \* per worker: the shutdown event is set
  delivered,  \* messages the broker has
  faults      \* faults so far

kafka == <<committed, owner>>
fetch == <<from, upto>>
producer == <<inflight, stale, latch>>
vars == <<committed, owner, from, upto, phase, inflight, stale, latch, shutdown,
          delivered, faults>>

Phases == {"poll", "attempt", "flush", "backoff", "commit", "closing", "stopped",
           "down"}

TypeOK ==
  /\ committed \in [Partitions -> 0 .. LogLen]
  /\ owner \in [Partitions -> Workers \cup {NoOne}]
  /\ from \in [Workers -> [Partitions -> 0 .. LogLen]]
  /\ upto \in [Workers -> [Partitions -> 0 .. LogLen]]
  /\ phase \in [Workers -> Phases]
  /\ inflight \in [Workers -> SUBSET Messages]
  /\ stale \in [Workers -> SUBSET Messages]
  /\ latch \in [Workers -> BOOLEAN]
  /\ shutdown \in [Workers -> BOOLEAN]
  /\ delivered \in SUBSET Messages
  /\ faults \in Nat

Init ==
  /\ committed = [p \in Partitions |-> 0]
  /\ owner = [p \in Partitions |-> NoOne]
  /\ from = [w \in Workers |-> [p \in Partitions |-> 0]]
  /\ upto = [w \in Workers |-> [p \in Partitions |-> 0]]
  /\ phase = [w \in Workers |-> "poll"]
  /\ inflight = [w \in Workers |-> {}]
  /\ stale = [w \in Workers |-> {}]
  /\ latch = [w \in Workers |-> FALSE]
  /\ shutdown = [w \in Workers |-> FALSE]
  /\ delivered = {}
  /\ faults = 0

\* One more fault of worker w, if the bound allows it.  Once w was told to shut
\* down its attempts may keep failing forever.
Fault(w) ==
  IF shutdown[w] THEN UNCHANGED faults
  ELSE faults < MaxFaults /\ faults' = faults + 1

Goto(w, ph) == phase' = [phase EXCEPT ![w] = ph]

-----------------------------------------------------------------------------
(* What handling a batch means *)

\* The records of the batch w is working on, and those decode_json yields.
Batch(w) == {r \in Partitions \X Offsets : from[w][r[1]] < r[2] /\ r[2] <= upto[w][r[1]]}
OfKind(w, ks) == {r \in Batch(w) : Kind[r[1]][r[2]] \in ks}
Decoded(w) == OfKind(w, {"good", "poison"})

Outs(rs) == {Out(r[1], r[2]) : r \in rs}
Dlqs(rs) == {Dlq(r[1], r[2]) : r \in rs}

\* Partitions the batch has records of.
Touched(w) == {p \in Partitions : from[w][p] < upto[w][p]}

-----------------------------------------------------------------------------
(* The loop *)

\* consumer.poll returns records: some prefix of what each assigned partition
\* still holds.
Poll(w) ==
  /\ phase[w] = "poll" /\ ~shutdown[w]
  /\ \E to \in [Partitions -> 0 .. LogLen] :
       /\ \A p \in Partitions : upto[w][p] <= to[p]
       /\ \A p \in Partitions : owner[p] # w => to[p] = upto[w][p]
       /\ to # upto[w]
       /\ from' = [from EXCEPT ![w] = upto[w]]
       /\ upto' = [upto EXCEPT ![w] = to]
       /\ Goto(w, IF \E p \in Partitions, o \in Offsets :
                       /\ upto[w][p] < o /\ o <= to[p]
                       /\ Kind[p][o] # "tombstone"
                  THEN "attempt" ELSE "commit")
  /\ UNCHANGED <<kafka, producer, shutdown, delivered, faults>>

\* A poll that raises KafkaError or returns nothing: the loop goes round.
PollNothing(w) == phase[w] = "poll" /\ ~shutdown[w] /\ UNCHANGED vars

\* A fresh attempt: reset_send_errors, and what is still in flight is stale.
StartAttempt(w, sends) ==
  /\ phase[w] = "attempt"
  /\ latch' = [latch EXCEPT ![w] = FALSE]
  /\ stale' = [stale EXCEPT ![w] = @ \cup inflight[w]]
  /\ inflight' = [inflight EXCEPT ![w] = sends]

HandleOkNoDlq(w) ==
  /\ StartAttempt(w, Outs(OfKind(w, {"good"})))
  /\ Goto(w, "flush")
  /\ UNCHANGED <<kafka, fetch, shutdown, delivered, faults>>

\* The handler returns; its per-record failures are dead-lettered with the
\* undecodable records.
HandleOk(w) ==
  /\ StartAttempt(w, Outs(OfKind(w, {"good"})) \cup Dlqs(OfKind(w, {"poison", "badjson"})))
  /\ Goto(w, "flush")
  /\ UNCHANGED <<kafka, fetch, shutdown, delivered, faults>>

\* The handler raises a transient error after some of its sends.
HandleTransient(w) ==
  /\ Decoded(w) # {} /\ Fault(w)
  /\ \E sent \in SUBSET OfKind(w, {"good"}) : StartAttempt(w, Outs(sent))
  /\ Goto(w, "backoff")
  /\ UNCHANGED <<kafka, fetch, shutdown, delivered>>

\* The handler itself raises anything else: the whole decoded batch is
\* dead-lettered, although some of its outputs were sent.
HandleBug(w) ==
  /\ Decoded(w) # {} /\ Fault(w)
  /\ \E sent \in SUBSET OfKind(w, {"good"}) :
       StartAttempt(w, Outs(sent) \cup Dlqs(Decoded(w) \cup OfKind(w, {"badjson"})))
  /\ Goto(w, "flush")
  /\ UNCHANGED <<kafka, fetch, shutdown, delivered>>

BackoffRetryAnyway(w) ==
  /\ phase[w] = "backoff"
  /\ Goto(w, "attempt")
  /\ UNCHANGED <<kafka, fetch, producer, shutdown, delivered, faults>>

\* _backoff: the retry goes on, or is abandoned for a shutdown.
BackoffRetry(w) ==
  /\ phase[w] = "backoff" /\ ~shutdown[w]
  /\ Goto(w, "attempt")
  /\ UNCHANGED <<kafka, fetch, producer, shutdown, delivered, faults>>

BackoffAbandon(w) ==
  /\ phase[w] = "backoff" /\ shutdown[w]
  /\ Goto(w, "closing")
  /\ UNCHANGED <<kafka, fetch, producer, shutdown, delivered, faults>>

FlushUnverified(w) ==
  /\ phase[w] = "flush"
  /\ Goto(w, "commit")
  /\ UNCHANGED <<kafka, fetch, producer, shutdown, delivered, faults>>

\* flush_and_verify: flush() waits for every send, stale ones included; a
\* latched error is cleared and raised, and sends the batch to _backoff.
FlushAndVerify(w) ==
  /\ phase[w] = "flush"
  /\ inflight[w] = {} /\ stale[w] = {}
  /\ latch' = [latch EXCEPT ![w] = FALSE]
  /\ Goto(w, IF latch[w] THEN "backoff" ELSE "commit")
  /\ UNCHANGED <<kafka, fetch, inflight, stale, shutdown, delivered, faults>>

\* The batch is behind the consumer; the loop polls again, or stops.
EndBatch(w) ==
  /\ from' = [from EXCEPT ![w] = upto[w]]
  /\ Goto(w, "poll")

CommitUnfenced(w) ==
  /\ phase[w] = "commit"
  /\ committed' = [p \in Partitions |-> IF p \in Touched(w) THEN upto[w][p]
                                        ELSE committed[p]]
  /\ EndBatch(w)
  /\ UNCHANGED <<owner, upto, producer, shutdown, delivered, faults>>

CommitOneTooFar(w) ==
  /\ phase[w] = "commit"
  /\ \A p \in Touched(w) : owner[p] = w
  /\ committed' = [p \in Partitions |-> IF p \in Touched(w) THEN upto[w][p] + 1
                                        ELSE committed[p]]
  /\ EndBatch(w)
  /\ UNCHANGED <<owner, upto, producer, shutdown, delivered, faults>>

\* _commit.  The coordinator accepts it from the current owner only.
Commit(w) ==
  /\ phase[w] = "commit"
  /\ \A p \in Touched(w) : owner[p] = w
  /\ committed' = [p \in Partitions |-> IF p \in Touched(w) THEN upto[w][p]
                                        ELSE committed[p]]
  /\ EndBatch(w)
  /\ UNCHANGED <<owner, upto, producer, shutdown, delivered, faults>>

\* commit raises KafkaError: logged, and the loop carries on.
CommitFails(w) ==
  /\ phase[w] = "commit"
  /\ IF \A p \in Touched(w) : owner[p] = w THEN Fault(w) ELSE UNCHANGED faults
  /\ EndBatch(w)
  /\ UNCHANGED <<kafka, upto, producer, shutdown, delivered>>

\* while not shutdown.is_set()
LeaveLoop(w) ==
  /\ phase[w] = "poll" /\ shutdown[w]
  /\ Goto(w, "closing")
  /\ UNCHANGED <<kafka, fetch, producer, shutdown, delivered, faults>>

\* The process is gone: nothing it had in memory or in flight remains.
Gone(w) ==
  /\ from' = [from EXCEPT ![w] = [p \in Partitions |-> 0]]
  /\ upto' = [upto EXCEPT ![w] = [p \in Partitions |-> 0]]
  /\ inflight' = [inflight EXCEPT ![w] = {}]
  /\ stale' = [stale EXCEPT ![w] = {}]
  /\ latch' = [latch EXCEPT ![w] = FALSE]
  /\ shutdown' = [shutdown EXCEPT ![w] = FALSE]

\* finally: a last flush of at most 10 s, then both clients are closed, which
\* leaves the group.
Close(w) ==
  /\ phase[w] = "closing"
  /\ Goto(w, "stopped")
  /\ Gone(w)
  /\ owner' = [p \in Partitions |-> IF owner[p] = w THEN NoOne ELSE owner[p]]
  /\ UNCHANGED <<committed, delivered, faults>>

-----------------------------------------------------------------------------
(* The producer's I/O thread *)

Sending(w) == inflight[w] \cup stale[w]

\* The broker acknowledges a send; the idempotent producer's broker has it once.
Ack(w, m) ==
  /\ m \in Sending(w)
  /\ delivered' = delivered \cup {m}
  /\ \/ /\ m \in inflight[w]
        /\ inflight' = [inflight EXCEPT ![w] = @ \ {m}]
        /\ UNCHANGED stale
     \/ /\ m \in stale[w]
        /\ stale' = [stale EXCEPT ![w] = @ \ {m}]
        /\ UNCHANGED inflight
  /\ UNCHANGED <<kafka, fetch, phase, latch, shutdown, faults>>

\* The error callback latches the error.  The broker may have the message all
\* the same: only its answer was lost.
Nack(w, m) ==
  /\ m \in Sending(w) /\ Fault(w)
  /\ delivered' \in {delivered, delivered \cup {m}}
  /\ latch' = [latch EXCEPT ![w] = TRUE]
  /\ \/ /\ m \in inflight[w]
        /\ inflight' = [inflight EXCEPT ![w] = @ \ {m}]
        /\ UNCHANGED stale
     \/ /\ m \in stale[w]
        /\ stale' = [stale EXCEPT ![w] = @ \ {m}]
        /\ UNCHANGED inflight
  /\ UNCHANGED <<kafka, fetch, phase, shutdown>>

-----------------------------------------------------------------------------
(* Signals, crashes and the consumer group *)

Running(w) == phase[w] \notin {"stopped", "down"}

RequestShutdown(w) ==
  /\ Running(w) /\ ~shutdown[w] /\ Fault(w)
  /\ shutdown' = [shutdown EXCEPT ![w] = TRUE]
  /\ UNCHANGED <<kafka, fetch, phase, producer, delivered>>

Crash(w) ==
  /\ Running(w) /\ Fault(w)
  /\ Goto(w, "down")
  /\ Gone(w)
  /\ UNCHANGED <<kafka, delivered>>

\* The group drops a member that crashed, or that has not polled for too long.
Evict(w) ==
  /\ \E p \in Partitions : owner[p] = w
  /\ IF phase[w] = "down" THEN UNCHANGED faults ELSE Running(w) /\ Fault(w)
  /\ owner' = [p \in Partitions |-> IF owner[p] = w THEN NoOne ELSE owner[p]]
  /\ UNCHANGED <<committed, fetch, phase, producer, shutdown, delivered>>

\* A new process, once the group has dropped the old member.
Restart(w) ==
  /\ ~Running(w) /\ \A p \in Partitions : owner[p] # w
  /\ Goto(w, "poll")
  /\ UNCHANGED <<kafka, fetch, producer, shutdown, delivered, faults>>

\* A polling member is assigned a partition and starts at its committed offset.
Assign(w, p) ==
  /\ owner[p] = NoOne /\ phase[w] = "poll" /\ ~shutdown[w]
  /\ owner' = [owner EXCEPT ![p] = w]
  /\ from' = [from EXCEPT ![w][p] = committed[p]]
  /\ upto' = [upto EXCEPT ![w][p] = committed[p]]
  /\ UNCHANGED <<committed, phase, producer, shutdown, delivered, faults>>

-----------------------------------------------------------------------------

Handle(w) == HandleOk(w) \/ HandleTransient(w) \/ HandleBug(w)

\* The steps the worker's own thread takes.
Loop(w) ==
  \/ Poll(w) \/ PollNothing(w) \/ Handle(w) \/ BackoffRetry(w) \/ BackoffAbandon(w)
  \/ FlushAndVerify(w) \/ Commit(w) \/ CommitFails(w) \/ LeaveLoop(w) \/ Close(w)

Deliver(w) == \E m \in Messages : Ack(w, m) \/ Nack(w, m)

Next ==
  \/ \E w \in Workers :
       \/ Loop(w) \/ Deliver(w)
       \/ RequestShutdown(w) \/ Crash(w) \/ Evict(w) \/ Restart(w)
       \/ \E p \in Partitions : Assign(w, p)

Spec == Init /\ [][Next]_vars

\* Threads run, every send is answered (the producer's delivery timeout sees to
\* it), dead members are dropped, processes are restarted and partitions are
\* assigned.  Nothing is assumed of faults.
FairSpec ==
  /\ Spec
  /\ \A w \in Workers :
       /\ WF_vars(Loop(w)) /\ WF_vars(Deliver(w)) /\ WF_vars(Restart(w))
       /\ WF_vars(phase[w] = "down" /\ Evict(w))
  /\ WF_vars(\E w \in Workers, p \in Partitions : Assign(w, p))

-----------------------------------------------------------------------------
(* Properties *)

\* What the broker must hold before the offset of a record may be committed.
Settled(p, o) ==
  \/ Kind[p][o] = "tombstone"
  \/ Kind[p][o] = "good" /\ Out(p, o) \in delivered
  \/ Dlq(p, o) \in delivered

\* "An offset is committed only after every record up to it has been handled
\* (processed, or deliberately dead-lettered) AND every message that handling
\* produced has been acknowledged": no committed record is unaccounted for,
\* wherever a process crashed, was evicted or gave up a retry.
CommittedIsSettled ==
  \A p \in Partitions, o \in Offsets : o <= committed[p] => Settled(p, o)

\* A process that lost its partitions while it was working never moves the
\* committed offset backwards (_commit commits its own batch only).
CommittedNeverRegresses ==
  [][\A p \in Partitions : committed'[p] >= committed[p]]_vars

\* "one poison record cannot wedge a partition", and nothing else does: once
\* faults stop, every record of every partition is settled for good.  (Its
\* offset need not be committed: a failed commit is not repeated before the
\* next batch.)
EverythingSettled == <>[](\A p \in Partitions, o \in Offsets : Settled(p, o))

\* A requested shutdown completes even while every attempt keeps failing.
ShutdownCompletes ==
  \A w \in Workers : shutdown[w] ~> phase[w] \in {"stopped", "down"}
=============================================================================
