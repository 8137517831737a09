--------------------------------- MODULE Rtace ---------------------------------
(***************************************************************************)
(* The whole engine: authoriser, decision service and detection engine     *)
(* (DecisionService), the detections topic, and the containment engine     *)
(* whose rules feed back into the other two.                               *)
(*                                                                         *)
(* Containment is its abstract specification, ContainmentOnce: Containment *)
(* implements it (theorem Refinement of ContainmentProofs).  Here a        *)
(* detection is published when the broker has it, and the audit log and    *)
(* manual overrides are left out.                                          *)
(***************************************************************************)
EXTENDS DecisionService

CONSTANTS
  Api, QuarantineTTL, StepUpTTL, IpBlockTTL, ManualTTLs,
  MaxTime          \* bound on the clock

ASSUME TimeAssumption == MaxTime \in Nat

VARIABLES
  now,        \* the clock of the Redis server
  rule,       \* the enforcement keys
  done        \* the actions each detection has taken

onceVars == <<now, rule, done>>
rtaceVars == <<allVars, onceVars>>

\* What containment reads of a detection.
DetectionInfo ==
  [d \in Ids |-> [type |-> d.type, user |-> Ev(d.ref).user,
                  ip |-> IF d.scope = "" THEN NoIp ELSE Ev(d.ref).ip,
                  scope |-> IF d.scope = "ip" THEN "ip" ELSE "user"]]

Once == INSTANCE ContainmentOnce WITH
  Detections <- Ids,
  Info <- DetectionInfo,
  published <- {d \in Ids : Det(d) \in delivered},
  audit <- {}

\* The subjects with a live rule, as the detection engine and the decision
\* service look them up.
InForce(table, t) ==
  {<<"user", u>> : u \in {v \in Users : Once!Live(table, Once!QuarantineKey(v), t)}}
  \cup {<<"ip", i>> : i \in {j \in Ips : Once!Live(table, Once!IpBlockKey(j), t)}}
  \cup {<<"step_up", u>> : u \in {v \in Users : Once!Live(table, Once!StepUpKey(v), t)}}

RtaceInit == DecisionInit /\ Once!Init

RulesChange ==
  /\ rules' = InForce(rule', now')
  /\ UNCHANGED <<committed, upto, phase, work, outbox, windows, result, cool, found, cover,
                 barred, expired, faults, changes, dvars>>

\* The containment engine handles a detection; time passes.
Contain(d) == UNCHANGED delivered /\ Once!Apply(d) /\ RulesChange
Pass == now < MaxTime /\ UNCHANGED delivered /\ Once!Tick /\ RulesChange

RtaceNext ==
  \/ Traffic /\ UNCHANGED onceVars
  \/ \E d \in Ids : Contain(d)
  \/ Pass

RtaceSpec == RtaceInit /\ [][RtaceNext]_rtaceVars

\* Both engines and the service keep running, and the authoriser publishes what
\* it asked about.  Nothing is assumed of faults, key expiry and time.
RtaceFairSpec ==
  /\ RtaceSpec
  /\ \A s \in Streams :
       /\ WF_rtaceVars(UNCHANGED onceVars /\ EngineWork(s))
       /\ WF_rtaceVars(UNCHANGED onceVars /\ Publish(s))
  /\ WF_rtaceVars(UNCHANGED onceVars /\ \E r \in Refs : Decide(r))
  /\ WF_rtaceVars(\E d \in Ids : Contain(d))

-----------------------------------------------------------------------------
(* Properties *)

\* Record r led to containment: its user's rule refused it, or a detection about
\* it, or the one that stood for it in the cooldown, took one of the actions as.
Contained(r, as) ==
  \/ Refused(r) \in delivered
  \/ \E d \in Ids : d.ref = r /\ done[cover[d]] \cap as # {}

\* "Replay and burst deny, geo challenges, mirroring the async containment
\* policy": in the end, every transaction the service scored with DENY has had
\* its user quarantined, and every one it scored with CHALLENGE at least a
\* step-up, although the engine does not score them again, sends fail and
\* batches are retried.
Effected(a) ==
  CASE a.verdict = "DENY" -> Contained(a.ref, {"quarantine"})
    [] a.verdict = "CHALLENGE" -> Contained(a.ref, {"quarantine", "step_up_auth"})
    [] a.verdict = "ALLOW" -> TRUE
VerdictsEnforced == <>[](\A a \in answers : a.scored => Effected(a))

\* "Nothing is lost by suppressing: the subject is already quarantined /
\* blocked": a detection suppressed by the cooldown yields to one that, once
\* handled, quarantines the user or blocks the address.
SuppressedIsContained ==
  \A d \in Ids : cover[d] # d /\ done[cover[d]] # {} =>
    done[cover[d]] \cap {"quarantine", "ip_block"} # {}
=============================================================================
