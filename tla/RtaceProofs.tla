------------------------------ MODULE RtaceProofs ------------------------------
(***************************************************************************)
(* The results of DecisionServiceProofs hold in the whole system: to the   *)
(* traffic, containment is a source of rule changes.                       *)
(***************************************************************************)
EXTENDS Rtace, DecisionServiceProofs

\* Whatever the rule table holds, what is in force concerns users and addresses of the log.
LEMMA InForceType == \A table, t : InForce(table, t) \in SUBSET RuleSubjects
  BY DEF InForce, RuleSubjects, Subjects

\* Seen from the traffic, containment and the clock only change rules.
LEMMA RtaceIsStep == DInv /\ [RtaceNext]_rtaceVars => Step
<1> SUFFICES ASSUME DInv, [RtaceNext]_rtaceVars PROVE Step
  OBVIOUS
<1>1. rules \in SUBSET RuleSubjects /\ changes \in Nat
  BY DEF DInv, TypeOK
<1>2. CASE UNCHANGED rtaceVars
  <2>1. UNCHANGED <<vars, dvars>>
    BY <1>2 DEF rtaceVars, allVars
  <2> QED
    BY <1>1, <2>1 DEF vars, Step, RulesOnly, work, windows
<1>3. CASE UNCHANGED delivered /\ RulesChange
  BY <1>1, <1>3, InForceType DEF RulesChange, Step, RulesOnly
<1> QED
  BY <1>2, <1>3 DEF RtaceNext, Contain, Pass, Step

\* The invariant of DecisionServiceProofs holds throughout.
LEMMA RtaceInv == RtaceSpec => []DInv
<1>1. RtaceInit => DInv
  BY InitDInv DEF RtaceInit
<1>2. DInv /\ [RtaceNext]_rtaceVars => DInv'
  BY RtaceIsStep, StepDInv
<1> QED
  BY <1>1, <1>2, PTL DEF RtaceSpec

\* In the whole system, with containment refusing events of quarantined users under the engine's
\* feet, a transaction that the service scored as no replay is never reported as one.
THEOREM RtaceClearedSafe ==
  ASSUME Utc
  PROVE  RtaceSpec => []ClearedNeverFlagged
<1>1. RtaceInit => ClearedOK
  BY InitCleared DEF RtaceInit
<1>2. DInv /\ ClearedOK /\ [RtaceNext]_rtaceVars => ClearedOK'
  BY RtaceIsStep, StepCleared
<1>3. DInv /\ ClearedOK => ClearedNeverFlagged
  BY ClearedImplies
<1> QED
  BY <1>1, <1>2, <1>3, RtaceInv, PTL DEF RtaceSpec

\* Resends under a new event id are reported and replays that were found are not lost, whatever
\* rules containment sets and lets expire, as long as no process crashes and Redis answers.
THEOREM RtaceReplaysSafe ==
  ASSUME Faults \cap {"crash", "redis"} = {}
  PROVE  RtaceSpec => [](FreshResendReported /\ ReplayNeverLost)
<1>1. RtaceInit => Loss
  BY InitLoss DEF RtaceInit, DecisionInit
<1>2. DInv /\ Loss /\ [RtaceNext]_rtaceVars => Loss'
  BY RtaceIsStep, StepLoss DEF NoLoss
<1>3. DInv /\ Loss => FreshResendReported /\ ReplayNeverLost
  BY LossFresh, LossReplay DEF DInv
<1> QED
  BY <1>1, <1>2, <1>3, RtaceInv, PTL DEF RtaceSpec

\* Verdicts given for one event agree, although rules answer some of the calls about it.
THEOREM RtaceAnswersSafe ==
  ASSUME Faults \cap {"get", "timeout"} = {}
  PROVE  RtaceSpec => []AnswersAgree
<1>1. RtaceInit => Agreed
  BY InitAgreed DEF RtaceInit
<1>2. DInv /\ Agreed /\ [RtaceNext]_rtaceVars => Agreed'
  BY RtaceIsStep, StepAgreed
<1> QED
  BY <1>1, <1>2, AgreedImplies, RtaceInv, PTL DEF RtaceSpec
==============================================================================
