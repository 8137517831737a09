---------------------------- MODULE ContainmentOnce ----------------------------
(***************************************************************************)
(* What the containment engine promises: every detection takes effect at   *)
(* most once and in one step, with the escalation of a repeated geo        *)
(* anomaly decided against the rules of that very instant; everything that *)
(* is ever audited about a detection is what that one step did.  Receipts, *)
(* WATCH, retries, redelivery and failures do not appear here.             *)
(***************************************************************************)
EXTENDS Enforcement

VARIABLES
  now,        \* the clock
  published,  \* detections published so far
  rule,       \* the enforcement rules
  done,       \* the actions each detection has taken, none before its step
  audit       \* the audit log

onceVars == <<now, published, rule, done, audit>>

Init ==
  /\ now = 0
  /\ published = {}
  /\ rule = [k \in RuleKeys |-> NoRule]
  /\ done = [d \in Detections |-> {}]
  /\ audit = {}

Publish(d) ==
  /\ published' = published \cup {d}
  /\ UNCHANGED <<now, rule, done, audit>>

\* The one step in which d takes effect.
Apply(d) ==
  LET as == PlanActions(d, Live(rule, StepUpKey(Info[d].user), now)) IN
  /\ d \in published /\ done[d] = {} /\ as # {}
  /\ done' = [done EXCEPT ![d] = as]
  /\ rule' = SetEx(rule, WriteKeys(d, as), RuleTTL, d, now)
  /\ UNCHANGED <<now, published, audit>>

\* The record of what was done; a detection of unknown type does nothing.
Audit(d) ==
  /\ d \in published
  /\ \/ done[d] # {} /\ audit' = audit \cup {[det |-> d, acts |-> done[d]]}
     \/ Info[d].type = "other" /\ audit' = audit \cup {[det |-> d, acts |-> {}]}
  /\ UNCHANGED <<now, published, rule, done>>

\* An operator sets or removes one rule; a step-up can only be removed.
Override ==
  /\ \E k \in RuleKeys :
       \/ rule' = Del(rule, k)
       \/ /\ k[1] # "step_up"
          /\ \E ttl \in ManualTTLs \cup {RuleTTL[k]} :
               rule' = [rule EXCEPT ![k] = [by |-> Api, exp |-> now + ttl]]
  /\ \E a \in ApiActions :
       audit' \in {audit, audit \cup {[det |-> Api, acts |-> {a}]}}
  /\ UNCHANGED <<now, published, done>>

Tick == now' = now + 1 /\ UNCHANGED <<published, rule, done, audit>>

Next ==
  \/ \E d \in Detections : Publish(d) \/ Apply(d) \/ Audit(d)
  \/ Override
  \/ Tick

Spec == Init /\ [][Next]_onceVars
=============================================================================
