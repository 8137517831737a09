------------------------------ MODULE Enforcement ------------------------------
(***************************************************************************)
(* The enforcement rules that live in Redis (common/enforcement.py) and    *)
(* the containment policy that maps a detection to rules (_plan in         *)
(* containment_engine/containment_actions.py).  No state: the modules that *)
(* keep the rules extend this one.                                         *)
(*                                                                         *)
(* A Redis key with a TTL is a pair of its value and the instant at which  *)
(* it expires; it is live while that instant lies in the future.           *)
(***************************************************************************)
EXTENDS Naturals

CONSTANTS
  Detections,      \* detection ids (stable across redelivery)
  Users, Ips,
  NoIp,            \* ip_address of a detection that carries none
  Api,             \* value of a rule set by hand ("api:<reason>")
  NotSet,          \* value of a key that was never written
  Info,            \* [type, user, ip, scope] of each detection
  QuarantineTTL, StepUpTTL, IpBlockTTL,
  ManualTTLs       \* ttl_seconds values an operator may ask for

Types == {"replay_attack", "fraud_burst", "credential_stuffing",
          "geo_velocity_anomaly", "other"}
Scopes == {"user", "ip"}
HardQuarantineTypes == {"replay_attack", "fraud_burst"}
Actions == {"quarantine", "step_up_auth", "ip_block"}
ApiActions == {"manual_quarantine", "lift_quarantine", "clear_step_up",
               "manual_ip_block", "lift_ip_block"}

ASSUME InfoAssumption ==
  Info \in [Detections -> [type: Types, user: Users, ip: Ips \cup {NoIp},
                           scope: Scopes]]
ASSUME ValuesAssumption ==
  /\ NoIp \notin Ips
  /\ Api \notin Detections
  /\ NotSet \notin Detections \cup {Api}
  /\ NotSet \notin Nat
ASSUME TTLAssumption ==
  /\ QuarantineTTL \in Nat \ {0} /\ StepUpTTL \in Nat \ {0}
  /\ IpBlockTTL \in Nat \ {0} /\ ManualTTLs \subseteq Nat \ {0}

QuarantineKey(u) == <<"quarantine", u>>
StepUpKey(u) == <<"step_up", u>>
IpBlockKey(i) == <<"ip_block", i>>
RuleKeys == {QuarantineKey(u) : u \in Users} \cup {StepUpKey(u) : u \in Users}
            \cup {IpBlockKey(i) : i \in Ips}

Rule == [by: Detections \cup {Api, NotSet}, exp: Nat]
NoRule == [by |-> NotSet, exp |-> 0]

\* Does key k of the rule table r exist at instant t?
Live(r, k, t) == r[k].exp > t

\* The table after SETEX k ttl by, for every key of ks, at instant t.
SetEx(r, ks, ttl, by, t) ==
  [k \in RuleKeys |-> IF k \in ks THEN [by |-> by, exp |-> t + ttl[k]] ELSE r[k]]

\* The table after DEL k.
Del(r, k) == [r EXCEPT ![k] = NoRule]

-----------------------------------------------------------------------------
(* The policy: _plan *)

\* The TTL the configuration gives each kind of rule.
RuleTTL ==
  [k \in RuleKeys |-> CASE k[1] = "quarantine" -> QuarantineTTL
                        [] k[1] = "step_up" -> StepUpTTL
                        [] k[1] = "ip_block" -> IpBlockTTL]

PlanActionsMisnamed(d, pending) ==
  IF Info[d].type = "geo_velocity_anomaly" THEN {"step_up"} ELSE {"quarantine"}

\* The actions for detection d; pending: a step-up of its user is pending.
PlanActions(d, pending) ==
  LET i == Info[d] IN
  CASE i.type \in HardQuarantineTypes -> {"quarantine"}
    [] i.type = "credential_stuffing" ->
         {"quarantine"} \cup
         (IF i.scope = "ip" /\ i.ip # NoIp THEN {"ip_block"} ELSE {})
    [] i.type = "geo_velocity_anomaly" ->
         {"step_up_auth"} \cup (IF pending THEN {"quarantine"} ELSE {})
    [] OTHER -> {}

\* The keys the actions as of detection d write.
WriteKeys(d, as) ==
  {k \in RuleKeys :
     \/ "quarantine" \in as /\ k = QuarantineKey(Info[d].user)
     \/ "step_up_auth" \in as /\ k = StepUpKey(Info[d].user)
     \/ "ip_block" \in as /\ k = IpBlockKey(Info[d].ip)}
=============================================================================
