-------------------------------- MODULE Checks --------------------------------
(***************************************************************************)
(* The two Lua scripts that score an event inside Redis (lua/tx_check.lua  *)
(* and lua/auth_check.lua) and the detectors that interpret what they      *)
(* return (detection_engine/*_detector.py).  No state: each operator takes *)
(* the value of a key and yields a status, a count or the key's new value. *)
(*                                                                         *)
(* Event times are integers.  The haversine distance is a given table; a   *)
(* velocity is compared with its limit by cross-multiplication.  The TTLs  *)
(* of the replay, session and window keys are longer than a behaviour.     *)
(***************************************************************************)
EXTENDS Integers, FiniteSets

CONSTANTS
  NotSet,          \* value of a key that does not exist
  Dist,            \* Dist[a][b]: distance of two places
  MaxVelocity,     \* geo_max_velocity_kmh
  MinTime,         \* MIN_TIME_SECONDS
  BurstWindow, BurstThreshold,
  AuthWindow, UserThreshold, IpThreshold

\* record_ref of the synchronous decision service.
DecisionRef(id) == <<"decision", id>>

\* 1. Replay: SET NX of the delivery ref, then a look at who was first.
ReplayStatusAnyRef(stored, ref, id) ==
  IF stored = NotSet THEN "first" ELSE "replay"

ReplayStatusNoOffset(stored, ref, id) ==
  CASE stored = NotSet -> "first"
    [] stored # NotSet /\ stored[1] = ref[1] -> "redelivery"
    [] OTHER -> "replay"

ReplayStatusNoPrescored(stored, ref, id) ==
  CASE stored = NotSet -> "first"
    [] stored # NotSet /\ stored = ref -> "redelivery"
    [] OTHER -> "replay"

ReplayStatus(stored, ref, id) ==
  IF stored = NotSet THEN "first"
  ELSE IF stored = ref THEN "redelivery"
  ELSE IF stored = DecisionRef(id) THEN "prescored"
  ELSE "replay"

SetNx(stored, ref) == IF stored = NotSet THEN ref ELSE stored

\* 2. Windows, as sets of <<member, score>>: ZREMRANGEBYSCORE -inf cutoff, then
\* ZADD, which moves a member that is already there.
Slide(win, id, ts, width) ==
  {m \in win : m[1] # id /\ m[2] > ts - width} \cup {<<id, ts>>}

ZCard(win) == Cardinality(win)

\* 3. Geo velocity against the trusted baseline, a record [at, ts] or NotSet.
TooFast(s, e) ==
  LET elapsed == e.ts - s.ts IN
  Dist[s.at][e.at] > MaxVelocity * (IF elapsed < MinTime THEN MinTime ELSE elapsed)

GeoStatus(s, e) ==
  CASE s = NotSet -> "baseline"
    [] s # NotSet /\ e.ts < s.ts -> "out_of_order"
    [] s # NotSet /\ e.ts >= s.ts -> IF TooFast(s, e) THEN "anomaly" ELSE "ok"

\* Only clean transactions advance the baseline.
Baseline(s, e) ==
  IF GeoStatus(s, e) \in {"baseline", "ok"} THEN [at |-> e.at, ts |-> e.ts] ELSE s

-----------------------------------------------------------------------------
(* The detectors' interpretation: the types of the detections, and for      *)
(* credential stuffing their scopes.                                       *)

TxTypes == {"replay_attack", "geo_velocity_anomaly", "fraud_burst"}

InterpretReplay(status) == IF status = "replay" THEN {"replay_attack"} ELSE {}

InterpretGeo(status) == IF status = "anomaly" THEN {"geo_velocity_anomaly"} ELSE {}

InterpretBurst(count) == IF count > BurstThreshold THEN {"fraud_burst"} ELSE {}

InterpretAuth(cu, ci) ==
  (IF cu > UserThreshold THEN {"user"} ELSE {}) \cup (IF ci > IpThreshold THEN {"ip"} ELSE {})
=============================================================================
