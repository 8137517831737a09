-------------------------------- MODULE MCLogs --------------------------------
(* The events of the small instances of DetectionEngine, DecisionService and  *)
(* Rtace.  Timestamps are in UTC, as the simulator's are.                      *)
EXTENDS Integers, TLC

CONSTANTS s1, s2, u1, u2, i1, e1, e2, e3, e4, sf, lon, none

Tx(id, hash, at, ts) ==
  [kind |-> "tx", id |-> id, user |-> u1, ip |-> none, hash |-> hash, goHash |-> hash,
   at |-> at, ts |-> ts, success |-> FALSE]
Auth(id, user, ts, ok) ==
  [kind |-> "auth", id |-> id, user |-> user, ip |-> i1, hash |-> id, goHash |-> id,
   at |-> none, ts |-> ts, success |-> ok]

Distances == [a \in {sf, lon, none} |-> [b \in {sf, lon, none} |-> IF a = b THEN 0 ELSE 9]]

\* A transaction, and its replay under a new and under the same event id.
ReplayLog == s1 :> <<Tx(e1, e1, sf, 1), Tx(e2, e1, sf, 1), Tx(e1, e1, sf, 1)>>

\* Failed logins against two users from one address, on two streams.
StuffingLog == s1 :> <<Auth(e1, u1, 1, FALSE), Auth(e2, u1, 2, FALSE)>> @@
               s2 :> <<Auth(e3, u2, 1, TRUE), Auth(e4, u2, 2, FALSE)>>

\* One replay under a new event id; the same and a jump.
ShortLog == s1 :> <<Tx(e1, e1, sf, 1), Tx(e2, e1, sf, 1)>>
ResendLog == s1 :> <<Tx(e1, e1, sf, 1), Tx(e2, e1, sf, 1), Tx(e3, e3, lon, 2)>>

\* What the simulator's replay scenario sends: the transaction again, verbatim.
VerbatimLog == s1 :> <<Tx(e1, e1, sf, 1), Tx(e1, e1, sf, 1)>>

\* A purchase at home, one far away, and one at home or far away again.
GeoLog == s1 :> <<Tx(e1, e1, sf, 1), Tx(e2, e2, lon, 2), Tx(e3, e3, sf, 3)>>
TravelLog == s1 :> <<Tx(e1, e1, sf, 1), Tx(e2, e2, lon, 2), Tx(e3, e3, lon, 3)>>
=============================================================================
