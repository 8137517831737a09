----------------------------- MODULE MCContainment -----------------------------
(* Small instances of Containment for TLC. *)
EXTENDS Containment, TLC

CONSTANTS d1, d2, u1, i1

Sym == Permutations(Workers)

Det(t, ip, s) == [type |-> t, user |-> u1, ip |-> ip, scope |-> s]

\* Two geo anomalies of one user: the second to take effect escalates.
GeoInfo == d1 :> Det("geo_velocity_anomaly", i1, "user") @@
           d2 :> Det("geo_velocity_anomaly", i1, "user")

\* A geo anomaly and an ip-scope credential stuffing of the same user.
MixedInfo == d1 :> Det("geo_velocity_anomaly", NoIp, "user") @@
             d2 :> Det("credential_stuffing", i1, "ip")
=============================================================================
