---------------------------- MODULE MCConsumerLoop ----------------------------
(* Small instances of ConsumerLoop for TLC. *)
EXTENDS ConsumerLoop, TLC

CONSTANTS p1, p2

Sym == Permutations(Workers)

\* Two partitions, polled together or apart, with records of every kind.
TwoLogs == p1 :> <<"good", "tombstone">> @@ p2 :> <<"badjson", "poison">>

\* One partition, for liveness.
OneLog == p1 :> <<"poison", "good">>
=============================================================================
