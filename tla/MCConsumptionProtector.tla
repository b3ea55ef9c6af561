----------------------- MODULE MCConsumptionProtector -----------------------
(* ConsumptionProtector on small topics.                                   *)
EXTENDS ConsumptionProtector, TLC

CONSTANTS p1, p2, w1, w2

(* One partition; its records all decode.                                  *)
OneLog       == p1 :> {0, 1}
OneLogEnd    == p1 :> 2
OneMalformed == p1 :> {}

(* Two partitions that share the queue, the workers and the protector.     *)
TwoLog       == p1 :> {0} @@ p2 :> {0}
TwoLogEnd    == p1 :> 1 @@ p2 :> 1
TwoMalformed == p1 :> {} @@ p2 :> {}
=============================================================================
