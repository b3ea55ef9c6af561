-------------------------- MODULE MCKafkaConsumer --------------------------
(***************************************************************************)
(* Instances of KafkaConsumer for TLC.                                     *)
(***************************************************************************)
EXTENDS KafkaConsumerProps, TLC

CONSTANTS p1, p2, w1, w2

(* One partition whose offset 2 is missing, as after log compaction or for *)
(* a transaction marker, and whose record 1 is malformed.                  *)
GapLog       == p1 :> {0, 1, 3}
GapLogEnd    == p1 :> 4
GapMalformed == p1 :> {1}

(* One partition without gaps; record 1 is malformed.                      *)
PlainLog       == p1 :> {0, 1, 2}
PlainLogEnd    == p1 :> 3
PlainMalformed == p1 :> {1}

WorkerSymmetry == Permutations(Worker)
=============================================================================
