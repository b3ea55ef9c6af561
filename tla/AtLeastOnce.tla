---------------------------- MODULE AtLeastOnce ----------------------------
(***************************************************************************)
(* What the Kafka provider promises: at-least-once consumption.  A record  *)
(* is settled when its handler has succeeded or it is in the dead-letter   *)
(* topic; a partition's frontier, the offset a restarted consumer resumes  *)
(* from, moves forward only and only over settled records.  How often a    *)
(* record is delivered, by whom and in which order, is left open.          *)
(***************************************************************************)
EXTENDS Integers

CONSTANTS Partition, Log

VARIABLES settled,   \* records processed or isolated
          frontier   \* per partition, the offset consumption resumes from

vars == <<settled, frontier>>

Init ==
  /\ settled = {}
  /\ frontier = [p \in Partition |-> 0]

(* One record is processed or isolated.                                    *)
Settle(p, o) ==
  /\ o \in Log[p]
  /\ settled' = settled \cup {<<p, o>>}
  /\ UNCHANGED frontier

(* Move one frontier forward; every record below it is settled.            *)
Acknowledge(p) ==
  /\ frontier' = [frontier EXCEPT ![p] = frontier'[p]]
  /\ frontier'[p] > frontier[p]
  /\ \A o \in Log[p] : o < frontier'[p] => <<p, o>> \in settled
  /\ UNCHANGED settled

Next ==
  \/ \E p \in Partition : \E o \in Log[p] : Settle(p, o)
  \/ \E p \in Partition : Acknowledge(p)

Spec == Init /\ [][Next]_vars
=============================================================================
