------------------------- MODULE KafkaConsumerProps -------------------------
(***************************************************************************)
(* What must hold of KafkaConsumer, and one thing a comment of it says     *)
(* that does not.                                                          *)
(***************************************************************************)
EXTENDS KafkaConsumer

(* Every variable has its type: the shapes the Go declarations give.       *)
TypeOK ==
  /\ generation \in Generation
  /\ phase \in {"none", "live", "cancelled"}
  /\ claim \in [Partition -> {"off", "receive", "register", "submit", "return"}]
  /\ fetch \in [Partition -> Nat]
  /\ inbound \in [Partition -> Nat]
  /\ marked \in [Partition -> Nat]
  /\ committed \in [Partition -> Nat]
  /\ committer \in [Partition -> Committer(Offset, Generation)]
  /\ queue \in Seq(Task) /\ Len(queue) <= QueueSize
  /\ closed \in BOOLEAN
  /\ pc \in [Worker -> {"idle", "attempt", "running", "isolate", "send",
                        "complete", "stopped"}]
  /\ task \in [Worker -> Task \cup {NoTask}]
  /\ \A w \in Worker : IF pc[w] \in {"idle", "stopped"} THEN task[w] = NoTask
                                                        ELSE task[w] \in Task
  /\ attempt \in [Worker -> 0 .. MaxAttempts]
  /\ inFlight \in Int /\ waiting \in Int
  /\ handled \subseteq Record /\ deadLettered \subseteq Record

-----------------------------------------------------------------------------
(* Safety.                                                                 *)

(* An offset is acknowledged only over settled records: whatever the       *)
(* completion order, retries, rebalances and crashes, every record below   *)
(* a partition's session mark or committed offset has been handled or is   *)
(* in the dead-letter topic, so a restart skips nothing.                   *)
OnlySettledAcknowledged ==
  \A p \in Partition : \A o \in Log[p] :
    o < marked[p] \/ o < committed[p] => <<p, o>> \in Settled

(* The committer's bookkeeping agrees with itself and with the outcomes:   *)
(* doneCount counts the done offsets that wait, a done offset is settled   *)
(* and waits behind an undone nextOffset, and no committer is left         *)
(* initialized with nothing pending (Complete resets it once drained).     *)
CommitterCoherent ==
  \A p \in Partition :
    LET c    == committer[p]
        done == {o \in DOMAIN c.states : c.states[o].done}
    IN  /\ c.doneCount = Cardinality(done)
        /\ \A o \in done : o > c.nextOffset /\ <<p, o>> \in Settled
        /\ \A o \in DOMAIN c.states : o >= c.nextOffset
        /\ c.initialized <=> DOMAIN c.states # {}

(* A committer holds offsets only while the claim that registered them is  *)
(* open, and all of that claim's generation: the comment of Register       *)
(* wants late workers never to advance a newly assigned session.           *)
CommitterOwnedByClaim ==
  \A p \in Partition :
    committer[p].initialized =>
      /\ claim[p] # "off"
      /\ committer[p].generationID = generation
      /\ \A o \in DOMAIN committer[p].states :
           committer[p].states[o].generationID = generation

(* Where the delivery of record r in session g can be.                     *)
QueueCarriers(r, g) ==
  {i \in DOMAIN queue : RecordOf(queue[i]) = r /\ queue[i].generation = g}
WorkerCarriers(r, g) ==
  {w \in Worker : /\ pc[w] \notin {"idle", "stopped"}
                  /\ RecordOf(task[w]) = r /\ task[w].generation = g}
ClaimCarriers(r, g) ==
  {p \in Partition : /\ claim[p] \in {"register", "submit", "return"}
                     /\ r = <<p, inbound[p]>> /\ g = generation
                     /\ inbound[p] \in DOMAIN committer[p].states}

(* While the session lives, each registered offset that is not done is     *)
(* carried by exactly one of the claim, the queue and the workers: none is *)
(* lost on the way, and no session handles a record twice concurrently.    *)
PendingCarriedOnce ==
  phase = "live" =>
    \A p \in Partition : \A o \in DOMAIN committer[p].states :
      ~ committer[p].states[o].done =>
        Cardinality(QueueCarriers(<<p, o>>, generation))
          + Cardinality(WorkerCarriers(<<p, o>>, generation))
          + Cardinality(ClaimCarriers(<<p, o>>, generation)) = 1

Working == {w \in Worker : pc[w] \notin {"idle", "stopped"}}
OpenTasks == {w \in Working : ~ IsMalformed(task[w])}

(* The gate tracker, which the protector reads to stop intake, never       *)
(* reports less than the work there is: open gates are those of submitted, *)
(* queued and running messages, waiting tasks those of running ones.       *)
GateNeverUnderReports ==
  /\ inFlight >= Len(queue) + Cardinality(Working)
                 + Cardinality({p \in Partition : claim[p] = "submit"})
  /\ waiting >= Cardinality(OpenTasks)

-----------------------------------------------------------------------------
(* The inductive invariant behind OnlySettledAcknowledged.  A record that  *)
(* a claim has fetched is settled, or pending in the committer, or about   *)
(* to be registered; a committer has passed only settled records; the mark *)
(* is never behind the committed offset.                                   *)

AcknowledgedSettled(p) ==
  /\ committed[p] <= marked[p]
  /\ \A o \in Log[p] : o < marked[p] => <<p, o>> \in Settled

FetchedAccounted(p) ==
  claim[p] # "off" =>
    \A o \in Log[p] : o < fetch[p] =>
      \/ <<p, o>> \in Settled
      \/ o \in DOMAIN committer[p].states
      \/ claim[p] = "register" /\ inbound[p] = o

InboundFetched(p) ==
  claim[p] \in {"register", "submit"} => inbound[p] \in Log[p] /\ inbound[p] < fetch[p]

PassedSettled(p) ==
  /\ DOMAIN committer[p].states \subseteq Log[p]
  /\ \A o \in Log[p] : IsDone(committer[p], o) => <<p, o>> \in Settled
  /\ committer[p].initialized =>
       \A o \in Log[p] : o < committer[p].nextOffset => <<p, o>> \in Settled

Owned(p) ==
  IF committer[p].initialized
  THEN /\ claim[p] # "off"
       /\ committer[p].generationID = generation
       /\ \A o \in DOMAIN committer[p].states :
            committer[p].states[o].generationID = generation
  ELSE DOMAIN committer[p].states = {}

CompletedSettled ==
  \A w \in Worker : pc[w] = "complete" => RecordOf(task[w]) \in Settled

ClaimsNeedSession == phase = "none" => \A p \in Partition : claim[p] = "off"

PartitionInv(p) ==
  /\ AcknowledgedSettled(p) /\ FetchedAccounted(p) /\ InboundFetched(p)
  /\ PassedSettled(p) /\ Owned(p)

IInv ==
  /\ TypeOK
  /\ ClaimsNeedSession
  /\ CompletedSettled
  /\ \A p \in Partition : PartitionInv(p)

-----------------------------------------------------------------------------
(* What a step may never do.                                               *)

(* A session's mark moves only while the partition's claim is open, and    *)
(* only forward; outside it only a new session resets it.  A worker that   *)
(* completes after AbortGeneration marks nothing.                          *)
MarksInsideOpenClaim ==
  [][\A p \in Partition :
       marked'[p] # marked[p] =>
         \/ claim[p] # "off" /\ generation' = generation /\ marked'[p] > marked[p]
         \/ generation' # generation /\ marked'[p] = committed[p]]_vars

-----------------------------------------------------------------------------
(* Liveness.                                                               *)

(* A cancelled session ends: neither a full queue nor a worker in its      *)
(* retry or dead-letter loop keeps a claim, and with it the rebalance,     *)
(* from returning.                                                         *)
CancelledSessionEnds == (phase = "cancelled") ~> (phase = "none")

AllCommitted == \A p \in Partition : \A o \in Log[p] : o < committed[p]

(* Every record is acknowledged in the end, through failing handlers,      *)
(* malformed records, failing dead-letter writes, rebalances and crashes,  *)
(* as long as the pool is not closed for good (offsets without gaps).      *)
EventuallyAllCommitted == <>[] ~ closed => <>[] AllCommitted

(* The provider implements at-least-once consumption: settled records are  *)
(* those handled or dead-lettered, the frontier is the committed offset.   *)
Abstract == INSTANCE AtLeastOnce WITH settled <- Settled, frontier <- committed
ImplementsAtLeastOnce == Abstract!Spec

-----------------------------------------------------------------------------
(* What a comment says and the code does not do.                           *)

(* bus.go: "WaitingTasks is the number of unfinished async tasks".         *)
WaitingTasksExact == waiting = Cardinality(OpenTasks)
=============================================================================
