--------------------------- MODULE KafkaConsumer ---------------------------
(***************************************************************************)
(* The Kafka provider's consumption pipeline: eventbus/kafka/bus.go with   *)
(* ordered_commit.go, completion_gate.go and worker_pool.go.  One process  *)
(* runs one Subscribe call: a Sarama session of some generation runs one   *)
(* ConsumeClaim goroutine per partition, all of them feed one bounded      *)
(* queue, and a fixed set of workers runs handlers, retries and            *)
(* dead-lettering.  Sarama itself (sessions, claims, marking, auto-commit) *)
(* is modelled from how bus.go uses it.                                    *)
(***************************************************************************)
EXTENDS Integers, Sequences, FiniteSets, OrderedCommitter

CONSTANTS Partition,      \* the partitions of the topic
          Log,            \* Log[p]: offsets of p that hold a record
          LogEnd,         \* LogEnd[p]: the claim's high-water mark
          Malformed,      \* Malformed[p]: records that do not decode
          Worker,         \* the worker goroutines (Options.Workers)
          QueueSize,      \* Options.QueueSize
          MaxAttempts,    \* Options.MaxAttempts
          MaxGeneration,  \* bound: sessions a behaviour may open
          NoTask          \* the task of a worker that runs none

ASSUME LogAssumption ==
  /\ IsFiniteSet(Partition)
  /\ Log \in [Partition -> SUBSET Nat]
  /\ LogEnd \in [Partition -> Nat]
  /\ \A p \in Partition : \A o \in Log[p] : o < LogEnd[p]
  /\ Malformed \in [Partition -> SUBSET Nat]

(* Options.normalize replaces non-positive limits and raises QueueSize.    *)
ASSUME OptionsAssumption ==
  /\ IsFiniteSet(Worker) /\ Worker # {}
  /\ QueueSize \in Nat /\ QueueSize >= Cardinality(Worker)
  /\ MaxAttempts \in Nat \ {0}
  /\ MaxGeneration \in Nat

VARIABLES
  generation,   \* Sarama generation of the latest session
  phase,        \* that session: "none", "live", or "cancelled" (context done)
  claim,        \* where each partition's ConsumeClaim is
  fetch,        \* next offset each claim's message channel delivers
  inbound,      \* message each claim has received and not yet submitted
  marked,       \* session mark of each partition (next offset to commit)
  committed,    \* offset the group has committed at the broker
  committer,    \* orderedCommitManager: one committer per partition
  queue,        \* dynamicWorkerPool.tasks
  closed,       \* dynamicWorkerPool.closed, with done
  pc,           \* where each worker is in its task
  task,         \* the task of each worker
  attempt,      \* its handler attempt
  inFlight,     \* messageCompletionGateTracker.inFlightMessages
  waiting,      \* messageCompletionGateTracker.waitingTasks
  handled,      \* records whose handler has returned nil
  deadLettered  \* records present in the dead-letter topic

sessionVars == <<generation, phase>>
claimVars   == <<claim, fetch, inbound>>
brokerVars  == <<marked, committed>>
workerVars  == <<pc, task, attempt>>
gateVars    == <<inFlight, waiting>>
outcomeVars == <<handled, deadLettered>>
vars == <<sessionVars, claimVars, brokerVars, committer, queue, closed,
          workerVars, gateVars, outcomeVars>>

Offset == UNION {Log[p] : p \in Partition}
Generation == 0 .. MaxGeneration
Task ==
  {t \in [partition : Partition, offset : Offset, generation : Generation] :
     t.offset \in Log[t.partition]}
Record == {r \in Partition \X Offset : r[2] \in Log[r[1]]}
RecordOf(t) == <<t.partition, t.offset>>

(* A task's context is its session's: done once that session is cancelled. *)
ContextDone(g) == ~ (phase = "live" /\ generation = g)

Settled == handled \cup deadLettered

Init ==
  /\ generation = 0 /\ phase = "none"
  /\ claim     = [p \in Partition |-> "off"]
  /\ fetch     = [p \in Partition |-> 0]
  /\ inbound   = [p \in Partition |-> 0]
  /\ marked    = [p \in Partition |-> 0]
  /\ committed = [p \in Partition |-> 0]
  /\ committer = [p \in Partition |-> EmptyCommitter]
  /\ queue = <<>> /\ closed = FALSE
  /\ pc      = [w \in Worker |-> "idle"]
  /\ task    = [w \in Worker |-> NoTask]
  /\ attempt = [w \in Worker |-> 0]
  /\ inFlight = 0 /\ waiting = 0
  /\ handled = {} /\ deadLettered = {}

-----------------------------------------------------------------------------
(* The session, as Subscribe and Sarama drive it.                          *)

ResumeOffset(p) == committed[p]

(* Consume joins the group and starts every claim at the committed offset. *)
StartSession ==
  /\ phase = "none" /\ generation < MaxGeneration
  /\ generation' = generation + 1
  /\ phase' = "live"
  /\ claim' = [p \in Partition |-> "receive"]
  /\ fetch'  = [p \in Partition |-> ResumeOffset(p)]
  /\ marked' = [p \in Partition |-> ResumeOffset(p)]
  /\ UNCHANGED <<inbound, committed, committer, queue, closed,
                 workerVars, gateVars, outcomeVars>>

(* A rebalance or the subscriber's cancellation ends the session context.  *)
(* Bound: the last generation is never cancelled.                          *)
CancelSession ==
  /\ phase = "live" /\ generation < MaxGeneration
  /\ phase' = "cancelled"
  /\ UNCHANGED <<generation, claimVars, brokerVars, committer, queue, closed,
                 workerVars, gateVars, outcomeVars>>

(* Auto-commit flushes a partition's mark: on its interval and when the    *)
(* session ends.                                                           *)
CommitMark(p) ==
  /\ phase # "none"
  /\ committed' = [committed EXCEPT ![p] = marked[p]]
  /\ UNCHANGED <<sessionVars, claimVars, marked, committer, queue, closed,
                 workerVars, gateVars, outcomeVars>>

(* Consume returns after every ConsumeClaim has.                           *)
ReleaseSession ==
  /\ phase = "cancelled"
  /\ \A p \in Partition : claim[p] = "off"
  /\ phase' = "none"
  /\ UNCHANGED <<generation, claimVars, brokerVars, committer, queue, closed,
                 workerVars, gateVars, outcomeVars>>

(* The process dies, or exits after Bus.Close, and starts again.           *)
(* Bound: never in the last generation.                                    *)
Crash ==
  /\ generation < MaxGeneration
  /\ phase' = "none"
  /\ claim'     = [p \in Partition |-> "off"]
  /\ committer' = [p \in Partition |-> EmptyCommitter]
  /\ queue' = <<>> /\ closed' = FALSE
  /\ pc'      = [w \in Worker |-> "idle"]
  /\ task'    = [w \in Worker |-> NoTask]
  /\ attempt' = [w \in Worker |-> 0]
  /\ inFlight' = 0 /\ waiting' = 0
  /\ UNCHANGED <<generation, fetch, inbound, brokerVars, outcomeVars>>

-----------------------------------------------------------------------------
(* ConsumeClaim, one goroutine per partition.                              *)

(* The claim's select takes a message (also possible once the context is   *)
(* done) and records the claim's high-water mark.                          *)
ReceiveMessage(p) ==
  /\ claim[p] = "receive"
  /\ \E o \in Log[p] :
       /\ o >= fetch[p]
       /\ \A k \in Log[p] : k >= fetch[p] => o <= k
       /\ inbound' = [inbound EXCEPT ![p] = o]
       /\ fetch'   = [fetch EXCEPT ![p] = o + 1]
  /\ committer' = [committer EXCEPT ![p] = RecordHighWaterMark(@, LogEnd[p])]
  /\ claim' = [claim EXCEPT ![p] = "register"]
  /\ UNCHANGED <<sessionVars, brokerVars, queue, closed,
                 workerVars, gateVars, outcomeVars>>

(* Register the offset, create its gate, enter Submit: which rejects at    *)
(* once when the pool is closed.                                           *)
RegisterOffset(p) ==
  /\ claim[p] = "register"
  /\ committer' = [committer EXCEPT ![p] = Register(@, inbound[p], generation)]
  /\ inFlight' = inFlight + 1
  /\ claim' = [claim EXCEPT ![p] = IF closed THEN "return" ELSE "submit"]
  /\ UNCHANGED <<sessionVars, fetch, inbound, brokerVars, queue, closed,
                 workerVars, waiting, outcomeVars>>

HasRoom == Len(queue) < QueueSize

(* Submit blocks until the queue has room.                                 *)
SubmitTask(p) ==
  /\ claim[p] = "submit"
  /\ HasRoom
  /\ queue' = Append(queue, [partition  |-> p,
                             offset     |-> inbound[p],
                             generation |-> generation])
  /\ claim' = [claim EXCEPT ![p] = "receive"]
  /\ UNCHANGED <<sessionVars, fetch, inbound, brokerVars, committer, closed,
                 workerVars, gateVars, outcomeVars>>

(* Mutant of MayLeave: Submit waits for the queue alone.                   *)
MayLeaveReceive(p) == claim[p] = "receive" /\ phase # "live"

(* Submit gives up on a done context or a closed pool; the claim's own     *)
(* select sees the done context.                                           *)
MayLeave(p) ==
  \/ claim[p] = "submit" /\ (closed \/ phase # "live")
  \/ claim[p] = "receive" /\ phase # "live"

LeaveClaim(p) ==
  /\ MayLeave(p)
  /\ claim' = [claim EXCEPT ![p] = "return"]
  /\ UNCHANGED <<sessionVars, fetch, inbound, brokerVars, committer, queue, closed,
                 workerVars, gateVars, outcomeVars>>

(* The deferred AbortGeneration; Sarama cancels the session as soon as one *)
(* claim returns.                                                          *)
ReturnClaim(p) ==
  /\ claim[p] = "return"
  /\ committer' = [committer EXCEPT ![p] = AbortGeneration(@, generation)]
  /\ claim' = [claim EXCEPT ![p] = "off"]
  /\ phase' = "cancelled"
  /\ UNCHANGED <<generation, fetch, inbound, brokerVars, queue, closed,
                 workerVars, gateVars, outcomeVars>>

-----------------------------------------------------------------------------
(* A worker and processConsumerMessageWithHandler.                         *)

IsMalformed(t) == t.offset \in Malformed[t.partition]

Become(w, label, t, n) ==
  /\ pc'      = [pc EXCEPT ![w] = label]
  /\ task'    = [task EXCEPT ![w] = t]
  /\ attempt' = [attempt EXCEPT ![w] = n]

(* Take a task and decode it: a malformed record goes straight to the      *)
(* dead-letter loop, any other adds its one task to the gate.              *)
StartTask(w) ==
  /\ pc[w] = "idle" /\ queue # <<>>
  /\ queue' = Tail(queue)
  /\ IF IsMalformed(Head(queue))
     THEN Become(w, "isolate", Head(queue), 1) /\ UNCHANGED waiting
     ELSE Become(w, "attempt", Head(queue), 1) /\ waiting' = waiting + 1
  /\ UNCHANGED <<sessionVars, claimVars, brokerVars, committer, closed,
                 inFlight, outcomeVars>>

(* The context check before an attempt, a backoff or a dead-letter write   *)
(* finds the context done: the task returns and leaves its gate as it is.  *)
AbandonTask(w) ==
  /\ pc[w] \in {"attempt", "isolate"}
  /\ ContextDone(task[w].generation)
  /\ Become(w, "idle", NoTask, 0)
  /\ UNCHANGED <<sessionVars, claimVars, brokerVars, committer, queue, closed,
                 gateVars, outcomeVars>>

CallHandler(w) ==
  /\ pc[w] = "attempt"
  /\ ~ ContextDone(task[w].generation)
  /\ pc' = [pc EXCEPT ![w] = "running"]
  /\ UNCHANGED <<sessionVars, claimVars, brokerVars, committer, queue, closed,
                 task, attempt, gateVars, outcomeVars>>

HandlerSucceeds(w) ==
  /\ pc[w] = "running"
  /\ handled' = handled \cup {RecordOf(task[w])}
  /\ pc' = [pc EXCEPT ![w] = "complete"]
  /\ UNCHANGED <<sessionVars, claimVars, brokerVars, committer, queue, closed,
                 task, attempt, gateVars, deadLettered>>

(* Mutant of Retry: the last attempt gives up instead of isolating.        *)
RetryOrGiveUp(w) ==
  IF attempt[w] >= MaxAttempts
  THEN Become(w, "idle", NoTask, 0)
  ELSE Become(w, "attempt", task[w], attempt[w] + 1)

Retry(w) ==
  IF attempt[w] >= MaxAttempts
  THEN Become(w, "isolate", task[w], attempt[w])
  ELSE Become(w, "attempt", task[w], attempt[w] + 1)

(* An error or a recovered panic: back off and try again, or isolate.      *)
HandlerFails(w) ==
  /\ pc[w] = "running"
  /\ Retry(w)
  /\ UNCHANGED <<sessionVars, claimVars, brokerVars, committer, queue, closed,
                 gateVars, outcomeVars>>

(* publishDeadLetter: past the context check, the record is on its way.    *)
SendDeadLetter(w) ==
  /\ pc[w] = "isolate"
  /\ ~ ContextDone(task[w].generation)
  /\ pc' = [pc EXCEPT ![w] = "send"]
  /\ UNCHANGED <<sessionVars, claimVars, brokerVars, committer, queue, closed,
                 task, attempt, gateVars, outcomeVars>>

DeadLetterStored(w) ==
  /\ pc[w] = "send"
  /\ deadLettered' = deadLettered \cup {RecordOf(task[w])}
  /\ pc' = [pc EXCEPT ![w] = "complete"]
  /\ UNCHANGED <<sessionVars, claimVars, brokerVars, committer, queue, closed,
                 task, attempt, gateVars, handled>>

(* The producer reports an error, whether or not the broker stored it.     *)
DeadLetterFails(w) ==
  /\ pc[w] = "send"
  /\ deadLettered' \in {deadLettered, deadLettered \cup {RecordOf(task[w])}}
  /\ pc' = [pc EXCEPT ![w] = "isolate"]
  /\ UNCHANGED <<sessionVars, claimVars, brokerVars, committer, queue, closed,
                 task, attempt, gateVars, handled>>

(* MarkMessage moves the mark of the session it was captured from, and     *)
(* only forward; marks on a finished session reach no broker.              *)
MarkMessages(p, marks) ==
  LET ends == {m.offset + 1 : m \in {n \in marks : n.generation = generation}}
  IN  IF \E e \in ends : e > marked[p]
      THEN CHOOSE e \in ends : \A f \in ends : f <= e
      ELSE marked[p]

(* Mutant of WaitingAfter: a malformed record counts as a task too.        *)
WaitingOneLess(t) == waiting - 1

WaitingAfter(t) == IF IsMalformed(t) THEN waiting ELSE waiting - 1

(* TaskDone or NoAsyncTaskCompleteNow: the gate completes, once, and the   *)
(* committer marks what has become contiguous.                             *)
CompleteTask(w) ==
  LET t == task[w]
      p == t.partition
  IN  /\ pc[w] = "complete"
      /\ waiting' = WaitingAfter(t)
      /\ inFlight' = inFlight - 1
      /\ committer' = [committer EXCEPT ![p] = Complete(@, t.offset, t.generation)]
      /\ marked' = [marked EXCEPT ![p] =
                      MarkMessages(p, Marks(committer[p], t.offset, t.generation))]
      /\ Become(w, "idle", NoTask, 0)
      /\ UNCHANGED <<sessionVars, claimVars, committed, queue, closed, outcomeVars>>

(* dynamicWorkerPool.Close, and a worker that sees done before a task.     *)
ClosePool ==
  /\ ~ closed
  /\ closed' = TRUE
  /\ UNCHANGED <<sessionVars, claimVars, brokerVars, committer, queue,
                 workerVars, gateVars, outcomeVars>>

StopWorker(w) ==
  /\ closed /\ pc[w] = "idle"
  /\ pc' = [pc EXCEPT ![w] = "stopped"]
  /\ UNCHANGED <<sessionVars, claimVars, brokerVars, committer, queue, closed,
                 task, attempt, gateVars, outcomeVars>>

-----------------------------------------------------------------------------
ConsumeClaim(p) ==
  \/ ReceiveMessage(p) \/ RegisterOffset(p) \/ SubmitTask(p)
  \/ LeaveClaim(p) \/ ReturnClaim(p)

RunWorker(w) ==
  \/ StartTask(w) \/ AbandonTask(w) \/ CallHandler(w)
  \/ HandlerSucceeds(w) \/ HandlerFails(w)
  \/ SendDeadLetter(w) \/ DeadLetterStored(w) \/ DeadLetterFails(w)
  \/ CompleteTask(w) \/ StopWorker(w)

Next ==
  \/ StartSession \/ CancelSession \/ ReleaseSession \/ Crash \/ ClosePool
  \/ \E p \in Partition : CommitMark(p) \/ ConsumeClaim(p)
  \/ \E w \in Worker : RunWorker(w)

Spec == Init /\ [][Next]_vars

(* Go runs every runnable goroutine, a blocked channel sender is served in *)
(* turn, Sarama rejoins and flushes on its interval, and a dead-letter     *)
(* write that is retried for ever succeeds in the end.                     *)
Fairness ==
  /\ WF_vars(StartSession) /\ WF_vars(ReleaseSession)
  /\ \A p \in Partition :
       /\ WF_vars(CommitMark(p)) /\ WF_vars(ReceiveMessage(p))
       /\ WF_vars(RegisterOffset(p)) /\ SF_vars(SubmitTask(p))
       /\ WF_vars(LeaveClaim(p)) /\ WF_vars(ReturnClaim(p))
  /\ \A w \in Worker :
       /\ WF_vars(StartTask(w)) /\ WF_vars(AbandonTask(w)) /\ WF_vars(CallHandler(w))
       /\ WF_vars(HandlerSucceeds(w) \/ HandlerFails(w))
       /\ WF_vars(SendDeadLetter(w)) /\ SF_vars(DeadLetterStored(w))
       /\ WF_vars(CompleteTask(w))

FairSpec == Spec /\ Fairness
=============================================================================
