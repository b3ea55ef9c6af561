------------------------ MODULE ConsumptionProtector ------------------------
(***************************************************************************)
(* eventbus/kafka/protector.go around KafkaConsumer.  After every Submit a *)
(* claim, and after every task a worker, first takes a snapshot of the     *)
(* commit, gate and pool state and then hands it to observe, which pauses  *)
(* or resumes the partitions under the protector's own mutex: two steps,   *)
(* with any others between them.  Setup reconciles at a session's start.   *)
(***************************************************************************)
EXTENDS KafkaConsumerProps

CONSTANTS HardPending, HardGate   \* consumptionProtector's thresholds

ASSUME ThresholdAssumption == HardPending \in Nat \ {0} /\ HardGate \in Nat \ {0}

VARIABLES
  paused,       \* consumptionProtector.paused
  fetchPaused,  \* partitions whose fetching Sarama has paused
  tracked,      \* partitions that the commit manager has a committer for
  observer,     \* observer[o]: "none", "due", or the verdict of its snapshot,
                \* with the partitions that the snapshot listed
  stale,        \* history: the pause in force came from an outdated snapshot
  late          \* history: partitions first claimed after that snapshot

protectorVars == <<paused, fetchPaused, tracked, observer, stale, late>>
allVars == <<vars, protectorVars>>

(* The goroutines that observe: one per claim and one per worker.          *)
Observer == Partition \cup Worker

Nothing == [verdict |-> "none", listed |-> {}]
Owed    == [verdict |-> "due", listed |-> {}]

-----------------------------------------------------------------------------
(* Bus.snapshot and hasHardPressure.                                       *)

(* The pool counts a task from the moment its Submit may block.            *)
Queued == Len(queue) + Cardinality({p \in Partition : claim[p] = "submit"})

PendingCount(p) == OrderedCommitStats(committer[p]).PendingCount

HardPressure ==
  \/ inFlight >= HardGate \/ waiting >= HardGate
  \/ 20 * Queued >= 19 * QueueSize
  \/ \E p \in Partition : PendingCount(p) >= HardPending

ProtectedInit ==
  /\ Init
  /\ paused = {} /\ fetchPaused = {} /\ tracked = {}
  /\ observer = [o \in Observer |-> Nothing]
  /\ stale = FALSE /\ late = {}

(* snapshot(): all that observe uses is the verdict and, to pause, the     *)
(* partitions with a committer.                                            *)
Snapshot ==
  IF HardPressure THEN [verdict |-> "pressure", listed |-> tracked]
  ELSE [verdict |-> "calm", listed |-> {}]

TakeSnapshot(o) ==
  /\ observer[o] = Owed
  /\ observer' = [observer EXCEPT ![o] = Snapshot]
  /\ UNCHANGED <<vars, paused, fetchPaused, tracked, stale, late>>

(* Sarama pauses the claims of the session there is.                       *)
Fetching(ps) == fetchPaused' = IF phase = "none" THEN {} ELSE ps

(* Mutant of PausedPartitions: only partitions with pending offsets.       *)
PendingPartitions(snapshot) == {p \in snapshot.listed : PendingCount(p) > 0}

(* Every partition the snapshot lists, pending offsets or not.             *)
PausedPartitions(snapshot) == snapshot.listed

Pause(snapshot) ==
  /\ paused' = PausedPartitions(snapshot)
  /\ Fetching(PausedPartitions(snapshot))
  /\ stale' = ~ HardPressure /\ late' = tracked \ snapshot.listed

Resume == paused' = {} /\ Fetching({}) /\ stale' = FALSE /\ late' = {}
Keep == UNCHANGED <<paused, fetchPaused, stale, late>>

(* Mutant of ObserveVerdict: a pause is applied but never lifted.          *)
ObservePauseOnly(snapshot) ==
  IF snapshot.verdict = "pressure" /\ paused = {} THEN Pause(snapshot) ELSE Keep

ObserveVerdict(snapshot) ==
  CASE snapshot.verdict = "pressure" /\ paused = {}  -> Pause(snapshot)
    [] snapshot.verdict = "calm" /\ paused # {}      -> Resume
    [] OTHER                                         -> Keep

Observe(o) ==
  /\ observer[o].verdict \in {"pressure", "calm"}
  /\ ObserveVerdict(observer[o])
  /\ observer' = [observer EXCEPT ![o] = Nothing]
  /\ UNCHANGED <<vars, tracked>>

-----------------------------------------------------------------------------
(* Setup: reapply or clear the pause before the claims of a session start. *)

(* Mutant of Reconcile: the new session is left as Sarama starts it.       *)
ReconcileNothing == fetchPaused' = {} /\ UNCHANGED <<paused, stale, late>>

Reconcile ==
  IF HardPressure
  THEN fetchPaused' = paused /\ UNCHANGED <<paused, stale, late>>
  ELSE fetchPaused' = {} /\ paused' = {} /\ stale' = FALSE /\ late' = {}

Setup == StartSession /\ Reconcile /\ UNCHANGED <<tracked, observer>>

EndSession ==
  /\ ReleaseSession
  /\ fetchPaused' = {}
  /\ UNCHANGED <<paused, tracked, observer, stale, late>>

CrashAll ==
  /\ Crash
  /\ paused' = {} /\ fetchPaused' = {} /\ tracked' = {}
  /\ observer' = [o \in Observer |-> Nothing]
  /\ stale' = FALSE /\ late' = {}

Free(o) == observer[o] = Nothing
Unobserved == UNCHANGED protectorVars
Due(o) ==
  /\ observer' = [observer EXCEPT ![o] = Owed]
  /\ UNCHANGED <<paused, fetchPaused, tracked, stale, late>>

(* ConsumeClaim begins: commits.Get creates the partition's committer.     *)
OpenClaim(p) ==
  /\ claim[p] = "receive" /\ p \notin tracked
  /\ tracked' = tracked \cup {p}
  /\ late' = IF paused = {} THEN late ELSE late \cup {p}
  /\ UNCHANGED <<vars, paused, fetchPaused, observer, stale>>

(* A claim observes before its next select.                                *)
ClaimStep(p) ==
  \/ SubmitTask(p) /\ Due(p)
  \/ p \in tracked /\ Free(p) /\ Unobserved /\
       (ReceiveMessage(p) \/ RegisterOffset(p) \/ LeaveClaim(p) \/ ReturnClaim(p))

(* A worker observes before it takes the next task.                        *)
Work(w) ==
  \/ (AbandonTask(w) \/ CompleteTask(w)) /\ Due(w)
  \/ Free(w) /\ Unobserved /\ StartTask(w)
  \/ Unobserved /\
       (CallHandler(w) \/ HandlerSucceeds(w) \/ HandlerFails(w) \/ SendDeadLetter(w))

WorkerStep(w) ==
  \/ Work(w)
  \/ Unobserved /\ (DeadLetterStored(w) \/ DeadLetterFails(w))
  \/ Free(w) /\ Unobserved /\ StopWorker(w)

ProtectedNext ==
  \/ Setup \/ EndSession \/ CrashAll
  \/ (CancelSession \/ ClosePool) /\ Unobserved
  \/ \E p \in Partition : (CommitMark(p) /\ Unobserved) \/ OpenClaim(p) \/ ClaimStep(p)
  \/ \E w \in Worker : WorkerStep(w)
  \/ \E o \in Observer : TakeSnapshot(o) \/ Observe(o)

ProtectedSpec == ProtectedInit /\ [][ProtectedNext]_allVars

(* As in KafkaConsumer; a paused claim need not receive (Sarama may still  *)
(* deliver what it had fetched), and every observer goes on.               *)
ProtectedFairness ==
  /\ WF_allVars(Setup) /\ WF_allVars(EndSession)
  /\ \A p \in Partition :
       /\ WF_allVars(CommitMark(p) /\ Unobserved)
       /\ WF_allVars(OpenClaim(p))
       /\ WF_allVars(p \notin fetchPaused /\ ReceiveMessage(p) /\ ClaimStep(p))
       /\ WF_allVars((RegisterOffset(p) \/ ReturnClaim(p)) /\ ClaimStep(p))
       /\ WF_allVars(LeaveClaim(p) /\ ClaimStep(p))
       /\ SF_allVars(SubmitTask(p) /\ ClaimStep(p))
  /\ \A w \in Worker :
       /\ WF_allVars(Work(w))
       /\ SF_allVars(DeadLetterStored(w) /\ Unobserved)
  /\ \A o \in Observer : WF_allVars(TakeSnapshot(o) \/ Observe(o))

ProtectedFairSpec == ProtectedSpec /\ ProtectedFairness

-----------------------------------------------------------------------------
(* Under a pause only partitions first claimed after its snapshot keep     *)
(* fetching: observe pauses all that the snapshot lists, and no others     *)
(* later (protector.go:66).                                                *)
OnlyLateClaimsEscape == paused # {} => tracked \subseteq paused \cup late

(* What Stats reports as paused is what Sarama has paused, in every        *)
(* session, whatever rebalances came between.                              *)
PauseReachesSarama == phase # "none" => fetchPaused = paused

(* Nothing runs that will ever observe again.                              *)
Quiet ==
  /\ queue = <<>>
  /\ \A w \in Worker : pc[w] \in {"idle", "stopped"}
  /\ \A p \in Partition : claim[p] = "receive"
  /\ \A o \in Observer : Free(o)

(* A live session stays paused without pressure, and with nobody left to   *)
(* resume it, only if a snapshot was outdated when observe applied it: the *)
(* relief of pressure is always observed after it by the one who relieved. *)
QuietPauseIsStale ==
  phase = "live" /\ Quiet /\ paused # {} /\ ~ HardPressure => stale

(* The protector stops consumption for good only through such a pause:     *)
(* otherwise every record is acknowledged in the end, as without it.       *)
CommittedUnlessStale == <>[] (~ closed /\ ~ stale) => <>[] AllCommitted

(* bus.go:52: "Paused lists partitions currently paused by local           *)
(* backpressure": while a session lives on an open pool, a pause without   *)
(* pressure does not last.                                                 *)
PauseEndsWithPressure ==
  (phase = "live" /\ paused # {} /\ ~ HardPressure)
    ~> (phase # "live" \/ closed \/ paused = {} \/ HardPressure)
=============================================================================
