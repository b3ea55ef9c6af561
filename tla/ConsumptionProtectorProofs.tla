--------------------- MODULE ConsumptionProtectorProofs ---------------------
(***************************************************************************)
(* The protector only ever stops consumption: each of its steps, and each  *)
(* step of the pipeline under it, is a step or a stutter of KafkaConsumer, *)
(* so every theorem about KafkaConsumer holds of the protected pipeline.   *)
(***************************************************************************)
EXTENDS ConsumptionProtector, KafkaConsumerProofs

LEMMA ProtectedStep == [ProtectedNext]_allVars => [Next]_vars
<1> SUFFICES ASSUME ProtectedNext PROVE Next \/ UNCHANGED vars
  BY DEF allVars
<1>1. ASSUME Setup \/ EndSession \/ CrashAll \/ ((CancelSession \/ ClosePool) /\ Unobserved)
      PROVE  Next
  BY <1>1 DEF Setup, EndSession, CrashAll, Next
<1>2. ASSUME NEW p \in Partition, (CommitMark(p) /\ Unobserved) \/ ClaimStep(p)
      PROVE  Next
  BY <1>2 DEF ClaimStep, ConsumeClaim, Next
<1>3. ASSUME NEW w \in Worker, WorkerStep(w)
      PROVE  Next
  BY <1>3 DEF WorkerStep, Work, RunWorker, Next
<1>4. ASSUME NEW o \in Observer, TakeSnapshot(o) \/ Observe(o)
      PROVE  UNCHANGED vars
  BY <1>4 DEF TakeSnapshot, Observe
<1>5. ASSUME NEW p \in Partition, OpenClaim(p)
      PROVE  UNCHANGED vars
  BY <1>5 DEF OpenClaim
<1>6. QED
  BY <1>1, <1>2, <1>3, <1>4, <1>5 DEF ProtectedNext

(* The protected pipeline implements KafkaConsumer.                        *)
THEOREM ProtectionRefines == ProtectedSpec => Spec
<1>1. ProtectedInit => Init
  BY DEF ProtectedInit
<1>2. QED
  BY <1>1, ProtectedStep, PTL DEF ProtectedSpec, Spec

(* Pausing, resuming and reconciling never let an unsettled record be      *)
(* acknowledged.                                                           *)
THEOREM ProtectedNothingSkipped == ProtectedSpec => []OnlySettledAcknowledged
<1>1. QED
  BY ProtectionRefines, NothingSkipped, PTL

-----------------------------------------------------------------------------
(* What Stats reports as paused is what Sarama has paused.                 *)

LEMMA PauseStep ==
  ASSUME ClaimsNeedSession, PauseReachesSarama, [ProtectedNext]_allVars
  PROVE  PauseReachesSarama'
<1> USE DEF PauseReachesSarama
<1>1. CASE Setup
  BY <1>1 DEF Setup, StartSession, Reconcile
<1>2. CASE EndSession
  BY <1>2 DEF EndSession, ReleaseSession
<1>3. CASE CrashAll
  BY <1>3 DEF CrashAll, Crash
<1>4. CASE (CancelSession \/ ClosePool) /\ Unobserved
  BY <1>4 DEF CancelSession, ClosePool, Unobserved, protectorVars, sessionVars
<1>5. ASSUME NEW p \in Partition, (CommitMark(p) /\ Unobserved) \/ ClaimStep(p)
      PROVE  PauseReachesSarama'
  <2>1. UNCHANGED <<paused, fetchPaused>>
    BY <1>5 DEF ClaimStep, Due, Unobserved, protectorVars
  <2>2. phase' # "none" => phase # "none"
    BY <1>5
    DEF CommitMark, ClaimStep, SubmitTask, ReceiveMessage, RegisterOffset, LeaveClaim,
        ReturnClaim, ClaimsNeedSession, sessionVars
  <2>3. QED
    BY <2>1, <2>2
<1>6. ASSUME NEW w \in Worker, WorkerStep(w)
      PROVE  PauseReachesSarama'
  <2>1. UNCHANGED <<paused, fetchPaused>>
    BY <1>6 DEF WorkerStep, Work, Due, Unobserved, protectorVars
  <2>2. UNCHANGED phase
    BY <1>6
    DEF WorkerStep, Work, AbandonTask, CompleteTask, StartTask, CallHandler,
        HandlerSucceeds, HandlerFails, SendDeadLetter, DeadLetterStored,
        DeadLetterFails, StopWorker, sessionVars
  <2>3. QED
    BY <2>1, <2>2
<1>7. ASSUME NEW o \in Observer, TakeSnapshot(o) \/ Observe(o)
      PROVE  PauseReachesSarama'
  <2>1. UNCHANGED phase
    BY <1>7 DEF TakeSnapshot, Observe, vars, sessionVars
  <2>2. QED
    BY <1>7, <2>1
    DEF TakeSnapshot, Observe, ObserveVerdict, Pause, Resume, Keep, Fetching
<1>8. CASE UNCHANGED allVars
  BY <1>8 DEF allVars, vars, sessionVars, protectorVars
<1>9. ASSUME NEW p \in Partition, OpenClaim(p)
      PROVE  PauseReachesSarama'
  BY <1>9 DEF OpenClaim, vars, sessionVars
<1>10. QED
  BY <1>1, <1>2, <1>3, <1>4, <1>5, <1>6, <1>7, <1>8, <1>9 DEF ProtectedNext

(* In every session, through pauses, resumes, rebalances and restarts, the *)
(* paused map of the protector is what Sarama was last told.               *)
THEOREM PausesReachSarama == ProtectedSpec => []PauseReachesSarama
<1>1. ProtectedInit => PauseReachesSarama
  BY DEF ProtectedInit, Init, PauseReachesSarama
<1>2. IInv => ClaimsNeedSession
  BY DEF IInv
<1>3. ClaimsNeedSession /\ PauseReachesSarama /\ [ProtectedNext]_allVars
        => PauseReachesSarama'
  BY PauseStep
<1>4. QED
  BY <1>1, <1>2, <1>3, ProtectionRefines, Inductive, PTL DEF ProtectedSpec

-----------------------------------------------------------------------------
(* A partition escapes a pause only if it was first claimed after the      *)
(* snapshot that caused the pause: observe pauses all that are listed.     *)

LEMMA EscapeStep ==
  ASSUME OnlyLateClaimsEscape, [ProtectedNext]_allVars
  PROVE  OnlyLateClaimsEscape'
<1> USE DEF OnlyLateClaimsEscape
<1>1. CASE Setup
  BY <1>1 DEF Setup, Reconcile
<1>2. CASE EndSession \/ CrashAll
  BY <1>2 DEF EndSession, CrashAll
<1>3. CASE Unobserved
  BY <1>3 DEF Unobserved, protectorVars
<1>4. ASSUME NEW o \in Observer, Due(o)
      PROVE  OnlyLateClaimsEscape'
  BY <1>4 DEF Due
<1>5. ASSUME NEW o \in Observer, TakeSnapshot(o) \/ Observe(o)
      PROVE  OnlyLateClaimsEscape'
  BY <1>5 DEF TakeSnapshot, Observe, ObserveVerdict, Pause, PausedPartitions, Resume, Keep
<1>6. ASSUME NEW p \in Partition, OpenClaim(p)
      PROVE  OnlyLateClaimsEscape'
  BY <1>6 DEF OpenClaim
<1>7. ASSUME NEW p \in Partition, (CommitMark(p) /\ Unobserved) \/ ClaimStep(p)
      PROVE  OnlyLateClaimsEscape'
  BY <1>3, <1>4, <1>7 DEF ClaimStep, Observer
<1>8. ASSUME NEW w \in Worker, WorkerStep(w)
      PROVE  OnlyLateClaimsEscape'
  BY <1>3, <1>4, <1>8 DEF WorkerStep, Work, Observer
<1>9. CASE UNCHANGED allVars
  BY <1>9 DEF allVars, protectorVars
<1>10. QED
  BY <1>1, <1>2, <1>3, <1>5, <1>6, <1>7, <1>8, <1>9 DEF ProtectedNext

(* In every instance, whatever snapshots overlap and rebalances come.      *)
THEOREM PausesCoverTheSnapshot == ProtectedSpec => []OnlyLateClaimsEscape
<1>1. ProtectedInit => OnlyLateClaimsEscape
  BY DEF ProtectedInit, OnlyLateClaimsEscape
<1>2. QED
  BY <1>1, EscapeStep, PTL DEF ProtectedSpec

-----------------------------------------------------------------------------
(* A pause whose snapshot was right when applied is watched: while a live  *)
(* session stays paused, there is pressure, or something still runs whose  *)
(* end will be observed, or someone holds a calm verdict or owes one.      *)

Unquiet ==
  \/ queue # <<>>
  \/ \E p \in Partition : claim[p] # "receive"
  \/ \E w \in Worker : pc[w] \notin {"idle", "stopped"}
  \/ \E o \in Observer : observer[o].verdict \in {"due", "calm"}

Watched == phase = "live" /\ paused # {} /\ ~ stale => HardPressure \/ Unquiet

ObserverTyped ==
  /\ tracked \subseteq Partition
  /\ observer \in [Observer -> [verdict : {"none", "due", "pressure", "calm"},
                                listed  : SUBSET Partition]]

LEMMA ObserverStep == ObserverTyped /\ [ProtectedNext]_allVars => ObserverTyped'
<1> SUFFICES ASSUME ObserverTyped, [ProtectedNext]_allVars PROVE ObserverTyped'
  OBVIOUS
<1> USE DEF ObserverTyped
<1>1. CASE Setup \/ EndSession \/ CrashAll
  BY <1>1 DEF Setup, EndSession, CrashAll, Nothing
<1>2. CASE Unobserved \/ UNCHANGED allVars
  BY <1>2 DEF Unobserved, allVars, protectorVars
<1>3. ASSUME NEW o \in Observer, Due(o) PROVE ObserverTyped'
  BY <1>3 DEF Due, Owed
<1>4. ASSUME NEW o \in Observer, TakeSnapshot(o) PROVE ObserverTyped'
  BY <1>4 DEF TakeSnapshot, Snapshot
<1>5. ASSUME NEW o \in Observer, Observe(o) PROVE ObserverTyped'
  BY <1>5 DEF Observe, Nothing
<1>6. ASSUME NEW p \in Partition, OpenClaim(p) PROVE ObserverTyped'
  BY <1>6 DEF OpenClaim
<1>7. ASSUME NEW p \in Partition, (CommitMark(p) /\ Unobserved) \/ ClaimStep(p)
      PROVE  ObserverTyped'
  BY <1>2, <1>3, <1>7 DEF ClaimStep, Observer
<1>8. ASSUME NEW w \in Worker, WorkerStep(w) PROVE ObserverTyped'
  BY <1>2, <1>3, <1>8 DEF WorkerStep, Work, Observer
<1>9. QED
  BY <1>1, <1>2, <1>4, <1>5, <1>6, <1>7, <1>8 DEF ProtectedNext

(* HardPressure reads the committers, the gate counters, the queue and who *)
(* is in Submit: nothing else.                                             *)
LEMMA SamePressure ==
  ASSUME UNCHANGED <<committer, gateVars, queue>>,
         {p \in Partition : claim'[p] = "submit"} = {p \in Partition : claim[p] = "submit"}
  PROVE  HardPressure' <=> HardPressure
<1>1. Queued' = Queued
  BY DEF Queued
<1>2. \A p \in Partition : PendingCount(p)' = PendingCount(p)
  BY DEF PendingCount
<1>3. inFlight' = inFlight /\ waiting' = waiting
  BY DEF gateVars
<1>4. QED
  BY <1>1, <1>2, <1>3 DEF HardPressure

LEMMA WatchedStep ==
  ASSUME IInv, ObserverTyped, Watched, [ProtectedNext]_allVars
  PROVE  Watched'
<1>0. TypeOK /\ ClaimsNeedSession
  BY DEF IInv
<1>1. CASE Setup
  <2>1. HardPressure' <=> HardPressure
    <3>1. UNCHANGED <<committer, gateVars, queue>>
      BY <1>1 DEF Setup, StartSession, gateVars
    <3>2. \A p \in Partition : claim[p] = "off" /\ claim'[p] = "receive"
      BY <1>0, <1>1 DEF Setup, StartSession, ClaimsNeedSession
    <3>3. {p \in Partition : claim'[p] = "submit"} = {p \in Partition : claim[p] = "submit"}
      BY <3>2
    <3>4. QED
      BY <3>1, <3>3, SamePressure
  <2>2. paused' # {} => HardPressure
    BY <1>1 DEF Setup, Reconcile
  <2>3. QED
    BY <2>1, <2>2 DEF Watched
<1>2. CASE EndSession \/ CrashAll \/ (CancelSession /\ Unobserved)
  BY <1>2 DEF EndSession, ReleaseSession, CrashAll, Crash, CancelSession, Watched
<1>3. ASSUME (ClosePool /\ Unobserved) \/ UNCHANGED allVars
              \/ \E p \in Partition : (CommitMark(p) /\ Unobserved) \/ OpenClaim(p)
      PROVE  Watched'
  <2>1. UNCHANGED <<phase, claim, committer, inFlight, waiting, queue, pc, paused, observer, stale>>
    BY <1>3
    DEF ClosePool, CommitMark, OpenClaim, Unobserved, protectorVars, allVars, vars,
        sessionVars, claimVars, gateVars, workerVars
  <2>2. HardPressure' <=> HardPressure
    BY <2>1, SamePressure DEF gateVars
  <2>3. Unquiet => Unquiet'
    BY <2>1 DEF Unquiet
  <2>4. QED
    BY <2>1, <2>2, <2>3 DEF Watched
<1>4. ASSUME NEW o \in Observer, Due(o)
      PROVE  Watched'
  <2>1. observer'[o].verdict = "due"
    BY <1>4 DEF Due, Owed, ObserverTyped
  <2>2. QED
    BY <2>1 DEF Watched, Unquiet
<1>5. ASSUME NEW p \in Partition,
             ReceiveMessage(p) \/ RegisterOffset(p) \/ LeaveClaim(p)
      PROVE  Watched'
  <2>1. claim'[p] # "receive"
    BY <1>0, <1>5 DEF ReceiveMessage, RegisterOffset, LeaveClaim, TypeOK
  <2>2. QED
    BY <2>1 DEF Watched, Unquiet
<1>6. ASSUME NEW p \in Partition, ReturnClaim(p)
      PROVE  Watched'
  BY <1>6 DEF ReturnClaim, Watched
<1>7. ASSUME NEW p \in Partition, ClaimStep(p)
      PROVE  Watched'
  BY <1>4, <1>5, <1>6, <1>7 DEF ClaimStep, Observer
<1>8. ASSUME NEW w \in Worker,
             \/ StartTask(w) \/ CallHandler(w) \/ HandlerSucceeds(w) \/ HandlerFails(w)
             \/ SendDeadLetter(w) \/ DeadLetterStored(w) \/ DeadLetterFails(w)
      PROVE  Watched'
  <2>1. pc'[w] \notin {"idle", "stopped"}
    BY <1>0, <1>8
    DEF StartTask, CallHandler, HandlerSucceeds, HandlerFails, Retry, Become,
        SendDeadLetter, DeadLetterStored, DeadLetterFails, TypeOK
  <2>2. QED
    BY <2>1 DEF Watched, Unquiet
<1>9. ASSUME NEW w \in Worker, StopWorker(w), Unobserved
      PROVE  Watched'
  <2>1. UNCHANGED <<phase, claim, committer, inFlight, waiting, queue, paused, observer, stale>>
    BY <1>9 DEF StopWorker, Unobserved, protectorVars, sessionVars, claimVars, gateVars
  <2>2. HardPressure' <=> HardPressure
    BY <2>1, SamePressure DEF gateVars
  <2>3. \A v \in Worker : pc[v] \notin {"idle", "stopped"} => pc'[v] = pc[v]
    BY <1>0, <1>9 DEF StopWorker, TypeOK
  <2>4. Unquiet => Unquiet'
    BY <2>1, <2>3 DEF Unquiet
  <2>5. QED
    BY <2>1, <2>2, <2>4 DEF Watched
<1>10. ASSUME NEW w \in Worker, WorkerStep(w)
       PROVE  Watched'
  BY <1>4, <1>8, <1>9, <1>10 DEF WorkerStep, Work, Observer
<1>11. ASSUME NEW o \in Observer, TakeSnapshot(o)
       PROVE  Watched'
  <2>1. UNCHANGED <<claim, committer, inFlight, waiting, queue>>
    BY <1>11 DEF TakeSnapshot, vars, claimVars, gateVars
  <2>2. HardPressure' <=> HardPressure
    BY <2>1, SamePressure DEF gateVars
  <2>3. ~ HardPressure => observer'[o].verdict = "calm"
    BY <1>11 DEF TakeSnapshot, Snapshot, ObserverTyped
  <2>4. QED
    BY <2>2, <2>3 DEF Watched, Unquiet
<1>12. ASSUME NEW o \in Observer, Observe(o)
       PROVE  Watched'
  <2>1. UNCHANGED <<phase, claim, committer, inFlight, waiting, queue, pc>>
    BY <1>12 DEF Observe, vars, sessionVars, claimVars, gateVars, workerVars
  <2>2. HardPressure' <=> HardPressure
    BY <2>1, SamePressure DEF gateVars
  <2>3. CASE observer[o].verdict = "pressure" /\ paused = {}
    BY <1>12, <2>2, <2>3 DEF Observe, ObserveVerdict, Pause, Watched
  <2>4. CASE observer[o].verdict = "pressure" /\ paused # {}
    <3>1. UNCHANGED <<paused, stale>>
      BY <1>12, <2>4 DEF Observe, ObserveVerdict, Keep
    <3>2. \A q \in Observer : observer[q].verdict \in {"due", "calm"} => observer'[q] = observer[q]
      BY <1>12, <2>4 DEF Observe, ObserverTyped
    <3>3. Unquiet => Unquiet'
      BY <2>1, <3>2 DEF Unquiet
    <3>4. QED
      BY <2>1, <2>2, <3>1, <3>3 DEF Watched
  <2>5. CASE observer[o].verdict = "calm"
    <3>1. paused' = {}
      BY <1>12, <2>5 DEF Observe, ObserveVerdict, Resume, Keep
    <3>2. QED
      BY <3>1 DEF Watched
  <2>6. QED
    BY <1>12, <2>3, <2>4, <2>5 DEF Observe
<1>13. QED
  BY <1>1, <1>2, <1>3, <1>7, <1>10, <1>11, <1>12 DEF ProtectedNext

(* The relief of pressure is always observed after it: a session that is   *)
(* paused with no pressure and nobody left to resume it got there through  *)
(* a snapshot that was outdated when observe applied it, and only so.      *)
THEOREM QuietPausesAreStale == ProtectedSpec => []QuietPauseIsStale
<1>1. ProtectedInit => ObserverTyped /\ Watched
  BY DEF ProtectedInit, ObserverTyped, Watched, Nothing
<1>2. IInv /\ ObserverTyped /\ Watched /\ [ProtectedNext]_allVars => Watched'
  BY WatchedStep
<1>3. Watched => QuietPauseIsStale
  <2>1. Quiet => ~ Unquiet
    BY DEF Quiet, Unquiet, Free, Nothing
  <2>2. QED
    BY <2>1 DEF Watched, QuietPauseIsStale
<1>4. QED
  BY <1>1, <1>2, <1>3, ObserverStep, ProtectionRefines, Inductive, PTL DEF ProtectedSpec
=============================================================================
