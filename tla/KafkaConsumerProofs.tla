------------------------ MODULE KafkaConsumerProofs ------------------------
(***************************************************************************)
(* The inductive invariants of the consumption pipeline hold for every     *)
(* number of partitions, workers and sessions and every log: what a claim  *)
(* has fetched, what the gates count, how a committer keeps its books, and *)
(* who carries a pending record.                                           *)
(***************************************************************************)
EXTENDS KafkaConsumerProps, OrderedCommitterProofs

LEMMA OffsetFacts ==
  /\ Offset \subseteq Nat
  /\ \A p \in Partition : Log[p] \subseteq Offset /\ Log[p] \subseteq Nat
  /\ 0 \in Generation /\ Generation \subseteq Nat
  BY LogAssumption, OptionsAssumption DEF Offset, Generation

LEMMA InitIInv == Init => IInv
<1> SUFFICES ASSUME Init PROVE IInv
  OBVIOUS
<1>1. EmptyCommitter \in Committer(Offset, Generation)
  BY OffsetFacts, EmptyCommitterType
<1>2. ~ EmptyCommitter.initialized /\ DOMAIN EmptyCommitter.states = {}
  BY OffsetFacts, EmptyCommitterType
<1>3. TypeOK
  <2>1. /\ generation \in Generation
        /\ attempt \in [Worker -> 0 .. MaxAttempts]
        /\ queue \in Seq(Task) /\ Len(queue) <= QueueSize
    BY OffsetFacts, OptionsAssumption DEF Init
  <2>2. committer \in [Partition -> Committer(Offset, Generation)]
    BY <1>1 DEF Init
  <2>3. /\ pc \in [Worker -> {"idle", "attempt", "running", "isolate", "send",
                             "complete", "stopped"}]
        /\ task \in [Worker -> Task \cup {NoTask}]
        /\ \A w \in Worker : IF pc[w] \in {"idle", "stopped"} THEN task[w] = NoTask
                                                             ELSE task[w] \in Task
    BY DEF Init
  <2>4. /\ phase \in {"none", "live", "cancelled"}
        /\ claim \in [Partition -> {"off", "receive", "register", "submit", "return"}]
        /\ fetch \in [Partition -> Nat] /\ inbound \in [Partition -> Nat]
        /\ marked \in [Partition -> Nat] /\ committed \in [Partition -> Nat]
        /\ inFlight \in Int /\ waiting \in Int
        /\ handled \subseteq Record /\ deadLettered \subseteq Record
    BY DEF Init
  <2>5. closed \in BOOLEAN
    BY Zenon DEF Init
  <2>6. QED
    BY <2>1, <2>2, <2>3, <2>4, <2>5 DEF TypeOK
<1>4. CompletedSettled
  BY DEF Init, CompletedSettled
<1>5. ASSUME NEW p \in Partition PROVE PartitionInv(p)
  <2>1. /\ claim[p] = "off" /\ marked[p] = 0 /\ committed[p] = 0
        /\ committer[p] = EmptyCommitter
    BY DEF Init
  <2>2. QED
    BY <1>2, <2>1, OffsetFacts
       DEF PartitionInv, AcknowledgedSettled, FetchedAccounted, InboundFetched,
           PassedSettled, Owned, IsDone
<1>6. QED
  BY <1>3, <1>4, <1>5 DEF IInv, ClaimsNeedSession, Init

(* A step that leaves the session, the claims, the broker and the          *)
(* committers alone and settles more records keeps every partition's part. *)
LEMMA PartitionsKept ==
  ASSUME IInv, UNCHANGED <<sessionVars, claimVars, brokerVars, committer>>,
         Settled \subseteq Settled'
  PROVE  ClaimsNeedSession' /\ \A p \in Partition : PartitionInv(p)'
<1>1. ClaimsNeedSession'
  BY DEF IInv, ClaimsNeedSession, sessionVars, claimVars
<1>2. ASSUME NEW p \in Partition PROVE PartitionInv(p)'
  <2>1. PartitionInv(p)
    BY DEF IInv
  <2>2. UNCHANGED <<generation, claim, fetch, inbound, marked, committed, committer>>
    BY DEF sessionVars, claimVars, brokerVars
  <2>3. QED
    BY <2>1, <2>2 DEF PartitionInv, AcknowledgedSettled, FetchedAccounted,
       InboundFetched, PassedSettled, Owned, IsDone
<1>3. QED
  BY <1>1, <1>2

(* A step that leaves the workers and their outcomes alone keeps theirs.   *)
LEMMA WorkersKept ==
  ASSUME IInv, UNCHANGED <<workerVars, outcomeVars>>
  PROVE  CompletedSettled'
  BY DEF IInv, CompletedSettled, workerVars, outcomeVars, Settled

-----------------------------------------------------------------------------
(* The session's steps.                                                    *)

LEMMA StartSessionIInv == IInv /\ StartSession => IInv'
<1> SUFFICES ASSUME IInv, StartSession PROVE IInv'
  OBVIOUS
<1>1. TypeOK'
  BY OptionsAssumption DEF IInv, TypeOK, StartSession, ResumeOffset, Generation,
     workerVars, gateVars, outcomeVars
<1>2. CompletedSettled'
  BY WorkersKept DEF StartSession
<1>3. ASSUME NEW p \in Partition PROVE PartitionInv(p)'
  <2>1. /\ claim[p] = "off" /\ claim'[p] = "receive"
        /\ fetch'[p] = committed[p] /\ marked'[p] = committed[p]
        /\ UNCHANGED <<inbound, committed, committer, handled, deadLettered>>
    BY DEF IInv, ClaimsNeedSession, StartSession, ResumeOffset, outcomeVars
  <2>2. ~ committer[p].initialized
    BY <2>1 DEF IInv, PartitionInv, Owned
  <2>3. PartitionInv(p) /\ marked[p] \in Nat /\ committed[p] \in Nat /\ Log[p] \subseteq Nat
    BY OffsetFacts DEF IInv, TypeOK
  <2>4. QED
    BY <2>1, <2>2, <2>3 DEF PartitionInv, AcknowledgedSettled, FetchedAccounted,
       InboundFetched, PassedSettled, Owned, Settled, IsDone
<1>4. QED
  BY <1>1, <1>2, <1>3 DEF IInv, ClaimsNeedSession, StartSession

LEMMA CancelSessionIInv == IInv /\ CancelSession => IInv'
<1> SUFFICES ASSUME IInv, CancelSession PROVE IInv'
  OBVIOUS
<1>1. TypeOK'
  BY DEF IInv, TypeOK, CancelSession, claimVars, brokerVars, workerVars, gateVars,
     outcomeVars
<1>2. CompletedSettled'
  BY WorkersKept DEF CancelSession
<1>3. ASSUME NEW p \in Partition PROVE PartitionInv(p)'
  BY DEF IInv, PartitionInv, AcknowledgedSettled, FetchedAccounted, InboundFetched,
     PassedSettled, Owned, Settled, IsDone, CancelSession, claimVars, brokerVars, outcomeVars
<1>4. QED
  BY <1>1, <1>2, <1>3 DEF IInv, ClaimsNeedSession, CancelSession

LEMMA ReleaseSessionIInv == IInv /\ ReleaseSession => IInv'
<1> SUFFICES ASSUME IInv, ReleaseSession PROVE IInv'
  OBVIOUS
<1>1. TypeOK'
  BY DEF IInv, TypeOK, ReleaseSession, claimVars, brokerVars, workerVars, gateVars,
     outcomeVars
<1>2. CompletedSettled'
  BY WorkersKept DEF ReleaseSession
<1>3. ASSUME NEW p \in Partition PROVE PartitionInv(p)'
  BY DEF IInv, PartitionInv, AcknowledgedSettled, FetchedAccounted, InboundFetched,
     PassedSettled, Owned, Settled, IsDone, ReleaseSession, claimVars, brokerVars, outcomeVars
<1>4. ClaimsNeedSession'
  BY DEF ClaimsNeedSession, ReleaseSession, claimVars
<1>5. QED
  BY <1>1, <1>2, <1>3, <1>4 DEF IInv

LEMMA CommitMarkIInv ==
  ASSUME NEW p \in Partition, IInv, CommitMark(p)
  PROVE  IInv'
<1>1. TypeOK'
  BY DEF IInv, TypeOK, CommitMark, sessionVars, claimVars, workerVars, gateVars,
     outcomeVars
<1>2. CompletedSettled'
  BY WorkersKept DEF CommitMark
<1>3. ASSUME NEW q \in Partition PROVE PartitionInv(q)'
  <2>1. committed'[q] \in {committed[q], marked[q]}
    BY DEF IInv, TypeOK, CommitMark
  <2>2. PartitionInv(q) /\ marked[q] \in Nat /\ committed[q] \in Nat
    BY DEF IInv, TypeOK
  <2>3. UNCHANGED <<generation, claim, fetch, inbound, marked, committer, handled, deadLettered>>
    BY DEF CommitMark, sessionVars, claimVars, outcomeVars
  <2>4. QED
    BY <2>1, <2>2, <2>3 DEF PartitionInv, AcknowledgedSettled, FetchedAccounted,
       InboundFetched, PassedSettled, Owned, Settled, IsDone
<1>4. QED
  BY <1>1, <1>2, <1>3 DEF IInv, ClaimsNeedSession, CommitMark, sessionVars, claimVars

LEMMA CrashIInv == IInv /\ Crash => IInv'
<1> SUFFICES ASSUME IInv, Crash PROVE IInv'
  OBVIOUS
<1>1. /\ EmptyCommitter \in Committer(Offset, Generation)
      /\ ~ EmptyCommitter.initialized /\ DOMAIN EmptyCommitter.states = {}
  BY OffsetFacts, EmptyCommitterType
<1>2. TypeOK'
  <2>1. committer' \in [Partition -> Committer(Offset, Generation)]
    BY <1>1 DEF Crash
  <2>2. closed' \in BOOLEAN
    BY Zenon DEF Crash
  <2>3. /\ queue' \in Seq(Task) /\ Len(queue') <= QueueSize
        /\ attempt' \in [Worker -> 0 .. MaxAttempts]
    BY OptionsAssumption DEF Crash
  <2>4. /\ pc' \in [Worker -> {"idle", "attempt", "running", "isolate", "send",
                              "complete", "stopped"}]
        /\ task' \in [Worker -> Task \cup {NoTask}]
        /\ \A w \in Worker : IF pc'[w] \in {"idle", "stopped"} THEN task'[w] = NoTask
                                                              ELSE task'[w] \in Task
    BY DEF Crash
  <2>5. QED
    BY <2>1, <2>2, <2>3, <2>4 DEF IInv, TypeOK, Crash, brokerVars, outcomeVars
<1>3. CompletedSettled'
  BY DEF CompletedSettled, Crash
<1>4. ASSUME NEW p \in Partition PROVE PartitionInv(p)'
  <2>1. claim'[p] = "off" /\ committer'[p] = EmptyCommitter
    BY DEF Crash
  <2>2. AcknowledgedSettled(p)'
    BY DEF IInv, PartitionInv, AcknowledgedSettled, Settled, Crash, brokerVars, outcomeVars
  <2>3. QED
    BY <1>1, <2>1, <2>2 DEF PartitionInv, FetchedAccounted, InboundFetched,
       PassedSettled, Owned, IsDone
<1>5. QED
  BY <1>2, <1>3, <1>4 DEF IInv, ClaimsNeedSession, Crash

LEMMA ClosePoolIInv == IInv /\ ClosePool => IInv'
<1> SUFFICES ASSUME IInv, ClosePool PROVE IInv'
  OBVIOUS
<1>1. TypeOK'
  <2>1. closed' \in BOOLEAN
    BY Zenon DEF ClosePool
  <2>2. QED
    BY <2>1 DEF IInv, TypeOK, ClosePool, sessionVars, claimVars, brokerVars, workerVars,
       gateVars, outcomeVars
<1>2. CompletedSettled'
  BY WorkersKept DEF ClosePool
<1>3. ClaimsNeedSession' /\ \A p \in Partition : PartitionInv(p)'
  BY PartitionsKept DEF ClosePool, outcomeVars, Settled
<1>4. QED
  BY <1>1, <1>2, <1>3 DEF IInv

-----------------------------------------------------------------------------
(* ConsumeClaim's steps.                                                   *)

LEMMA ReceiveMessageIInv ==
  ASSUME NEW p \in Partition, IInv, ReceiveMessage(p)
  PROVE  IInv'
<1> USE LogAssumption
<1>1. PICK o \in Log[p] :
        /\ o >= fetch[p]
        /\ \A k \in Log[p] : k >= fetch[p] => o <= k
        /\ inbound' = [inbound EXCEPT ![p] = o]
        /\ fetch'   = [fetch EXCEPT ![p] = o + 1]
  BY DEF ReceiveMessage
<1>2. o \in Nat /\ Log[p] \subseteq Nat
  BY OffsetFacts
<1>3. PICK c \in Committer(Offset, Generation) :
        /\ committer' = [committer EXCEPT ![p] = c]
        /\ c.initialized = committer[p].initialized
        /\ c.generationID = committer[p].generationID
        /\ c.nextOffset = committer[p].nextOffset
        /\ c.states = committer[p].states
  <2> DEFINE c == RecordHighWaterMark(committer[p], LogEnd[p])
  <2>1. committer[p] \in Committer(Offset, Generation) /\ LogEnd[p] \in Nat
    BY DEF IInv, TypeOK
  <2>2. /\ c \in Committer(Offset, Generation)
        /\ c.initialized = committer[p].initialized
        /\ c.generationID = committer[p].generationID
        /\ c.nextOffset = committer[p].nextOffset
        /\ c.states = committer[p].states
    BY <2>1 DEF RecordHighWaterMark, Committer
  <2>3. committer' = [committer EXCEPT ![p] = c]
    BY DEF ReceiveMessage
  <2>4. QED
    BY <2>2, <2>3
<1>4. TypeOK'
  BY <1>1, <1>2, <1>3 DEF IInv, TypeOK, ReceiveMessage, sessionVars, brokerVars,
     workerVars, gateVars, outcomeVars
<1>5. CompletedSettled'
  BY WorkersKept DEF ReceiveMessage
<1>6. ASSUME NEW q \in Partition PROVE PartitionInv(q)'
  <2>1. PartitionInv(q)
    BY DEF IInv
  <2>2. UNCHANGED <<generation, marked, committed, handled, deadLettered>>
    BY DEF ReceiveMessage, sessionVars, brokerVars, outcomeVars
  <2>3. CASE q = p
    <3>1. /\ committer'[p].initialized = committer[p].initialized
          /\ committer'[p].generationID = committer[p].generationID
          /\ committer'[p].nextOffset = committer[p].nextOffset
          /\ committer'[p].states = committer[p].states
      BY <1>3 DEF IInv, TypeOK
    <3>2. /\ claim[p] = "receive" /\ claim'[p] = "register"
          /\ inbound'[p] = o /\ fetch'[p] = o + 1
      BY <1>1 DEF IInv, TypeOK, ReceiveMessage
    <3>3. fetch[p] \in Nat
      BY DEF IInv, TypeOK
    <3>4. FetchedAccounted(p)' /\ InboundFetched(p)'
      BY <1>1, <1>2, <2>1, <2>2, <2>3, <3>1, <3>2, <3>3
         DEF PartitionInv, FetchedAccounted, InboundFetched, Settled
    <3>5. QED
      BY <2>1, <2>2, <2>3, <3>1, <3>2, <3>4 DEF PartitionInv, AcknowledgedSettled,
         PassedSettled, Owned, Settled, IsDone
  <2>4. CASE q # p
    <3>1. /\ committer'[q] = committer[q] /\ claim'[q] = claim[q]
          /\ inbound'[q] = inbound[q] /\ fetch'[q] = fetch[q]
      BY <1>1, <1>3, <2>4 DEF IInv, TypeOK, ReceiveMessage
    <3>2. QED
      BY <2>1, <2>2, <3>1 DEF PartitionInv, AcknowledgedSettled, FetchedAccounted,
         InboundFetched, PassedSettled, Owned, Settled, IsDone
  <2>5. QED
    BY <2>3, <2>4
<1>7. ClaimsNeedSession'
  BY DEF IInv, TypeOK, ClaimsNeedSession, ReceiveMessage, sessionVars
<1>8. QED
  BY <1>4, <1>5, <1>6, <1>7 DEF IInv

LEMMA RegisterOffsetIInv ==
  ASSUME NEW p \in Partition, IInv, RegisterOffset(p)
  PROVE  IInv'
<1> DEFINE o == inbound[p]
<1>1. /\ claim[p] = "register" /\ claim'[p] \in {"submit", "return"}
      /\ o \in Log[p] /\ o \in Nat /\ o \in Offset /\ generation \in Generation
      /\ committer[p] \in Committer(Offset, Generation)
  BY OffsetFacts DEF IInv, TypeOK, PartitionInv, InboundFetched, RegisterOffset
<1>2. /\ committer[p].initialized => committer[p].generationID = generation
      /\ ~ committer[p].initialized => DOMAIN committer[p].states = {}
  BY DEF IInv, PartitionInv, Owned
<1>3. PICK r : /\ r = Register(committer[p], o, generation)
               /\ Registered(Offset, Generation, committer[p], o, generation, r)
  BY <1>1, <1>2, OffsetFacts, RegisterAdds
<1>4. committer' = [committer EXCEPT ![p] = r]
  BY <1>3 DEF RegisterOffset
<1>5. TypeOK'
  <2>1. /\ claim' \in [Partition -> {"off", "receive", "register", "submit", "return"}]
        /\ inFlight' \in Int
    BY DEF IInv, TypeOK, RegisterOffset
  <2>2. committer' \in [Partition -> Committer(Offset, Generation)]
    BY <1>3, <1>4 DEF IInv, TypeOK, Registered
  <2>3. QED
    BY <2>1, <2>2 DEF IInv, TypeOK, RegisterOffset, sessionVars, brokerVars, workerVars,
       outcomeVars
<1>6. CompletedSettled'
  BY WorkersKept DEF RegisterOffset
<1>7. ASSUME NEW q \in Partition PROVE PartitionInv(q)'
  <2>1. PartitionInv(q)
    BY DEF IInv
  <2>2. UNCHANGED <<generation, fetch, inbound, marked, committed, handled, deadLettered>>
    BY DEF RegisterOffset, sessionVars, brokerVars, outcomeVars
  <2>3. CASE q = p
    <3>1. committer'[p] = r
      BY <1>4 DEF IInv, TypeOK
    <3>2. \A k \in Log[p] : IsDone(r, k) => <<p, k>> \in Settled
      <4>1. \A k \in Log[p] : IsDone(r, k) => IsDone(committer[p], k)
        BY <1>3 DEF Registered, IsDone
      <4>2. QED
        BY <2>1, <2>3, <4>1 DEF PartitionInv, PassedSettled
    <3>3. \A k \in Log[p] : k < r.nextOffset => <<p, k>> \in Settled
      <4>1. CASE committer[p].initialized
        BY <1>3, <2>1, <2>3, <4>1 DEF Registered, PartitionInv, PassedSettled
      <4>2. CASE ~ committer[p].initialized
        <5>1. r.nextOffset = o /\ DOMAIN committer[p].states = {}
          BY <1>2, <1>3, <4>2 DEF Registered
        <5>2. o < fetch[p] /\ fetch[p] \in Nat
          BY <1>1 DEF IInv, TypeOK, PartitionInv, InboundFetched
        <5>3. QED
          BY <1>1, <2>1, <2>3, <5>1, <5>2, OffsetFacts DEF PartitionInv, FetchedAccounted
      <4>3. QED
        BY <4>1, <4>2
    <3>4. PassedSettled(p)'
      BY <1>1, <1>3, <2>1, <2>2, <2>3, <3>1, <3>2, <3>3
         DEF Registered, PartitionInv, PassedSettled, Settled
    <3>5. Owned(p)'
      BY <1>1, <1>3, <2>1, <2>2, <2>3, <3>1 DEF Registered, PartitionInv, Owned
    <3>6. FetchedAccounted(p)'
      BY <1>1, <1>3, <2>1, <2>2, <2>3, <3>1
         DEF Registered, PartitionInv, FetchedAccounted, Settled
    <3>7. AcknowledgedSettled(p)' /\ InboundFetched(p)'
      BY <1>1, <2>1, <2>2, <2>3
         DEF PartitionInv, AcknowledgedSettled, InboundFetched, Settled
    <3>8. QED
      BY <2>3, <3>4, <3>5, <3>6, <3>7 DEF PartitionInv
  <2>4. CASE q # p
    <3>1. committer'[q] = committer[q] /\ claim'[q] = claim[q]
      BY <1>4, <2>4 DEF IInv, TypeOK, RegisterOffset
    <3>2. QED
      BY <2>1, <2>2, <3>1 DEF PartitionInv, AcknowledgedSettled, FetchedAccounted,
         InboundFetched, PassedSettled, Owned, Settled, IsDone
  <2>5. QED
    BY <2>3, <2>4
<1>8. ClaimsNeedSession'
  BY DEF IInv, TypeOK, ClaimsNeedSession, RegisterOffset, sessionVars
<1>9. QED
  BY <1>5, <1>6, <1>7, <1>8 DEF IInv

LEMMA SubmitTaskIInv ==
  ASSUME NEW p \in Partition, IInv, SubmitTask(p)
  PROVE  IInv'
<1> DEFINE t == [partition |-> p, offset |-> inbound[p], generation |-> generation]
<1>1. claim[p] = "submit" /\ claim' = [claim EXCEPT ![p] = "receive"]
      /\ queue' = Append(queue, t)
  BY DEF SubmitTask
<1>2. t \in Task
  BY <1>1, OffsetFacts DEF IInv, TypeOK, PartitionInv, InboundFetched, Task
<1>3. TypeOK'
  <2>1. queue \in Seq(Task) /\ Len(queue) < QueueSize
    BY DEF IInv, TypeOK, SubmitTask, HasRoom
  <2> HIDE DEF t
  <2>2. queue' \in Seq(Task) /\ Len(queue') = Len(queue) + 1
    BY <1>1, <1>2, <2>1
  <2>3. Len(queue') <= QueueSize
    BY <2>1, <2>2, OptionsAssumption
  <2>4. claim' \in [Partition -> {"off", "receive", "register", "submit", "return"}]
    BY <1>1 DEF IInv, TypeOK
  <2>5. QED
    BY <2>2, <2>3, <2>4 DEF IInv, TypeOK, SubmitTask, sessionVars, brokerVars, workerVars,
       gateVars, outcomeVars
<1>4. CompletedSettled'
  BY WorkersKept DEF SubmitTask
<1>5. ASSUME NEW q \in Partition PROVE PartitionInv(q)'
  <2>1. PartitionInv(q)
    BY DEF IInv
  <2>2. UNCHANGED <<generation, fetch, inbound, marked, committed, committer, handled,
                    deadLettered>>
    BY DEF SubmitTask, sessionVars, brokerVars, outcomeVars
  <2>3. IF q = p THEN claim[q] = "submit" /\ claim'[q] = "receive" ELSE claim'[q] = claim[q]
    BY <1>1 DEF IInv, TypeOK
  <2>4. QED
    BY <2>1, <2>2, <2>3 DEF PartitionInv, AcknowledgedSettled, FetchedAccounted,
       InboundFetched, PassedSettled, Owned, Settled, IsDone
<1>6. ClaimsNeedSession'
  BY <1>1 DEF IInv, TypeOK, ClaimsNeedSession, SubmitTask, sessionVars
<1>7. QED
  BY <1>3, <1>4, <1>5, <1>6 DEF IInv

LEMMA LeaveClaimIInv ==
  ASSUME NEW p \in Partition, IInv, LeaveClaim(p)
  PROVE  IInv'
<1>1. claim[p] \in {"receive", "submit"} /\ claim' = [claim EXCEPT ![p] = "return"]
  BY DEF LeaveClaim, MayLeave
<1>2. TypeOK'
  BY <1>1 DEF IInv, TypeOK, LeaveClaim, sessionVars, brokerVars, workerVars, gateVars,
     outcomeVars
<1>3. CompletedSettled'
  BY WorkersKept DEF LeaveClaim
<1>4. ASSUME NEW q \in Partition PROVE PartitionInv(q)'
  <2>1. PartitionInv(q)
    BY DEF IInv
  <2>2. UNCHANGED <<generation, fetch, inbound, marked, committed, committer, handled,
                    deadLettered>>
    BY DEF LeaveClaim, sessionVars, brokerVars, outcomeVars
  <2>3. IF q = p THEN claim[q] \in {"receive", "submit"} /\ claim'[q] = "return"
                 ELSE claim'[q] = claim[q]
    BY <1>1 DEF IInv, TypeOK
  <2>4. QED
    BY <2>1, <2>2, <2>3 DEF PartitionInv, AcknowledgedSettled, FetchedAccounted,
       InboundFetched, PassedSettled, Owned, Settled, IsDone
<1>5. ClaimsNeedSession'
  BY <1>1 DEF IInv, TypeOK, ClaimsNeedSession, LeaveClaim, sessionVars
<1>6. QED
  BY <1>2, <1>3, <1>4, <1>5 DEF IInv

LEMMA ReturnClaimIInv ==
  ASSUME NEW p \in Partition, IInv, ReturnClaim(p)
  PROVE  IInv'
<1>1. /\ EmptyCommitter \in Committer(Offset, Generation)
      /\ ~ EmptyCommitter.initialized /\ DOMAIN EmptyCommitter.states = {}
  BY OffsetFacts, EmptyCommitterType
<1>2. PICK c \in Committer(Offset, Generation) :
        /\ committer' = [committer EXCEPT ![p] = c]
        /\ ~ c.initialized /\ DOMAIN c.states = {}
  <2>1. committer' = [committer EXCEPT ![p] = AbortGeneration(committer[p], generation)]
    BY DEF ReturnClaim
  <2>2. CASE committer[p].initialized
    BY <1>1, <2>1, <2>2 DEF IInv, PartitionInv, Owned, AbortGeneration
  <2>3. CASE ~ committer[p].initialized
    BY <2>1, <2>3 DEF IInv, TypeOK, PartitionInv, Owned, AbortGeneration
  <2>4. QED
    BY <2>2, <2>3
<1>3. claim' = [claim EXCEPT ![p] = "off"] /\ phase' = "cancelled"
  BY DEF ReturnClaim
<1>4. TypeOK'
  <2>1. committer' \in [Partition -> Committer(Offset, Generation)]
    BY <1>2 DEF IInv, TypeOK
  <2>2. QED
    BY <1>3, <2>1 DEF IInv, TypeOK, ReturnClaim, brokerVars, workerVars, gateVars, outcomeVars
<1>5. CompletedSettled'
  BY WorkersKept DEF ReturnClaim
<1>6. ASSUME NEW q \in Partition PROVE PartitionInv(q)'
  <2>1. PartitionInv(q)
    BY DEF IInv
  <2>2. UNCHANGED <<generation, fetch, inbound, marked, committed, handled, deadLettered>>
    BY DEF ReturnClaim, brokerVars, outcomeVars
  <2>3. CASE q = p
    <3>1. claim'[q] = "off" /\ committer'[q] = c
      BY <1>2, <1>3, <2>3 DEF IInv, TypeOK
    <3>2. QED
      BY <1>2, <2>1, <2>2, <3>1 DEF PartitionInv, AcknowledgedSettled, FetchedAccounted,
         InboundFetched, PassedSettled, Owned, Settled, IsDone
  <2>4. CASE q # p
    <3>1. claim'[q] = claim[q] /\ committer'[q] = committer[q]
      BY <1>2, <1>3, <2>4 DEF IInv, TypeOK
    <3>2. QED
      BY <2>1, <2>2, <3>1 DEF PartitionInv, AcknowledgedSettled, FetchedAccounted,
         InboundFetched, PassedSettled, Owned, Settled, IsDone
  <2>5. QED
    BY <2>3, <2>4
<1>7. ClaimsNeedSession'
  BY <1>3 DEF ClaimsNeedSession
<1>8. QED
  BY <1>4, <1>5, <1>6, <1>7 DEF IInv

-----------------------------------------------------------------------------
(* The workers' steps.                                                     *)

(* The part of TypeOK about the workers.                                   *)
WorkersTyped ==
  /\ pc \in [Worker -> {"idle", "attempt", "running", "isolate", "send",
                        "complete", "stopped"}]
  /\ task \in [Worker -> Task \cup {NoTask}]
  /\ \A w \in Worker : IF pc[w] \in {"idle", "stopped"} THEN task[w] = NoTask
                                                        ELSE task[w] \in Task
  /\ attempt \in [Worker -> 0 .. MaxAttempts]

(* A worker that takes up a task, and one that lets go of it.              *)
LEMMA BecomeBusy ==
  ASSUME NEW w \in Worker, IInv, NEW t \in Task, NEW n \in 0 .. MaxAttempts,
         NEW label \in {"attempt", "isolate"}, Become(w, label, t, n)
  PROVE  WorkersTyped' /\ (handled \subseteq handled' /\ deadLettered \subseteq deadLettered'
                             => CompletedSettled')
<1>1. TypeOK /\ CompletedSettled
  BY DEF IInv
<1>2. /\ task' = [task EXCEPT ![w] = t] /\ pc' = [pc EXCEPT ![w] = label]
      /\ attempt' = [attempt EXCEPT ![w] = n]
  BY DEF Become
<1>3. \A v \in Worker :
        IF v = w THEN pc'[v] = label /\ task'[v] = t
                 ELSE pc'[v] = pc[v] /\ task'[v] = task[v]
  <2>1. pc \in [Worker -> {"idle", "attempt", "running", "isolate", "send",
                          "complete", "stopped"}]
    BY <1>1 DEF TypeOK
  <2>2. DOMAIN task = Worker
    BY <1>1 DEF TypeOK
  <2>3. QED
    BY <1>2, <2>1, <2>2
<1>4. WorkersTyped'
  BY <1>1, <1>2, <1>3, OptionsAssumption DEF TypeOK, WorkersTyped
<1>5. ASSUME handled \subseteq handled', deadLettered \subseteq deadLettered'
      PROVE  CompletedSettled'
  BY <1>1, <1>3, <1>5 DEF CompletedSettled, Settled, RecordOf
<1>6. QED
  BY <1>4, <1>5

LEMMA BecomeIdle ==
  ASSUME NEW w \in Worker, IInv, Become(w, "idle", NoTask, 0)
  PROVE  WorkersTyped' /\ (handled \subseteq handled' /\ deadLettered \subseteq deadLettered'
                             => CompletedSettled')
<1>1. TypeOK /\ CompletedSettled
  BY DEF IInv
<1>2. /\ task' = [task EXCEPT ![w] = NoTask] /\ pc' = [pc EXCEPT ![w] = "idle"]
      /\ attempt' = [attempt EXCEPT ![w] = 0]
  BY DEF Become
<1>3. \A v \in Worker :
        IF v = w THEN pc'[v] = "idle" /\ task'[v] = NoTask
                 ELSE pc'[v] = pc[v] /\ task'[v] = task[v]
  <2>1. pc \in [Worker -> {"idle", "attempt", "running", "isolate", "send",
                          "complete", "stopped"}]
    BY <1>1 DEF TypeOK
  <2>2. DOMAIN task = Worker
    BY <1>1 DEF TypeOK
  <2>3. QED
    BY <1>2, <2>1, <2>2
<1>4. WorkersTyped'
  BY <1>1, <1>2, <1>3, OptionsAssumption DEF TypeOK, WorkersTyped
<1>5. ASSUME handled \subseteq handled', deadLettered \subseteq deadLettered'
      PROVE  CompletedSettled'
  BY <1>1, <1>3, <1>5 DEF CompletedSettled, Settled, RecordOf
<1>6. QED
  BY <1>4, <1>5

LEMMA MoveOn ==
  ASSUME NEW w \in Worker, IInv, pc[w] \notin {"idle", "stopped"},
         NEW label \in {"running", "send", "complete", "isolate"},
         pc' = [pc EXCEPT ![w] = label], UNCHANGED <<task, attempt>>,
         handled \subseteq handled', deadLettered \subseteq deadLettered',
         label = "complete" => RecordOf(task[w]) \in Settled'
  PROVE  WorkersTyped' /\ CompletedSettled'
<1>1. TypeOK /\ CompletedSettled
  BY DEF IInv
<1>2. \A v \in Worker : IF v = w THEN pc'[v] = label ELSE pc'[v] = pc[v]
  BY <1>1 DEF TypeOK
<1>3. WorkersTyped'
  BY <1>1, <1>2 DEF TypeOK, WorkersTyped
<1>4. CompletedSettled'
  BY <1>1, <1>2 DEF CompletedSettled, Settled, RecordOf
<1>5. QED
  BY <1>3, <1>4

(* What a step of a worker other than CompleteTask preserves the rest by.  *)
LEMMA WorkerStepIInv ==
  ASSUME IInv, UNCHANGED <<sessionVars, claimVars, brokerVars, committer, closed>>,
         WorkersTyped', CompletedSettled',
         queue' \in Seq(Task), Len(queue') <= QueueSize, inFlight' \in Int, waiting' \in Int,
         handled \subseteq handled', handled' \subseteq Record,
         deadLettered \subseteq deadLettered', deadLettered' \subseteq Record
  PROVE  IInv'
<1>1. TypeOK'
  BY DEF IInv, TypeOK, WorkersTyped, sessionVars, claimVars, brokerVars
<1>2. ClaimsNeedSession' /\ \A p \in Partition : PartitionInv(p)'
  BY PartitionsKept DEF Settled
<1>3. QED
  BY <1>1, <1>2 DEF IInv

LEMMA RecordType ==
  ASSUME IInv, NEW w \in Worker, pc[w] \notin {"idle", "stopped"}
  PROVE  task[w] \in Task /\ RecordOf(task[w]) \in Record
  BY DEF IInv, TypeOK, Task, Record, RecordOf

LEMMA StartTaskIInv ==
  ASSUME NEW w \in Worker, IInv, StartTask(w)
  PROVE  IInv'
<1>1. queue \in Seq(Task) /\ Len(queue) <= QueueSize /\ queue # <<>> /\ waiting \in Int
  BY DEF IInv, TypeOK, StartTask
<1>2. Head(queue) \in Task /\ Tail(queue) \in Seq(Task) /\ Len(Tail(queue)) <= QueueSize
  BY <1>1, OptionsAssumption
<1>3. waiting' \in Int
  BY <1>1 DEF StartTask
<1>4. UNCHANGED <<handled, deadLettered>>
  BY DEF StartTask, outcomeVars
<1>5. 1 \in 0 .. MaxAttempts
  BY OptionsAssumption
<1>6. \E label \in {"attempt", "isolate"} : Become(w, label, Head(queue), 1)
  BY DEF StartTask
<1>7. WorkersTyped' /\ CompletedSettled'
  BY <1>2, <1>4, <1>5, <1>6, BecomeBusy
<1>8. queue' = Tail(queue) /\ inFlight' \in Int
  BY DEF IInv, TypeOK, StartTask
<1>9. handled' \subseteq Record /\ deadLettered' \subseteq Record
  BY <1>4 DEF IInv, TypeOK
<1>10. QED
  BY <1>2, <1>3, <1>4, <1>7, <1>8, <1>9, WorkerStepIInv DEF StartTask

LEMMA AbandonTaskIInv ==
  ASSUME NEW w \in Worker, IInv, AbandonTask(w)
  PROVE  IInv'
<1>1. Become(w, "idle", NoTask, 0) /\ UNCHANGED <<queue, inFlight, waiting, handled, deadLettered>>
  BY DEF AbandonTask, gateVars, outcomeVars
<1>2. WorkersTyped' /\ CompletedSettled'
  BY <1>1, BecomeIdle
<1>3. /\ queue' \in Seq(Task) /\ Len(queue') <= QueueSize /\ inFlight' \in Int /\ waiting' \in Int
      /\ handled' \subseteq Record /\ deadLettered' \subseteq Record
  BY <1>1 DEF IInv, TypeOK
<1>4. QED
  BY <1>1, <1>2, <1>3, WorkerStepIInv DEF AbandonTask

LEMMA CallHandlerIInv ==
  ASSUME NEW w \in Worker, IInv, CallHandler(w)
  PROVE  IInv'
<1>1. /\ pc[w] = "attempt" /\ pc' = [pc EXCEPT ![w] = "running"]
      /\ UNCHANGED <<queue, task, attempt, inFlight, waiting, handled, deadLettered>>
  BY DEF CallHandler, gateVars, outcomeVars
<1>2. WorkersTyped' /\ CompletedSettled'
  BY <1>1, MoveOn
<1>3. /\ queue' \in Seq(Task) /\ Len(queue') <= QueueSize /\ inFlight' \in Int /\ waiting' \in Int
      /\ handled' \subseteq Record /\ deadLettered' \subseteq Record
  BY <1>1 DEF IInv, TypeOK
<1>4. QED
  BY <1>1, <1>2, <1>3, WorkerStepIInv DEF CallHandler

LEMMA HandlerSucceedsIInv ==
  ASSUME NEW w \in Worker, IInv, HandlerSucceeds(w)
  PROVE  IInv'
<1>1. /\ pc[w] = "running" /\ pc' = [pc EXCEPT ![w] = "complete"]
      /\ handled' = handled \cup {RecordOf(task[w])}
      /\ UNCHANGED <<queue, task, attempt, inFlight, waiting, deadLettered>>
  BY DEF HandlerSucceeds, gateVars
<1>2. RecordOf(task[w]) \in Record
  BY <1>1, RecordType
<1>3. WorkersTyped' /\ CompletedSettled'
  BY <1>1, MoveOn DEF Settled
<1>4. /\ queue' \in Seq(Task) /\ Len(queue') <= QueueSize /\ inFlight' \in Int /\ waiting' \in Int
      /\ handled' \subseteq Record /\ deadLettered' \subseteq Record
  BY <1>1, <1>2 DEF IInv, TypeOK
<1>5. QED
  BY <1>1, <1>3, <1>4, WorkerStepIInv DEF HandlerSucceeds

LEMMA HandlerFailsIInv ==
  ASSUME NEW w \in Worker, IInv, HandlerFails(w)
  PROVE  IInv'
<1>1. /\ pc[w] = "running"
      /\ UNCHANGED <<queue, inFlight, waiting, handled, deadLettered>>
  BY DEF HandlerFails, gateVars, outcomeVars
<1>2. PICK label \in {"attempt", "isolate"}, n \in 0 .. MaxAttempts :
        Become(w, label, task[w], n)
  <2>1. attempt[w] \in 0 .. MaxAttempts /\ Retry(w)
    BY DEF IInv, TypeOK, HandlerFails
  <2>2. CASE attempt[w] >= MaxAttempts
    BY <2>1, <2>2 DEF Retry
  <2>3. CASE ~ (attempt[w] >= MaxAttempts)
    <3>1. attempt[w] + 1 \in 0 .. MaxAttempts
      BY <2>1, <2>3, OptionsAssumption
    <3>2. QED
      BY <2>1, <2>3, <3>1 DEF Retry
  <2>4. QED
    BY <2>2, <2>3
<1>3. WorkersTyped' /\ CompletedSettled'
  BY <1>1, <1>2, BecomeBusy, RecordType
<1>4. /\ queue' \in Seq(Task) /\ Len(queue') <= QueueSize /\ inFlight' \in Int /\ waiting' \in Int
      /\ handled' \subseteq Record /\ deadLettered' \subseteq Record
  BY <1>1 DEF IInv, TypeOK
<1>5. QED
  BY <1>1, <1>3, <1>4, WorkerStepIInv DEF HandlerFails

LEMMA SendDeadLetterIInv ==
  ASSUME NEW w \in Worker, IInv, SendDeadLetter(w)
  PROVE  IInv'
<1>1. /\ pc[w] = "isolate" /\ pc' = [pc EXCEPT ![w] = "send"]
      /\ UNCHANGED <<queue, task, attempt, inFlight, waiting, handled, deadLettered>>
  BY DEF SendDeadLetter, gateVars, outcomeVars
<1>2. WorkersTyped' /\ CompletedSettled'
  BY <1>1, MoveOn
<1>3. /\ queue' \in Seq(Task) /\ Len(queue') <= QueueSize /\ inFlight' \in Int /\ waiting' \in Int
      /\ handled' \subseteq Record /\ deadLettered' \subseteq Record
  BY <1>1 DEF IInv, TypeOK
<1>4. QED
  BY <1>1, <1>2, <1>3, WorkerStepIInv DEF SendDeadLetter

LEMMA DeadLetterStoredIInv ==
  ASSUME NEW w \in Worker, IInv, DeadLetterStored(w)
  PROVE  IInv'
<1>1. /\ pc[w] = "send" /\ pc' = [pc EXCEPT ![w] = "complete"]
      /\ deadLettered' = deadLettered \cup {RecordOf(task[w])}
      /\ UNCHANGED <<queue, task, attempt, inFlight, waiting, handled>>
  BY DEF DeadLetterStored, gateVars
<1>2. RecordOf(task[w]) \in Record
  BY <1>1, RecordType
<1>3. WorkersTyped' /\ CompletedSettled'
  BY <1>1, MoveOn DEF Settled
<1>4. /\ queue' \in Seq(Task) /\ Len(queue') <= QueueSize /\ inFlight' \in Int /\ waiting' \in Int
      /\ handled' \subseteq Record /\ deadLettered' \subseteq Record
  BY <1>1, <1>2 DEF IInv, TypeOK
<1>5. QED
  BY <1>1, <1>3, <1>4, WorkerStepIInv DEF DeadLetterStored

LEMMA DeadLetterFailsIInv ==
  ASSUME NEW w \in Worker, IInv, DeadLetterFails(w)
  PROVE  IInv'
<1>1. /\ pc[w] = "send" /\ pc' = [pc EXCEPT ![w] = "isolate"]
      /\ deadLettered' \in {deadLettered, deadLettered \cup {RecordOf(task[w])}}
      /\ UNCHANGED <<queue, task, attempt, inFlight, waiting, handled>>
  BY DEF DeadLetterFails, gateVars
<1>2. RecordOf(task[w]) \in Record
  BY <1>1, RecordType
<1>3. WorkersTyped' /\ CompletedSettled'
  BY <1>1, MoveOn
<1>4. /\ queue' \in Seq(Task) /\ Len(queue') <= QueueSize /\ inFlight' \in Int /\ waiting' \in Int
      /\ handled' \subseteq Record /\ deadLettered' \subseteq Record
  BY <1>1, <1>2 DEF IInv, TypeOK
<1>5. QED
  BY <1>1, <1>3, <1>4, WorkerStepIInv DEF DeadLetterFails

LEMMA StopWorkerIInv ==
  ASSUME NEW w \in Worker, IInv, StopWorker(w)
  PROVE  IInv'
<1>1. /\ pc[w] = "idle" /\ pc' = [pc EXCEPT ![w] = "stopped"]
      /\ UNCHANGED <<queue, task, attempt, inFlight, waiting, handled, deadLettered>>
  BY DEF StopWorker, gateVars, outcomeVars
<1>2. \A v \in Worker : IF v = w THEN pc'[v] = "stopped" ELSE pc'[v] = pc[v]
  BY <1>1 DEF IInv, TypeOK
<1>3. WorkersTyped' /\ CompletedSettled'
  BY <1>1, <1>2 DEF IInv, TypeOK, WorkersTyped, CompletedSettled, Settled, RecordOf
<1>4. /\ queue' \in Seq(Task) /\ Len(queue') <= QueueSize /\ inFlight' \in Int /\ waiting' \in Int
      /\ handled' \subseteq Record /\ deadLettered' \subseteq Record
  BY <1>1 DEF IInv, TypeOK
<1>5. QED
  BY <1>1, <1>3, <1>4, WorkerStepIInv DEF StopWorker

(* What the committer of p has finished once a settled offset o completes  *)
(* is settled.                                                             *)
LEMMA FinishedSettled ==
  ASSUME NEW p \in Partition, IInv, NEW o, <<p, o>> \in Settled,
         NEW k \in Log[p], Finished(committer[p], o, k)
  PROVE  <<p, k>> \in Settled
  BY DEF IInv, PartitionInv, PassedSettled, Finished

(* The offsets a committer holds are below the claim's high-water mark.    *)
LEMMA StatesBounded ==
  ASSUME NEW p \in Partition, IInv
  PROVE  LogEnd[p] \in Nat /\ \A k \in DOMAIN committer[p].states : k \in Log[p] /\ k < LogEnd[p]
  BY LogAssumption DEF IInv, PartitionInv, PassedSettled

(* The mark that the completion of a settled offset leaves is over settled *)
(* offsets, and is the old one or, while the claim is open, a later one.   *)
LEMMA MarkMessagesSettled ==
  ASSUME NEW p \in Partition, IInv, NEW o, NEW g, <<p, o>> \in Settled
  PROVE  LET m == MarkMessages(p, Marks(committer[p], o, g))
         IN  /\ m \in Nat /\ \A k \in Log[p] : k < m => <<p, k>> \in Settled
             /\ m = marked[p] \/ (m > marked[p] /\ claim[p] # "off")
<1> DEFINE c == committer[p]
           marks == Marks(c, o, g)
           ends == {m.offset + 1 : m \in {n \in marks : n.generation = generation}}
<1>1. c \in Committer(Offset, Generation) /\ Offset \subseteq Nat
  BY OffsetFacts DEF IInv, TypeOK
<1>2. marked[p] \in Nat /\ \A k \in Log[p] : k < marked[p] => <<p, k>> \in Settled
  BY DEF IInv, TypeOK, PartitionInv, AcknowledgedSettled
<1>3. ASSUME NEW m \in marks PROVE MarkCovers(c, o, g, m)
  BY <1>1, StatesBounded, MarksFinished
<1>4. ASSUME NEW e \in ends
      PROVE  /\ e \in Nat /\ e <= LogEnd[p] /\ claim[p] # "off"
             /\ \A k \in Log[p] : k < e => <<p, k>> \in Settled
  <2>1. PICK m \in marks : e = m.offset + 1
    OBVIOUS
  <2>2. m.offset \in Nat /\ m.offset < LogEnd[p]
    BY <1>3, StatesBounded, OffsetFacts DEF MarkCovers
  <2>3. c.initialized /\ LogEnd[p] \in Nat /\ claim[p] # "off"
    BY <1>3, StatesBounded DEF MarkCovers, IInv, PartitionInv, Owned
  <2>4. ASSUME NEW k \in Log[p], k < e PROVE <<p, k>> \in Settled
    <3>1. k \in Nat /\ k <= m.offset
      BY <2>1, <2>2, <2>4, OffsetFacts
    <3>2. k < c.nextOffset \/ Finished(c, o, k)
      BY <1>3, <3>1 DEF MarkCovers
    <3>3. QED
      BY <2>3, <3>2, FinishedSettled DEF IInv, PartitionInv, PassedSettled
  <2>5. QED
    BY <2>1, <2>2, <2>3, <2>4
<1> HIDE DEF ends
<1>5. CASE \E e \in ends : e > marked[p]
  <2>1. ends \subseteq Nat /\ ends # {} /\ LogEnd[p] \in Nat /\ \A e \in ends : e <= LogEnd[p]
    BY <1>4, <1>5, StatesBounded
  <2>2. \E e \in ends : \A f \in ends : f <= e
    BY <2>1, GreatestNatural
  <2>3. MarkMessages(p, marks) = CHOOSE e \in ends : \A f \in ends : f <= e
    BY <1>5 DEF MarkMessages, ends
  <2>4. MarkMessages(p, marks) \in ends /\ \A e \in ends : e <= MarkMessages(p, marks)
    BY <2>2, <2>3
  <2>5. MarkMessages(p, marks) > marked[p]
    <3>1. PICK e \in ends : e > marked[p]
      BY <1>5
    <3>2. e <= MarkMessages(p, marks) /\ e \in Nat /\ MarkMessages(p, marks) \in Nat
      BY <2>1, <2>4
    <3>3. QED
      BY <1>2, <3>1, <3>2
  <2>6. QED
    BY <1>4, <2>4, <2>5
<1>6. CASE ~ \E e \in ends : e > marked[p]
  <2>1. MarkMessages(p, marks) = marked[p]
    BY <1>6 DEF MarkMessages, ends
  <2>2. QED
    BY <1>2, <2>1
<1>7. QED
  BY <1>5, <1>6

LEMMA CompleteTaskIInv ==
  ASSUME NEW w \in Worker, IInv, CompleteTask(w)
  PROVE  IInv'
<1>1. PICK p \in Partition, o \in Offset, g \in Generation :
        task[w].partition = p /\ task[w].offset = o /\ task[w].generation = g
  BY RecordType DEF CompleteTask, Task
<1>2. <<p, o>> \in Settled
  BY <1>1 DEF IInv, CompletedSettled, CompleteTask, RecordOf
<1>3. PICK r : /\ r = Complete(committer[p], o, g)
               /\ Advanced(Offset, Generation, committer[p], o, r)
  <2>1. /\ committer[p] \in Committer(Offset, Generation)
        /\ Offset \subseteq Nat /\ 0 \in Generation
    BY OffsetFacts DEF IInv, TypeOK
  <2>2. ~ committer[p].initialized => DOMAIN committer[p].states = {}
    BY DEF IInv, PartitionInv, Owned
  <2>3. QED
    BY <2>1, <2>2, StatesBounded, CompleteAdvances
<1>4. PICK m \in Nat : /\ m = MarkMessages(p, Marks(committer[p], o, g))
                       /\ \A k \in Log[p] : k < m => <<p, k>> \in Settled
                       /\ m >= marked[p]
  <2>1. marked[p] \in Nat
    BY DEF IInv, TypeOK
  <2>2. QED
    BY <1>2, <2>1, MarkMessagesSettled
<1>5. /\ committer' = [committer EXCEPT ![p] = r] /\ marked' = [marked EXCEPT ![p] = m]
      /\ UNCHANGED <<generation, phase, claim, fetch, inbound, committed, queue, closed,
                     handled, deadLettered>>
      /\ waiting' = WaitingAfter(task[w]) /\ inFlight' = inFlight - 1
      /\ Become(w, "idle", NoTask, 0)
  BY <1>1, <1>3, <1>4 DEF CompleteTask, sessionVars, claimVars, outcomeVars
<1>6. WorkersTyped' /\ CompletedSettled'
  BY <1>5, BecomeIdle
<1>7. TypeOK'
  <2>1. committer' \in [Partition -> Committer(Offset, Generation)]
    BY <1>3, <1>5 DEF IInv, TypeOK, Advanced
  <2>2. waiting' \in Int /\ inFlight' \in Int
    BY <1>5 DEF IInv, TypeOK, WaitingAfter
  <2>3. QED
    BY <1>5, <1>6, <2>1, <2>2 DEF IInv, TypeOK, WorkersTyped
<1>8. ASSUME NEW q \in Partition PROVE PartitionInv(q)'
  <2>1. PartitionInv(q)
    BY DEF IInv
  <2>2. CASE q = p
    <3>1. committer'[p] = r /\ marked'[p] = m
      BY <1>5 DEF IInv, TypeOK
    <3>2. \A k \in Log[p] : Finished(committer[p], o, k) => <<p, k>> \in Settled
      BY <1>2, FinishedSettled
    <3>3. AcknowledgedSettled(p)'
      BY <1>4, <1>5, <2>1, <2>2, <3>1
         DEF IInv, TypeOK, PartitionInv, AcknowledgedSettled, Settled
    <3>4. FetchedAccounted(p)'
      <4>1. \A k \in DOMAIN committer[p].states \ DOMAIN r.states :
              k \in Log[p] => <<p, k>> \in Settled
        BY <1>3, <3>2 DEF Advanced
      <4>2. QED
        BY <1>5, <2>1, <2>2, <3>1, <4>1 DEF PartitionInv, FetchedAccounted, Settled
    <3>5. InboundFetched(p)'
      BY <1>5, <2>1, <2>2 DEF PartitionInv, InboundFetched
    <3>6. PassedSettled(p)'
      <4>1. DOMAIN r.states \subseteq Log[p]
        BY <1>3, StatesBounded DEF Advanced
      <4>2. \A k \in Log[p] : IsDone(r, k) => <<p, k>> \in Settled
        BY <1>3, <3>2 DEF Advanced, IsDone
      <4>3. r.initialized => \A k \in Log[p] : k < r.nextOffset => <<p, k>> \in Settled
        BY <1>3, <2>1, <2>2, <3>2, OffsetFacts DEF Advanced, PartitionInv, PassedSettled
      <4>4. QED
        BY <1>5, <3>1, <4>1, <4>2, <4>3 DEF PassedSettled, Settled
    <3>7. Owned(p)'
      BY <1>3, <1>5, <2>1, <2>2, <3>1 DEF PartitionInv, Owned, Advanced
    <3>8. QED
      BY <2>2, <3>3, <3>4, <3>5, <3>6, <3>7 DEF PartitionInv
  <2>3. CASE q # p
    <3>1. committer'[q] = committer[q] /\ marked'[q] = marked[q]
      BY <1>5, <2>3 DEF IInv, TypeOK
    <3>2. QED
      BY <1>5, <2>1, <3>1 DEF PartitionInv, AcknowledgedSettled, FetchedAccounted,
         InboundFetched, PassedSettled, Owned, Settled, IsDone
  <2>4. QED
    BY <2>2, <2>3
<1>9. ClaimsNeedSession'
  BY <1>5 DEF IInv, ClaimsNeedSession
<1>10. QED
  BY <1>6, <1>7, <1>8, <1>9 DEF IInv

-----------------------------------------------------------------------------
(* The theorems.                                                           *)

LEMMA NextIInv == IInv /\ [Next]_vars => IInv'
<1> SUFFICES ASSUME IInv, [Next]_vars PROVE IInv'
  OBVIOUS
<1>1. CASE StartSession \/ CancelSession \/ ReleaseSession \/ Crash \/ ClosePool
  BY <1>1, StartSessionIInv, CancelSessionIInv, ReleaseSessionIInv, CrashIInv, ClosePoolIInv
<1>2. ASSUME NEW p \in Partition, CommitMark(p) \/ ConsumeClaim(p)
      PROVE  IInv'
  BY <1>2, CommitMarkIInv, ReceiveMessageIInv, RegisterOffsetIInv, SubmitTaskIInv,
     LeaveClaimIInv, ReturnClaimIInv DEF ConsumeClaim
<1>3. ASSUME NEW w \in Worker, RunWorker(w)
      PROVE  IInv'
  BY <1>3, StartTaskIInv, AbandonTaskIInv, CallHandlerIInv, HandlerSucceedsIInv,
     HandlerFailsIInv, SendDeadLetterIInv, DeadLetterStoredIInv, DeadLetterFailsIInv,
     CompleteTaskIInv, StopWorkerIInv DEF RunWorker
<1>4. CASE UNCHANGED vars
  <2>1. UNCHANGED <<sessionVars, claimVars, brokerVars, committer, queue, closed,
                    workerVars, gateVars, outcomeVars>>
    BY <1>4 DEF vars
  <2>2. WorkersTyped' /\ CompletedSettled'
    BY <2>1 DEF IInv, TypeOK, WorkersTyped, CompletedSettled, Settled, RecordOf,
       workerVars, outcomeVars
  <2>3. /\ queue' \in Seq(Task) /\ Len(queue') <= QueueSize /\ inFlight' \in Int
        /\ waiting' \in Int /\ handled' = handled /\ deadLettered' = deadLettered
        /\ handled' \subseteq Record /\ deadLettered' \subseteq Record
    BY <2>1 DEF IInv, TypeOK, gateVars, outcomeVars
  <2>4. QED
    BY <2>1, <2>2, <2>3, WorkerStepIInv
<1>5. QED
  BY <1>1, <1>2, <1>3, <1>4 DEF Next

(* The strengthened invariant: a record a claim has fetched is settled,    *)
(* pending in its committer, or about to be registered, and a committer    *)
(* has passed only settled records.                                        *)
THEOREM Inductive == Spec => []IInv
<1>1. Init => IInv
  BY InitIInv
<1>2. IInv /\ [Next]_vars => IInv'
  BY NextIInv
<1>3. QED
  BY <1>1, <1>2, PTL DEF Spec

(* Every variable keeps its type.                                          *)
THEOREM TypeCorrect == Spec => []TypeOK
<1>1. IInv => TypeOK
  BY DEF IInv
<1>2. QED
  BY <1>1, Inductive, PTL

(* Neither a session mark nor a committed offset ever passes a record that *)
(* no handler has processed and no dead-letter topic holds.                *)
THEOREM NothingSkipped == Spec => []OnlySettledAcknowledged
<1>1. IInv => OnlySettledAcknowledged
  <2> SUFFICES ASSUME IInv, NEW p \in Partition, NEW o \in Log[p],
                      o < marked[p] \/ o < committed[p]
               PROVE  <<p, o>> \in Settled
    BY DEF OnlySettledAcknowledged
  <2>1. marked[p] \in Nat /\ committed[p] \in Nat /\ o \in Nat /\ committed[p] <= marked[p]
    BY OffsetFacts DEF IInv, TypeOK, PartitionInv, AcknowledgedSettled
  <2>2. QED
    BY <2>1 DEF IInv, PartitionInv, AcknowledgedSettled
<1>2. QED
  BY <1>1, Inductive, PTL

(* Committers hold offsets of the open claim's generation and no other.    *)
THEOREM OneGenerationPerCommitter == Spec => []CommitterOwnedByClaim
<1>1. IInv => CommitterOwnedByClaim
  BY DEF IInv, PartitionInv, Owned, CommitterOwnedByClaim
<1>2. QED
  BY <1>1, Inductive, PTL

-----------------------------------------------------------------------------
(* The pipeline implements at-least-once consumption.                      *)

(* A worker whose handler or dead-letter write succeeds settles its record. *)
LEMMA SettleStep ==
  ASSUME IInv, NEW w \in Worker, pc[w] \notin {"idle", "stopped"}, UNCHANGED committed,
         Settled' = Settled \cup {RecordOf(task[w])}
  PROVE  Abstract!Next
<1>1. PICK p \in Partition : \E o \in Log[p] : RecordOf(task[w]) = <<p, o>>
  BY RecordType DEF Task, RecordOf
<1>2. PICK o \in Log[p] : RecordOf(task[w]) = <<p, o>>
  BY <1>1
<1>3. Abstract!Settle(p, o)
  BY <1>2 DEF Abstract!Settle
<1>4. QED
  BY <1>3 DEF Abstract!Next

(* A commit moves the frontier to the mark, or leaves it where it is.      *)
LEMMA CommitStep ==
  ASSUME NEW p \in Partition, IInv, CommitMark(p)
  PROVE  [Abstract!Next]_(Abstract!vars)
<1>1. /\ committed' = [committed EXCEPT ![p] = marked[p]]
      /\ UNCHANGED <<handled, deadLettered>>
  BY DEF CommitMark, outcomeVars
<1>2. /\ committed \in [Partition -> Nat] /\ marked[p] \in Nat /\ committed[p] <= marked[p]
      /\ \A o \in Log[p] : o < marked[p] => <<p, o>> \in Settled
  BY DEF IInv, TypeOK, PartitionInv, AcknowledgedSettled
<1>3. committed'[p] = marked[p] /\ Settled' = Settled
  BY <1>1, <1>2 DEF Settled
<1>4. CASE marked[p] = committed[p]
  <2>1. committed' = committed
    BY <1>1, <1>2, <1>4
  <2>2. QED
    BY <1>3, <2>1 DEF Abstract!vars
<1>5. CASE marked[p] # committed[p]
  <2>1. Abstract!Acknowledge(p)
    BY <1>1, <1>2, <1>3, <1>5 DEF Abstract!Acknowledge
  <2>2. QED
    BY <2>1 DEF Abstract!Next
<1>6. QED
  BY <1>4, <1>5

LEMMA StepImplements == IInv /\ [Next]_vars => [Abstract!Next]_(Abstract!vars)
<1> SUFFICES ASSUME IInv, [Next]_vars PROVE [Abstract!Next]_(Abstract!vars)
  OBVIOUS
<1>1. CASE UNCHANGED <<committed, handled, deadLettered>>
  BY <1>1 DEF Abstract!vars, Settled
<1>2. CASE \E p \in Partition : CommitMark(p)
  BY <1>2, CommitStep
<1>3. ASSUME NEW w \in Worker, HandlerSucceeds(w)
      PROVE  Abstract!Next
  BY <1>3, SettleStep DEF HandlerSucceeds, Settled, brokerVars
<1>4. ASSUME NEW w \in Worker, DeadLetterStored(w)
      PROVE  Abstract!Next
  BY <1>4, SettleStep DEF DeadLetterStored, Settled, brokerVars
<1>5. ASSUME NEW w \in Worker, DeadLetterFails(w)
      PROVE  [Abstract!Next]_(Abstract!vars)
  <2>1. pc[w] = "send" /\ UNCHANGED <<committed, handled>>
    BY <1>5 DEF DeadLetterFails, brokerVars
  <2>2. CASE deadLettered' = deadLettered
    BY <2>1, <2>2, <1>1
  <2>3. CASE deadLettered' = deadLettered \cup {RecordOf(task[w])}
    BY <2>1, <2>3, SettleStep DEF Settled
  <2>4. QED
    BY <1>5, <2>2, <2>3 DEF DeadLetterFails
<1>6. CASE StartSession \/ CancelSession \/ ReleaseSession \/ Crash \/ ClosePool
  BY <1>1, <1>6 DEF StartSession, CancelSession, ReleaseSession, Crash, ClosePool,
     brokerVars, outcomeVars
<1>7. ASSUME NEW p \in Partition, ConsumeClaim(p)
      PROVE  UNCHANGED <<committed, handled, deadLettered>>
  BY <1>7 DEF ConsumeClaim, ReceiveMessage, RegisterOffset, SubmitTask, LeaveClaim,
     ReturnClaim, brokerVars, outcomeVars
<1>8. ASSUME NEW w \in Worker, RunWorker(w),
             ~ HandlerSucceeds(w), ~ DeadLetterStored(w), ~ DeadLetterFails(w)
      PROVE  UNCHANGED <<committed, handled, deadLettered>>
  BY <1>8 DEF RunWorker, StartTask, AbandonTask, CallHandler, HandlerFails,
     SendDeadLetter, CompleteTask, StopWorker, brokerVars, outcomeVars
<1>9. CASE UNCHANGED vars
  BY <1>1, <1>9 DEF vars, brokerVars, outcomeVars
<1>10. QED
  BY <1>1, <1>2, <1>3, <1>4, <1>5, <1>6, <1>7, <1>8, <1>9 DEF Next

(* Whatever the interleaving, rebalances and crashes, the provider does    *)
(* nothing that at-least-once consumption does not allow.                  *)
THEOREM Implementation == Spec => ImplementsAtLeastOnce
<1>1. Init => Abstract!Init
  BY DEF Init, Abstract!Init, Settled
<1>2. IInv /\ [Next]_vars => [Abstract!Next]_(Abstract!vars)
  BY StepImplements
<1>3. QED
  BY <1>1, <1>2, Inductive, PTL DEF Spec, ImplementsAtLeastOnce, Abstract!Spec

-----------------------------------------------------------------------------
(* A mark moves forward inside an open claim, and otherwise only when a    *)
(* new session resets it to what is committed.                             *)
THEOREM MarksNeedAnOpenClaim == Spec => MarksInsideOpenClaim
<1> DEFINE Moves(p) ==
             marked'[p] # marked[p] =>
               \/ claim[p] # "off" /\ generation' = generation /\ marked'[p] > marked[p]
               \/ generation' # generation /\ marked'[p] = committed[p]
<1>1. ASSUME IInv, [Next]_vars, NEW p \in Partition PROVE Moves(p)
  <2>1. CASE StartSession
    BY <1>1, <2>1 DEF IInv, TypeOK, StartSession, ResumeOffset, Generation
  <2>2. ASSUME NEW w \in Worker, CompleteTask(w) PROVE Moves(p)
    <3>1. PICK q \in Partition, o \in Offset, g \in Generation :
            task[w].partition = q /\ task[w].offset = o /\ task[w].generation = g
      BY <1>1, <2>2, RecordType DEF CompleteTask, Task
    <3>2. <<q, o>> \in Settled
      BY <1>1, <2>2, <3>1 DEF IInv, CompletedSettled, CompleteTask, RecordOf
    <3>3. PICK m \in Nat : /\ m = MarkMessages(q, Marks(committer[q], o, g))
                           /\ m = marked[q] \/ (m > marked[q] /\ claim[q] # "off")
      BY <1>1, <3>2, MarkMessagesSettled
    <3>4. marked' = [marked EXCEPT ![q] = m] /\ generation' = generation
      BY <2>2, <3>1, <3>3 DEF CompleteTask, sessionVars
    <3>5. QED
      BY <1>1, <3>3, <3>4 DEF IInv, TypeOK
  <2>3. CASE UNCHANGED marked
    BY <2>3
  <2>4. CASE CancelSession \/ ReleaseSession \/ Crash \/ ClosePool
    BY <2>3, <2>4 DEF CancelSession, ReleaseSession, Crash, ClosePool, brokerVars
  <2>5. ASSUME NEW q \in Partition, CommitMark(q) \/ ConsumeClaim(q) PROVE UNCHANGED marked
    BY <2>5 DEF CommitMark, ConsumeClaim, ReceiveMessage, RegisterOffset, SubmitTask,
       LeaveClaim, ReturnClaim, brokerVars
  <2>6. ASSUME NEW w \in Worker, RunWorker(w), ~ CompleteTask(w) PROVE UNCHANGED marked
    BY <2>6 DEF RunWorker, StartTask, AbandonTask, CallHandler, HandlerSucceeds,
       HandlerFails, SendDeadLetter, DeadLetterStored, DeadLetterFails, StopWorker,
       brokerVars
  <2>7. CASE UNCHANGED vars
    BY <2>3, <2>7 DEF vars, brokerVars
  <2> HIDE DEF Moves
  <2>8. QED
    BY <1>1, <2>1, <2>2, <2>3, <2>4, <2>5, <2>6, <2>7 DEF Next
<1>2. IInv /\ [Next]_vars => [\A p \in Partition : Moves(p)]_vars
  BY <1>1
<1>3. QED
  BY <1>2, Inductive, PTL DEF Spec, MarksInsideOpenClaim

-----------------------------------------------------------------------------
(* The gate counters.                                                      *)

(* A set and the same set after one element may have come or gone.         *)
LEMMA OneMoves ==
  ASSUME NEW S, NEW T, NEW x, IsFiniteSet(S), IsFiniteSet(T), S \ {x} = T \ {x}
  PROVE  /\ Cardinality(S) \in Nat /\ Cardinality(T) \in Nat
         /\ Cardinality(T) + (IF x \in S THEN 1 ELSE 0)
              = Cardinality(S) + (IF x \in T THEN 1 ELSE 0)
<1>1. ASSUME NEW U, IsFiniteSet(U)
      PROVE  /\ Cardinality(U) \in Nat /\ Cardinality(U \ {x}) \in Nat
             /\ Cardinality(U) = Cardinality(U \ {x}) + (IF x \in U THEN 1 ELSE 0)
  <2> DEFINE V == U \ {x}
  <2>1. Cardinality(U) \in Nat
    BY <1>1, FS_CardinalityType
  <2>2. ASSUME x \in U
        PROVE  Cardinality(V) = Cardinality(U) - 1 /\ Cardinality(V) \in Nat
    BY <1>1, <2>2, FS_RemoveElement, FS_CardinalityType
  <2>3. ASSUME x \notin U PROVE V = U
    BY <2>3
  <2> HIDE DEF V
  <2>4. Cardinality(V) \in Nat /\ Cardinality(U) = Cardinality(V) + (IF x \in U THEN 1 ELSE 0)
    BY <2>1, <2>2, <2>3
  <2>5. QED
    BY <2>1, <2>4 DEF V
<1> DEFINE s == S \ {x}
           t == T \ {x}
<1>2. /\ Cardinality(S) \in Nat /\ Cardinality(s) \in Nat
      /\ Cardinality(S) = Cardinality(s) + (IF x \in S THEN 1 ELSE 0)
  BY <1>1
<1>3. /\ Cardinality(T) \in Nat /\ Cardinality(t) \in Nat
      /\ Cardinality(T) = Cardinality(t) + (IF x \in T THEN 1 ELSE 0)
  BY <1>1
<1>4. s = t
  OBVIOUS
<1> HIDE DEF s, t
<1>5. QED
  BY <1>2, <1>3, <1>4

Submitting == {p \in Partition : claim[p] = "submit"}

LEMMA GateSetsFinite ==
  /\ IsFiniteSet(Working) /\ IsFiniteSet(OpenTasks) /\ IsFiniteSet(Submitting)
  /\ Cardinality(Working) \in Nat /\ Cardinality(OpenTasks) \in Nat
  /\ Cardinality(Submitting) \in Nat
<1>1. IsFiniteSet(Working) /\ IsFiniteSet(OpenTasks) /\ IsFiniteSet(Submitting)
  BY FS_Subset, LogAssumption, OptionsAssumption DEF Working, OpenTasks, Submitting
<1>2. QED
  BY <1>1, FS_CardinalityType

(* A claim's step changes who is in Submit at its own partition only.      *)
LEMMA SubmittingMoves ==
  ASSUME NEW p \in Partition, \A q \in Partition : q # p => claim'[q] = claim[q]
  PROVE  Cardinality(Submitting') + (IF claim[p] = "submit" THEN 1 ELSE 0)
           = Cardinality(Submitting) + (IF claim'[p] = "submit" THEN 1 ELSE 0)
<1> DEFINE S == Submitting
           T == Submitting'
<1>1. S \ {p} = T \ {p} /\ (p \in S <=> claim[p] = "submit") /\ (p \in T <=> claim'[p] = "submit")
  BY DEF Submitting
<1>2. IsFiniteSet(S) /\ IsFiniteSet(T)
  BY FS_Subset, LogAssumption DEF Submitting
<1> HIDE DEF S, T
<1>3. Cardinality(T) + (IF p \in S THEN 1 ELSE 0) = Cardinality(S) + (IF p \in T THEN 1 ELSE 0)
  BY <1>1, <1>2, OneMoves
<1>4. QED
  BY <1>1, <1>3 DEF S, T

(* A worker's step changes who works, and on what, at itself only.         *)
Busy(w) == pc[w] \notin {"idle", "stopped"}
OpenAt(w) == Busy(w) /\ ~ IsMalformed(task[w])

LEMMA WorkingMoves ==
  ASSUME NEW w \in Worker, \A v \in Worker : v # w => pc'[v] = pc[v] /\ task'[v] = task[v]
  PROVE  /\ Cardinality(Working') \in Nat /\ Cardinality(OpenTasks') \in Nat
         /\ Cardinality(Working') + (IF Busy(w) THEN 1 ELSE 0)
              = Cardinality(Working) + (IF Busy(w)' THEN 1 ELSE 0)
         /\ Cardinality(OpenTasks') + (IF OpenAt(w) THEN 1 ELSE 0)
              = Cardinality(OpenTasks) + (IF OpenAt(w)' THEN 1 ELSE 0)
<1> DEFINE S == Working
           T == Working'
           O == OpenTasks
           P == OpenTasks'
<1>1. /\ S \ {w} = T \ {w} /\ (w \in S <=> Busy(w)) /\ (w \in T <=> Busy(w)')
      /\ O \ {w} = P \ {w} /\ (w \in O <=> OpenAt(w)) /\ (w \in P <=> OpenAt(w)')
  BY DEF Working, OpenTasks, Busy, OpenAt, IsMalformed
<1>2. IsFiniteSet(S) /\ IsFiniteSet(T) /\ IsFiniteSet(O) /\ IsFiniteSet(P)
  BY FS_Subset, OptionsAssumption DEF Working, OpenTasks
<1> HIDE DEF S, T, O, P
<1>3. /\ Cardinality(T) \in Nat
      /\ Cardinality(T) + (IF w \in S THEN 1 ELSE 0) = Cardinality(S) + (IF w \in T THEN 1 ELSE 0)
  BY <1>1, <1>2, OneMoves
<1>4. /\ Cardinality(P) \in Nat
      /\ Cardinality(P) + (IF w \in O THEN 1 ELSE 0) = Cardinality(O) + (IF w \in P THEN 1 ELSE 0)
  BY <1>1, <1>2, OneMoves
<1>5. QED
  BY <1>1, <1>3, <1>4 DEF S, T, O, P

LEMMA GateClaimStep ==
  ASSUME IInv, GateNeverUnderReports, NEW p \in Partition, CommitMark(p) \/ ConsumeClaim(p)
  PROVE  GateNeverUnderReports'
<1> DEFINE n == Cardinality(Submitting)
           m == Cardinality(Submitting')
<1>1. UNCHANGED <<pc, task, waiting>> /\ \A q \in Partition : q # p => claim'[q] = claim[q]
  BY DEF IInv, TypeOK, CommitMark, ConsumeClaim, ReceiveMessage, RegisterOffset, SubmitTask,
         LeaveClaim, ReturnClaim, workerVars, gateVars, claimVars
<1>2. n \in Nat /\ m \in Nat
  BY GateSetsFinite, FS_Subset, FS_CardinalityType, LogAssumption DEF Submitting
<1>3. m + (IF claim[p] = "submit" THEN 1 ELSE 0) = n + (IF claim'[p] = "submit" THEN 1 ELSE 0)
  BY <1>1, SubmittingMoves
<1>4. /\ inFlight >= Len(queue) + Cardinality(Working) + n
      /\ waiting >= Cardinality(OpenTasks)
  BY DEF GateNeverUnderReports, Submitting
<1>5. /\ inFlight \in Int /\ Len(queue) \in Nat /\ queue \in Seq(Task)
      /\ Cardinality(Working) \in Nat
      /\ claim \in [Partition -> {"off", "receive", "register", "submit", "return"}]
  BY GateSetsFinite DEF IInv, TypeOK
<1>6. Working' = Working /\ OpenTasks' = OpenTasks
  BY <1>1 DEF Working, OpenTasks, IsMalformed
<1> HIDE DEF n, m
<1>7. inFlight' >= Len(queue') + Cardinality(Working) + m
  <2>1. CASE SubmitTask(p)
    <3>1. /\ claim[p] = "submit" /\ claim'[p] = "receive" /\ inFlight' = inFlight
          /\ Len(queue') = Len(queue) + 1
      BY <1>5, <2>1 DEF SubmitTask, gateVars
    <3>2. QED
      BY <1>2, <1>3, <1>4, <1>5, <3>1
  <2>2. CASE RegisterOffset(p)
    <3>1. claim[p] = "register" /\ inFlight' = inFlight + 1 /\ queue' = queue
      BY <2>2 DEF RegisterOffset
    <3>2. QED
      BY <1>2, <1>3, <1>4, <1>5, <3>1
  <2>3. ASSUME CommitMark(p) \/ ReceiveMessage(p) \/ LeaveClaim(p) \/ ReturnClaim(p)
        PROVE  inFlight' >= Len(queue') + Cardinality(Working) + m
    <3>1. UNCHANGED <<inFlight, queue>>
      BY <2>3 DEF CommitMark, ReceiveMessage, LeaveClaim, ReturnClaim, gateVars
    <3>2. claim'[p] = claim[p] \/ claim'[p] # "submit"
      BY <1>5, <2>3 DEF CommitMark, ReceiveMessage, LeaveClaim, ReturnClaim, claimVars
    <3>3. QED
      BY <1>2, <1>3, <1>4, <1>5, <3>1, <3>2
  <2>4. QED
    BY <2>1, <2>2, <2>3 DEF ConsumeClaim
<1>8. QED
  BY <1>1, <1>4, <1>6, <1>7 DEF m, GateNeverUnderReports, Submitting

LEMMA GateWorkerStep ==
  ASSUME IInv, GateNeverUnderReports, NEW w \in Worker, RunWorker(w)
  PROVE  GateNeverUnderReports'
<1> DEFINE n == Cardinality(Submitting)
           busy == Cardinality(Working')
           open == Cardinality(OpenTasks')
<1>1. claim' = claim /\ \A v \in Worker : v # w => pc'[v] = pc[v] /\ task'[v] = task[v]
  BY DEF IInv, TypeOK, RunWorker, StartTask, AbandonTask, CallHandler, HandlerSucceeds,
         HandlerFails, Retry, SendDeadLetter, DeadLetterStored, DeadLetterFails, CompleteTask,
         StopWorker, Become, claimVars
<1>2. Submitting' = Submitting
  BY <1>1 DEF Submitting
<1>3. /\ busy \in Nat /\ open \in Nat
      /\ busy + (IF Busy(w) THEN 1 ELSE 0)
           = Cardinality(Working) + (IF Busy(w)' THEN 1 ELSE 0)
      /\ open + (IF OpenAt(w) THEN 1 ELSE 0)
           = Cardinality(OpenTasks) + (IF OpenAt(w)' THEN 1 ELSE 0)
  BY <1>1, WorkingMoves
<1>4. /\ inFlight >= Len(queue) + Cardinality(Working) + n
      /\ waiting >= Cardinality(OpenTasks)
  BY DEF GateNeverUnderReports, Submitting
<1>5. /\ inFlight \in Int /\ waiting \in Int /\ Len(queue) \in Nat /\ queue \in Seq(Task)
      /\ Cardinality(Working) \in Nat /\ Cardinality(OpenTasks) \in Nat /\ n \in Nat
      /\ pc \in [Worker -> {"idle", "attempt", "running", "isolate", "send",
                            "complete", "stopped"}]
      /\ task \in [Worker -> Task \cup {NoTask}]
  BY GateSetsFinite DEF IInv, TypeOK
<1> HIDE DEF n, busy, open
<1>6. inFlight' >= Len(queue') + busy + n /\ waiting' >= open
  <2>1. CASE StartTask(w)
    <3>1. /\ ~ Busy(w) /\ Busy(w)' /\ ~ OpenAt(w)
          /\ Len(queue') = Len(queue) - 1 /\ inFlight' = inFlight
          /\ OpenAt(w)' => waiting' = waiting + 1
          /\ ~ OpenAt(w)' => waiting' \in {waiting, waiting + 1}
      <4>1. /\ pc[w] = "idle" /\ queue # <<>> /\ queue' = Tail(queue) /\ inFlight' = inFlight
            /\ task'[w] = Head(queue) /\ pc'[w] \in {"isolate", "attempt"}
            /\ IF IsMalformed(Head(queue)) THEN waiting' = waiting ELSE waiting' = waiting + 1
        BY <1>5, <2>1 DEF StartTask, Become
      <4>2. Len(queue') = Len(queue) - 1
        BY <1>5, <4>1
      <4>3. QED
        BY <4>1, <4>2 DEF Busy, OpenAt, IsMalformed
    <3>2. QED
      BY <1>3, <1>4, <1>5, <3>1
  <2>2. CASE AbandonTask(w)
    <3>1. Busy(w) /\ ~ Busy(w)' /\ ~ OpenAt(w)' /\ UNCHANGED <<queue, inFlight, waiting>>
      BY <1>5, <2>2 DEF AbandonTask, Become, Busy, OpenAt, gateVars
    <3>2. QED
      BY <1>3, <1>4, <1>5, <3>1
  <2>3. CASE CompleteTask(w)
    <3>1. /\ Busy(w) /\ ~ Busy(w)' /\ ~ OpenAt(w)' /\ queue' = queue
          /\ inFlight' = inFlight - 1
          /\ waiting' = IF OpenAt(w) THEN waiting - 1 ELSE waiting
      BY <1>5, <2>3 DEF CompleteTask, WaitingAfter, Become, Busy, OpenAt
    <3>2. QED
      BY <1>3, <1>4, <1>5, <3>1
  <2>4. ASSUME \/ CallHandler(w) \/ HandlerSucceeds(w) \/ HandlerFails(w)
               \/ SendDeadLetter(w) \/ DeadLetterStored(w) \/ DeadLetterFails(w)
        PROVE  inFlight' >= Len(queue') + busy + n /\ waiting' >= open
    <3>1. Busy(w) /\ Busy(w)' /\ task'[w] = task[w] /\ UNCHANGED <<queue, inFlight, waiting>>
      BY <1>5, <2>4
      DEF CallHandler, HandlerSucceeds, HandlerFails, Retry, Become, SendDeadLetter,
          DeadLetterStored, DeadLetterFails, Busy, gateVars
    <3>2. OpenAt(w)' <=> OpenAt(w)
      BY <3>1 DEF OpenAt, IsMalformed
    <3>3. QED
      BY <1>3, <1>4, <1>5, <3>1, <3>2
  <2>5. CASE StopWorker(w)
    <3>1. ~ Busy(w) /\ ~ Busy(w)' /\ ~ OpenAt(w) /\ ~ OpenAt(w)'
          /\ UNCHANGED <<queue, inFlight, waiting>>
      BY <1>5, <2>5 DEF StopWorker, Busy, OpenAt, gateVars
    <3>2. QED
      BY <1>3, <1>4, <1>5, <3>1
  <2>6. QED
    BY <2>1, <2>2, <2>3, <2>4, <2>5 DEF RunWorker
<1>7. QED
  BY <1>2, <1>6 DEF n, busy, open, GateNeverUnderReports, Submitting

LEMMA GateStep == IInv /\ GateNeverUnderReports /\ [Next]_vars => GateNeverUnderReports'
<1> SUFFICES ASSUME IInv, GateNeverUnderReports, [Next]_vars PROVE GateNeverUnderReports'
  OBVIOUS
<1>1. CASE StartSession
  <2>1. UNCHANGED <<queue, pc, task, inFlight, waiting>>
    BY <1>1 DEF StartSession, workerVars, gateVars
  <2>2. {p \in Partition : claim'[p] = "submit"} = {p \in Partition : claim[p] = "submit"}
    BY <1>1 DEF StartSession, IInv, ClaimsNeedSession
  <2>3. QED
    BY <2>1, <2>2 DEF GateNeverUnderReports, Working, OpenTasks, IsMalformed
<1>2. ASSUME CancelSession \/ ReleaseSession \/ ClosePool \/ UNCHANGED vars
      PROVE  GateNeverUnderReports'
  <2>1. UNCHANGED <<queue, pc, task, inFlight, waiting, claim>>
    BY <1>2 DEF CancelSession, ReleaseSession, ClosePool, vars, workerVars, gateVars, claimVars
  <2>2. QED
    BY <2>1 DEF GateNeverUnderReports, Working, OpenTasks, IsMalformed
<1>3. CASE Crash
  <2>1. Working' = {} /\ OpenTasks' = {} /\ {p \in Partition : claim'[p] = "submit"} = {}
        /\ queue' = <<>> /\ inFlight' = 0 /\ waiting' = 0
    BY <1>3 DEF Crash, Working, OpenTasks
  <2>2. /\ Cardinality(Working') = 0 /\ Cardinality(OpenTasks') = 0 /\ Len(queue') = 0
        /\ Cardinality({p \in Partition : claim'[p] = "submit"}) = 0
    BY <2>1, FS_EmptySet
  <2>3. QED
    BY <2>1, <2>2 DEF GateNeverUnderReports
<1>4. QED
  BY <1>1, <1>2, <1>3, GateClaimStep, GateWorkerStep DEF Next

(* The counters that the protector compares with its thresholds may        *)
(* over-report (WaitingTasksExact) and never under-report, for any number  *)
(* of partitions, workers and sessions.                                    *)
THEOREM GateIsNeverLow == Spec => []GateNeverUnderReports
<1>1. Init => GateNeverUnderReports
  <2> SUFFICES ASSUME Init PROVE GateNeverUnderReports
    OBVIOUS
  <2>1. Working = {} /\ OpenTasks = {} /\ {p \in Partition : claim[p] = "submit"} = {}
    BY DEF Init, Working, OpenTasks
  <2>2. /\ Cardinality(Working) = 0 /\ Cardinality(OpenTasks) = 0
        /\ Cardinality({p \in Partition : claim[p] = "submit"}) = 0
    BY <2>1, FS_EmptySet
  <2>3. QED
    BY <2>2 DEF Init, GateNeverUnderReports
<1>2. QED
  BY <1>1, GateStep, Inductive, PTL DEF Spec

-----------------------------------------------------------------------------
(* The committers' bookkeeping.  A record is registered beyond all that    *)
(* are pending, because a claim's channel delivers in offset order: so     *)
(* nextOffset, the first that was registered, is the smallest pending one. *)
Bookkeeping(p) ==
  /\ Kept(committer[p])
  /\ claim[p] # "off" => \A k \in DOMAIN committer[p].states : k < fetch[p]
  /\ claim[p] = "register" => \A k \in DOMAIN committer[p].states : k < inbound[p]

BookInv == \A p \in Partition : Bookkeeping(p)

LEMMA BookKeptAlone ==
  ASSUME NEW p \in Partition, Bookkeeping(p), committer'[p] = committer[p], fetch'[p] = fetch[p],
         \/ claim'[p] = "off"
         \/ claim[p] # "off" /\ claim'[p] # "register"
         \/ claim'[p] = claim[p] /\ inbound'[p] = inbound[p]
  PROVE  Bookkeeping(p)'
<1>1. Kept(committer[p])'
  BY DEF Bookkeeping
<1>2. QED
  BY <1>1 DEF Bookkeeping

LEMMA ClosedHoldsNothing ==
  ASSUME IInv, NEW p \in Partition, claim[p] = "off"
  PROVE  DOMAIN committer[p].states = {}
  BY DEF IInv, PartitionInv, Owned

LEMMA BookSession ==
  ASSUME IInv, BookInv,
         StartSession \/ CancelSession \/ ReleaseSession \/ ClosePool \/ UNCHANGED vars
  PROVE  BookInv'
<1> SUFFICES ASSUME NEW p \in Partition PROVE Bookkeeping(p)'
  BY DEF BookInv
<1>1. CASE StartSession
  <2>1. committer' = committer /\ claim'[p] = "receive" /\ claim[p] = "off"
    BY <1>1 DEF StartSession, IInv, ClaimsNeedSession
  <2>2. DOMAIN committer'[p].states = {}
    BY <2>1, ClosedHoldsNothing
  <2>3. Kept(committer[p])'
    BY <2>1 DEF BookInv, Bookkeeping
  <2>4. QED
    BY <2>1, <2>2, <2>3 DEF Bookkeeping
<1>2. ASSUME CancelSession \/ ReleaseSession \/ ClosePool \/ UNCHANGED vars
      PROVE  Bookkeeping(p)'
  <2>1. UNCHANGED <<claim, fetch, inbound, committer>>
    BY <1>2 DEF CancelSession, ReleaseSession, ClosePool, vars, claimVars
  <2>2. Kept(committer[p])'
    BY <2>1 DEF BookInv, Bookkeeping
  <2>3. QED
    BY <2>1, <2>2 DEF BookInv, Bookkeeping
<1>3. QED
  BY <1>1, <1>2

LEMMA BookCrash == ASSUME Crash PROVE BookInv'
<1> SUFFICES ASSUME NEW p \in Partition PROVE Bookkeeping(p)'
  BY DEF BookInv
<1>1. committer'[p] = EmptyCommitter /\ claim'[p] = "off"
  BY DEF Crash
<1>2. Kept(committer[p])'
  BY <1>1, EmptyKept
<1>3. QED
  BY <1>1, <1>2 DEF Bookkeeping

LEMMA BookClaim ==
  ASSUME IInv, BookInv, NEW p \in Partition, CommitMark(p) \/ ConsumeClaim(p)
  PROVE  BookInv'
<1>1. /\ claim \in [Partition -> {"off", "receive", "register", "submit", "return"}]
      /\ fetch \in [Partition -> Nat] /\ inbound \in [Partition -> Nat]
      /\ committer \in [Partition -> Committer(Offset, Generation)]
      /\ generation \in Generation
  BY DEF IInv, TypeOK
<1>2. /\ Offset \subseteq Nat /\ 0 \in Generation /\ Log[p] \subseteq Offset
      /\ LogEnd[p] \in Nat /\ Log[p] \subseteq Nat
  BY OffsetFacts, LogAssumption
<1>3. Kept(committer[p]) /\ \A k \in DOMAIN committer[p].states : k \in Nat
  BY <1>1, <1>2, CommitterStates DEF BookInv, Bookkeeping
<1>4. ASSUME NEW q \in Partition, q # p PROVE Bookkeeping(q)'
  <2>1. committer'[q] = committer[q] /\ fetch'[q] = fetch[q] /\ claim'[q] = claim[q]
        /\ inbound'[q] = inbound[q]
    BY <1>1, <1>4 DEF CommitMark, ConsumeClaim, ReceiveMessage, RegisterOffset, SubmitTask,
       LeaveClaim, ReturnClaim, claimVars
  <2>2. QED
    BY <2>1, BookKeptAlone DEF BookInv
<1>5. ASSUME ReceiveMessage(p) PROVE Bookkeeping(p)'
  <2>1. PICK o \in Log[p] : /\ o >= fetch[p] /\ inbound' = [inbound EXCEPT ![p] = o]
                            /\ fetch' = [fetch EXCEPT ![p] = o + 1]
    BY <1>5 DEF ReceiveMessage
  <2>2. /\ committer'[p] = RecordHighWaterMark(committer[p], LogEnd[p])
        /\ claim[p] = "receive" /\ claim'[p] = "register"
        /\ inbound'[p] = o /\ fetch'[p] = o + 1
    BY <1>1, <1>5, <2>1 DEF ReceiveMessage
  <2>3. DOMAIN committer'[p].states = DOMAIN committer[p].states
    BY <1>1, <1>2, <2>2, HighWaterMarkKept
  <2>4. Kept(committer[p])'
    BY <1>1, <1>2, <1>3, <2>2, HighWaterMarkKept
  <2>5. \A k \in DOMAIN committer[p].states : k < fetch[p]
    BY <2>2 DEF BookInv, Bookkeeping
  <2>6. \A k \in DOMAIN committer[p].states : k < o /\ k < o + 1
    BY <1>1, <1>2, <1>3, <2>1, <2>5
  <2>7. QED
    BY <2>2, <2>3, <2>4, <2>6 DEF Bookkeeping
<1>6. ASSUME RegisterOffset(p) PROVE Bookkeeping(p)'
  <2> DEFINE o == inbound[p]
             r == Register(committer[p], o, generation)
  <2>1. /\ claim[p] = "register" /\ claim'[p] \in {"submit", "return"}
        /\ o \in Log[p] /\ o \in Offset /\ o < fetch[p] /\ fetch' = fetch
        /\ \A k \in DOMAIN committer[p].states : k < o
    BY <1>1, <1>2, <1>6
    DEF RegisterOffset, BookInv, Bookkeeping, IInv, PartitionInv, InboundFetched
  <2>2. committer'[p] = r
    BY <1>1, <1>6 DEF RegisterOffset
  <2>3. committer[p].initialized => committer[p].generationID = generation
    BY DEF IInv, PartitionInv, Owned
  <2>4. Kept(r) /\ DOMAIN r.states = DOMAIN committer[p].states \cup {o}
    <3>1. committer[p] \in Committer(Offset, Generation)
      BY <1>1
    <3>2. Kept(committer[p])
      BY <1>3
    <3>3. \A k \in DOMAIN committer[p].states : k < o
      BY <2>1
    <3>4. Offset \subseteq Nat
      BY <1>2
    <3>5. 0 \in Generation /\ generation \in Generation /\ o \in Offset
      BY <1>1, <1>2, <2>1
    <3> HIDE DEF o
    <3>6. Fresh(Offset, Generation, committer[p], o, generation)
      BY <2>3, <3>1, <3>2, <3>3, <3>4, <3>5 DEF Fresh
    <3>7. QED
      BY <3>6, RegisterKept
  <2>5. \A k \in DOMAIN committer[p].states : k < fetch[p]
    BY <2>1 DEF BookInv, Bookkeeping
  <2> HIDE DEF r
  <2>6. Kept(committer[p])'
    BY <2>2, <2>4
  <2>7. QED
    BY <2>1, <2>2, <2>4, <2>5, <2>6 DEF Bookkeeping
<1>7. ASSUME SubmitTask(p) \/ LeaveClaim(p) \/ CommitMark(p) PROVE Bookkeeping(p)'
  <2>1. UNCHANGED <<committer, fetch, inbound>>
    BY <1>7 DEF SubmitTask, LeaveClaim, CommitMark, claimVars
  <2>2. claim'[p] = claim[p] \/ (claim[p] # "off" /\ claim'[p] # "register")
    <3>1. CASE CommitMark(p)
      BY <3>1 DEF CommitMark, claimVars
    <3>2. CASE SubmitTask(p)
      BY <1>1, <3>2 DEF SubmitTask
    <3>3. CASE LeaveClaim(p)
      <4>1. claim[p] = "submit" \/ claim[p] = "receive"
        BY <3>3, Zenon DEF LeaveClaim, MayLeave
      <4>2. claim'[p] = "return"
        BY <1>1, <3>3 DEF LeaveClaim
      <4>3. QED
        BY <4>1, <4>2
    <3>4. QED
      BY <1>7, <3>1, <3>2, <3>3
  <2>3. QED
    BY <2>1, <2>2, BookKeptAlone DEF BookInv
<1>8. ASSUME ReturnClaim(p) PROVE Bookkeeping(p)'
  <2>1. claim'[p] = "off"
    BY <1>1, <1>8 DEF ReturnClaim
  <2>2. committer'[p] \in {committer[p], EmptyCommitter}
    BY <1>1, <1>8 DEF ReturnClaim, AbortGeneration
  <2>3. Kept(committer[p])'
    BY <1>3, <2>2, EmptyKept
  <2>4. QED
    BY <2>1, <2>3 DEF Bookkeeping
<1>9. Bookkeeping(p)'
  BY <1>5, <1>6, <1>7, <1>8 DEF ConsumeClaim
<1>10. QED
  BY <1>4, <1>9 DEF BookInv

LEMMA BookComplete ==
  ASSUME IInv, BookInv, NEW w \in Worker, CompleteTask(w)
  PROVE  BookInv'
<1>1. PICK p \in Partition, o \in Offset, g \in Generation :
        task[w].partition = p /\ task[w].offset = o /\ task[w].generation = g
  BY RecordType DEF CompleteTask, Task
<1>2. PICK c : c = committer[p]
  OBVIOUS
<1>3. PICK r : r = Complete(c, o, g)
  OBVIOUS
<1>4. committer' = [committer EXCEPT ![p] = r] /\ UNCHANGED claimVars
  BY <1>1, <1>2, <1>3 DEF CompleteTask
<1>5. /\ committer'[p] = r
      /\ \A q \in Partition \ {p} : committer'[q] = committer[q]
      /\ UNCHANGED <<claim, fetch, inbound>>
  BY <1>4 DEF IInv, TypeOK, claimVars
<1>6. Kept(r) /\ DOMAIN r.states \subseteq DOMAIN c.states
  <2>1. c \in Committer(Offset, Generation)
    BY <1>2 DEF IInv, TypeOK
  <2>2. Kept(c) /\ Offset \subseteq Nat /\ 0 \in Generation
    BY <1>2, OffsetFacts DEF BookInv, Bookkeeping
  <2>3. LogEnd[p] \in Nat /\ \A k \in DOMAIN c.states : k < LogEnd[p]
    BY <1>2, StatesBounded
  <2>4. CASE Accepts(c, o, g)
    <3>1. Kept(Complete(c, o, g)) /\ Completed(c, o, Complete(c, o, g))
      BY <2>1, <2>2, <2>3, <2>4, CompleteKept
    <3>2. QED
      BY <1>3, <3>1 DEF Completed
  <2>5. CASE ~ Accepts(c, o, g)
    <3>1. r = c
      BY <1>3, <2>5 DEF Complete
    <3>2. QED
      BY <2>2, <3>1
  <2>6. QED
    BY <2>4, <2>5
<1>7. Bookkeeping(p)'
  <2>1. Kept(committer[p])'
    BY <1>5, <1>6
  <2>2. QED
    BY <1>2, <1>5, <1>6, <2>1 DEF BookInv, Bookkeeping
<1>8. ASSUME NEW q \in Partition \ {p} PROVE Bookkeeping(q)'
  BY <1>5, BookKeptAlone DEF BookInv
<1>9. QED
  BY <1>7, <1>8 DEF BookInv

LEMMA BookWorker ==
  ASSUME IInv, BookInv, NEW w \in Worker, RunWorker(w)
  PROVE  BookInv'
<1>1. CASE CompleteTask(w)
  BY <1>1, BookComplete
<1>2. ASSUME \/ StartTask(w) \/ AbandonTask(w) \/ CallHandler(w)
             \/ HandlerSucceeds(w) \/ HandlerFails(w)
             \/ SendDeadLetter(w) \/ DeadLetterStored(w) \/ DeadLetterFails(w)
             \/ StopWorker(w)
      PROVE  BookInv'
  <2>1. UNCHANGED <<claim, fetch, inbound, committer>>
    BY <1>2 DEF StartTask, AbandonTask, CallHandler, HandlerSucceeds, HandlerFails,
       SendDeadLetter, DeadLetterStored, DeadLetterFails, StopWorker, claimVars
  <2>2. ASSUME NEW p \in Partition PROVE Bookkeeping(p)'
    BY <2>1, BookKeptAlone DEF BookInv
  <2>3. QED
    BY <2>2 DEF BookInv
<1>3. QED
  BY <1>1, <1>2 DEF RunWorker

LEMMA BookStep == IInv /\ BookInv /\ [Next]_vars => BookInv'
<1>1. ASSUME IInv, BookInv, Crash PROVE BookInv'
  BY <1>1, BookCrash
<1>2. ASSUME IInv, BookInv,
             StartSession \/ CancelSession \/ ReleaseSession \/ ClosePool \/ UNCHANGED vars
      PROVE  BookInv'
  BY <1>2, BookSession
<1>3. QED
  BY <1>1, <1>2, BookClaim, BookWorker DEF Next

LEMMA BookInductive == Spec => []BookInv
<1>1. Init => BookInv
  <2> SUFFICES ASSUME Init, NEW p \in Partition PROVE Bookkeeping(p)
    BY DEF BookInv
  <2>1. committer[p] = EmptyCommitter /\ claim[p] = "off"
    BY DEF Init
  <2>2. Kept(committer[p])
    BY <2>1, EmptyKept
  <2>3. QED
    BY <2>1, <2>2 DEF Bookkeeping
<1>2. QED
  BY <1>1, BookStep, Inductive, PTL DEF Spec

(* The fields of every partition's committer agree with each other and     *)
(* with the outcomes, whatever the log and however the tasks complete.     *)
THEOREM CommittersAreCoherent == Spec => []CommitterCoherent
<1>1. IInv /\ BookInv => CommitterCoherent
  <2> SUFFICES ASSUME IInv, BookInv, NEW p \in Partition
               PROVE  LET c    == committer[p]
                          done == {o \in DOMAIN c.states : c.states[o].done}
                      IN  /\ c.doneCount = Cardinality(done)
                          /\ \A o \in done : o > c.nextOffset /\ <<p, o>> \in Settled
                          /\ \A o \in DOMAIN c.states : o >= c.nextOffset
                          /\ c.initialized <=> DOMAIN c.states # {}
    BY DEF CommitterCoherent
  <2> DEFINE c == committer[p]
  <2>1. Kept(c)
    BY DEF BookInv, Bookkeeping
  <2>2. \A o \in DoneIn(c) : <<p, o>> \in Settled
    BY DEF IInv, PartitionInv, PassedSettled, IsDone, DoneIn
  <2> HIDE DEF c
  <2>3. /\ c.doneCount = Cardinality(DoneIn(c))
        /\ \A o \in DoneIn(c) : o > c.nextOffset /\ <<p, o>> \in Settled
        /\ \A o \in DOMAIN c.states : o >= c.nextOffset
    BY <2>1, <2>2 DEF Kept
  <2>4. c.initialized <=> DOMAIN c.states # {}
    BY <2>1, Zenon DEF Kept
  <2>5. QED
    BY <2>3, <2>4 DEF c, DoneIn
<1>2. QED
  BY <1>1, BookInductive, Inductive, PTL

-----------------------------------------------------------------------------
(* Where a pending offset is.  A task is of a session that has begun, and  *)
(* a task of the live one holds an offset its claim has already passed.    *)
Known(t) ==
  /\ t.generation <= generation
  /\ phase = "live" /\ t.generation = generation =>
       /\ t.offset < fetch[t.partition]
       /\ claim[t.partition] = "register" => t.offset < inbound[t.partition]

TasksKnown ==
  /\ \A i \in DOMAIN queue : Known(queue[i])
  /\ \A w \in Worker : pc[w] \notin {"idle", "stopped"} => Known(task[w])

LEMMA KnownStep ==
  ASSUME IInv, [Next]_vars, NEW t \in Task, Known(t)
  PROVE  Known(t)'
<1>1. /\ t.generation \in Nat /\ t.partition \in Partition /\ t.offset \in Nat
      /\ generation \in Nat /\ fetch \in [Partition -> Nat] /\ inbound \in [Partition -> Nat]
      /\ claim \in [Partition -> {"off", "receive", "register", "submit", "return"}]
  BY OffsetFacts DEF IInv, TypeOK, Task
<1>2. CASE StartSession
  BY <1>1, <1>2 DEF StartSession, Known
<1>3. ASSUME CancelSession \/ ReleaseSession \/ Crash PROVE Known(t)'
  BY <1>3 DEF CancelSession, ReleaseSession, Crash, Known
<1>4. ASSUME ClosePool \/ UNCHANGED vars \/ (\E p \in Partition : CommitMark(p)) PROVE Known(t)'
  BY <1>4 DEF ClosePool, CommitMark, Known, vars, sessionVars, claimVars
<1>5. ASSUME NEW p \in Partition, ConsumeClaim(p) PROVE Known(t)'
  <2>1. CASE ReceiveMessage(p)
    <3>1. PICK o \in Log[p] : /\ o >= fetch[p] /\ inbound' = [inbound EXCEPT ![p] = o]
                              /\ fetch' = [fetch EXCEPT ![p] = o + 1]
      BY <2>1 DEF ReceiveMessage
    <3>2. o \in Nat /\ UNCHANGED <<generation, phase>> /\ claim' = [claim EXCEPT ![p] = "register"]
      BY <2>1, OffsetFacts DEF ReceiveMessage, sessionVars
    <3>3. QED
      BY <1>1, <3>1, <3>2 DEF Known
  <2>2. ASSUME RegisterOffset(p) \/ SubmitTask(p) \/ LeaveClaim(p) PROVE Known(t)'
    <3>1. UNCHANGED <<generation, phase, fetch, inbound>>
      BY <2>2 DEF RegisterOffset, SubmitTask, LeaveClaim, sessionVars
    <3>2. \A q \in Partition : claim'[q] = "register" => claim[q] = "register"
      <4>1. \E x \in {"submit", "return", "receive"} : claim' = [claim EXCEPT ![p] = x]
        BY <2>2, Zenon DEF RegisterOffset, SubmitTask, LeaveClaim
      <4>2. QED
        BY <1>1, <4>1
    <3>3. QED
      BY <1>1, <3>1, <3>2 DEF Known
  <2>3. CASE ReturnClaim(p)
    BY <1>1, <2>3 DEF ReturnClaim, Known
  <2>4. QED
    BY <1>5, <2>1, <2>2, <2>3 DEF ConsumeClaim
<1>6. ASSUME NEW w \in Worker, RunWorker(w) PROVE Known(t)'
  <2>1. UNCHANGED <<generation, phase, fetch, inbound, claim>>
    BY <1>6 DEF RunWorker, StartTask, AbandonTask, CallHandler, HandlerSucceeds,
       HandlerFails, SendDeadLetter, DeadLetterStored, DeadLetterFails, CompleteTask,
       StopWorker, sessionVars, claimVars
  <2>2. QED
    BY <2>1 DEF Known
<1>7. QED
  BY <1>2, <1>3, <1>4, <1>5, <1>6 DEF Next

LEMMA QueueGrows ==
  ASSUME IInv, NEW p \in Partition, SubmitTask(p)
  PROVE  /\ DOMAIN queue' = DOMAIN queue \cup {Len(queue) + 1}
         /\ \A i \in DOMAIN queue : queue'[i] = queue[i] /\ i # Len(queue) + 1
         /\ queue'[Len(queue) + 1]
              = [partition |-> p, offset |-> inbound[p], generation |-> generation]
  BY DEF IInv, TypeOK, SubmitTask

LEMMA QueueShrinks ==
  ASSUME IInv, NEW w \in Worker, StartTask(w)
  PROVE  /\ 1 \in DOMAIN queue /\ pc[w] = "idle"
         /\ \A i \in DOMAIN queue' : i \in Nat \ {0} /\ i + 1 \in DOMAIN queue /\ queue'[i] = queue[i + 1]
         /\ \A i \in DOMAIN queue : i \in Nat \ {0} /\ (i # 1 => i - 1 \in DOMAIN queue')
         /\ task'[w] = queue[1] /\ pc'[w] \in {"isolate", "attempt"}
         /\ \A v \in Worker \ {w} : pc'[v] = pc[v] /\ task'[v] = task[v]
<1>1. queue \in Seq(Task) /\ queue # <<>> /\ queue' = Tail(queue)
  BY DEF IInv, TypeOK, StartTask
<1>2. /\ 1 \in DOMAIN queue /\ Head(queue) = queue[1]
      /\ \A i \in DOMAIN queue' : i \in Nat \ {0} /\ i + 1 \in DOMAIN queue /\ queue'[i] = queue[i + 1]
      /\ \A i \in DOMAIN queue : i \in Nat \ {0} /\ (i # 1 => i - 1 \in DOMAIN queue')
  BY <1>1
<1>3. QED
  BY <1>2 DEF IInv, TypeOK, StartTask, Become

LEMMA TasksKnownStep == IInv /\ TasksKnown /\ [Next]_vars => TasksKnown'
<1> SUFFICES ASSUME IInv, TasksKnown, [Next]_vars PROVE TasksKnown'
  OBVIOUS
<1>1. ASSUME NEW i \in DOMAIN queue PROVE queue[i] \in Task /\ Known(queue[i])
  BY DEF IInv, TypeOK, TasksKnown
<1>2. ASSUME NEW w \in Worker, pc[w] \notin {"idle", "stopped"}
      PROVE  task[w] \in Task /\ Known(task[w])
  BY <1>2 DEF IInv, TypeOK, TasksKnown
<1> DEFINE Held == {t \in Task : Known(t)}
           Holds == {t \in Task : Known(t)'}
<1>3. ASSUME NEW t \in Held PROVE t \in Holds
  BY <1>3, KnownStep
<1>4. /\ \A i \in DOMAIN queue : queue[i] \in Held
      /\ \A w \in Worker : pc[w] \notin {"idle", "stopped"} => task[w] \in Held
  BY <1>1, <1>2
<1>5. /\ \A i \in DOMAIN queue' : queue'[i] \in Holds
      /\ \A w \in Worker : pc'[w] \notin {"idle", "stopped"} => task'[w] \in Holds
  <2> HIDE DEF Held, Holds
  <2>1. CASE UNCHANGED <<queue, pc, task>>
    BY <1>3, <1>4, <2>1
  <2>2. CASE Crash
    BY <2>2 DEF Crash
  <2>3. ASSUME NEW p \in Partition, SubmitTask(p)
        PROVE  /\ \A i \in DOMAIN queue' : queue'[i] \in Holds
               /\ \A w \in Worker : pc'[w] \notin {"idle", "stopped"} => task'[w] \in Holds
    <3>1. PICK t : t = [partition |-> p, offset |-> inbound[p], generation |-> generation]
      OBVIOUS
    <3>2. t \in Task
      BY <2>3, <3>1, OffsetFacts
      DEF IInv, TypeOK, PartitionInv, InboundFetched, SubmitTask, Task
    <3>3. t \in Holds
      <4>1. /\ t.generation = generation /\ t.offset = inbound[p] /\ t.partition = p
            /\ UNCHANGED <<generation, fetch, inbound>> /\ claim'[p] = "receive"
            /\ generation \in Nat
        BY <2>3, <3>1, OffsetFacts DEF SubmitTask, sessionVars, IInv, TypeOK
      <4>2. inbound[p] < fetch[p]
        BY <2>3 DEF IInv, PartitionInv, InboundFetched, SubmitTask
      <4>3. QED
        BY <3>2, <4>1, <4>2 DEF Holds, Known
    <3>4. UNCHANGED <<pc, task>>
      BY <2>3 DEF SubmitTask, workerVars
    <3>5. QED
      BY <1>3, <1>4, <2>3, <3>1, <3>3, <3>4, QueueGrows
  <2>4. ASSUME NEW w \in Worker, StartTask(w)
        PROVE  /\ \A i \in DOMAIN queue' : queue'[i] \in Holds
               /\ \A v \in Worker : pc'[v] \notin {"idle", "stopped"} => task'[v] \in Holds
    BY <1>3, <1>4, <2>4, QueueShrinks
  <2>5. ASSUME NEW w \in Worker,
               \/ AbandonTask(w) \/ CallHandler(w) \/ HandlerSucceeds(w) \/ HandlerFails(w)
               \/ SendDeadLetter(w) \/ DeadLetterStored(w) \/ DeadLetterFails(w)
               \/ CompleteTask(w) \/ StopWorker(w)
        PROVE  /\ \A i \in DOMAIN queue' : queue'[i] \in Holds
               /\ \A v \in Worker : pc'[v] \notin {"idle", "stopped"} => task'[v] \in Holds
    <3>1. queue' = queue /\ \A v \in Worker \ {w} : pc'[v] = pc[v] /\ task'[v] = task[v]
      BY <2>5 DEF IInv, TypeOK, AbandonTask, CallHandler, HandlerSucceeds, HandlerFails, Retry,
         SendDeadLetter, DeadLetterStored, DeadLetterFails, CompleteTask, StopWorker, Become
    <3>2. \/ pc'[w] \in {"idle", "stopped"}
          \/ pc[w] \notin {"idle", "stopped"} /\ task'[w] = task[w]
      BY <2>5 DEF IInv, TypeOK, AbandonTask, CallHandler, HandlerSucceeds, HandlerFails, Retry,
         SendDeadLetter, DeadLetterStored, DeadLetterFails, CompleteTask, StopWorker, Become
    <3>3. QED
      BY <1>3, <1>4, <3>1, <3>2
  <2>6. ASSUME \/ StartSession \/ CancelSession \/ ReleaseSession \/ ClosePool \/ UNCHANGED vars
               \/ \E p \in Partition : \/ CommitMark(p) \/ ReceiveMessage(p) \/ RegisterOffset(p)
                                       \/ LeaveClaim(p) \/ ReturnClaim(p)
        PROVE  UNCHANGED <<queue, pc, task>>
    BY <2>6 DEF StartSession, CancelSession, ReleaseSession, ClosePool, CommitMark,
       ReceiveMessage, RegisterOffset, LeaveClaim, ReturnClaim, vars, workerVars
  <2>7. QED
    BY <2>1, <2>2, <2>3, <2>4, <2>5, <2>6 DEF Next, ConsumeClaim, RunWorker
<1>6. QED
  BY <1>5 DEF TasksKnown, Known

(* Where the record at offset o of p is in the live session: in the queue, *)
(* in a worker, or still with its claim.                                   *)
QueuedAt(p, o) ==
  {i \in DOMAIN queue : /\ queue[i].partition = p /\ queue[i].offset = o
                        /\ queue[i].generation = generation}
RunningAt(p, o) ==
  {w \in Worker : /\ pc[w] \notin {"idle", "stopped"}
                  /\ task[w].partition = p /\ task[w].offset = o
                  /\ task[w].generation = generation}
ClaimedAt(p, o) ==
  {q \in {p} : claim[q] \in {"register", "submit", "return"} /\ inbound[q] = o}

(* One of three sets is a singleton, the others are empty.                 *)
OneOf(Q, W, C) ==
  \/ \E x : Q = {x} /\ W = {} /\ C = {}
  \/ \E x : Q = {} /\ W = {x} /\ C = {}
  \/ \E x : Q = {} /\ W = {} /\ C = {x}

Carried(p, o) == OneOf(QueuedAt(p, o), RunningAt(p, o), ClaimedAt(p, o))

(* The offsets of a committer that are not done.                           *)
Pending(c) == DOMAIN c.states \ DoneIn(c)

PendingCarried ==
  phase = "live" => \A p \in Partition : \A o \in Pending(committer[p]) : Carried(p, o)

LEMMA OneOfCounts ==
  ASSUME NEW Q, NEW W, NEW C, OneOf(Q, W, C)
  PROVE  Cardinality(Q) + Cardinality(W) + Cardinality(C) = 1
<1>1. Cardinality({}) = 0
  BY FS_EmptySet
<1>2. ASSUME NEW x PROVE Cardinality({x}) = 1
  BY FS_Singleton
<1>3. \/ Cardinality(Q) = 1 /\ Cardinality(W) = 0 /\ Cardinality(C) = 0
      \/ Cardinality(Q) = 0 /\ Cardinality(W) = 1 /\ Cardinality(C) = 0
      \/ Cardinality(Q) = 0 /\ Cardinality(W) = 0 /\ Cardinality(C) = 1
  BY <1>1, <1>2, Zenon DEF OneOf
<1>4. QED
  BY <1>3

LEMMA CarriersOf ==
  ASSUME NEW p \in Partition, NEW o \in Pending(committer[p])
  PROVE  /\ QueueCarriers(<<p, o>>, generation) = QueuedAt(p, o)
         /\ WorkerCarriers(<<p, o>>, generation) = RunningAt(p, o)
         /\ ClaimCarriers(<<p, o>>, generation) = ClaimedAt(p, o)
<1>1. \A a, b, c, d : <<a, b>> = <<c, d>> <=> a = c /\ b = d
  OBVIOUS
<1>2. QueueCarriers(<<p, o>>, generation) = QueuedAt(p, o)
  BY <1>1 DEF QueueCarriers, RecordOf, QueuedAt
<1>3. WorkerCarriers(<<p, o>>, generation) = RunningAt(p, o)
  BY <1>1 DEF WorkerCarriers, RecordOf, RunningAt
<1>4. ClaimCarriers(<<p, o>>, generation) = ClaimedAt(p, o)
  BY <1>1 DEF ClaimCarriers, ClaimedAt, Pending
<1>5. QED
  BY <1>2, <1>3, <1>4

LEMMA CarriedKept ==
  ASSUME NEW p, NEW o, Carried(p, o),
         QueuedAt(p, o)' = QueuedAt(p, o), RunningAt(p, o)' = RunningAt(p, o),
         ClaimedAt(p, o)' = ClaimedAt(p, o)
  PROVE  Carried(p, o)'
  BY DEF Carried

(* The claims' steps.                                                      *)
LEMMA CarriedClaim ==
  ASSUME IInv, BookInv, TasksKnown, PendingCarried, phase' = "live",
         NEW p \in Partition, CommitMark(p) \/ ConsumeClaim(p)
  PROVE  PendingCarried'
<1> USE DEF PendingCarried
<1> SUFFICES ASSUME NEW q \in Partition, NEW o \in Pending(committer[q])' PROVE Carried(q, o)'
  OBVIOUS
<1>1. /\ claim \in [Partition -> {"off", "receive", "register", "submit", "return"}]
      /\ fetch \in [Partition -> Nat] /\ inbound \in [Partition -> Nat]
      /\ committer \in [Partition -> Committer(Offset, Generation)]
      /\ generation \in Generation
  BY DEF IInv, TypeOK
<1>2. /\ Offset \subseteq Nat /\ 0 \in Generation /\ Log[p] \subseteq Offset
      /\ LogEnd[p] \in Nat /\ Log[p] \subseteq Nat
  BY OffsetFacts, LogAssumption
<1>3. \A k \in DOMAIN committer[p].states : k \in Nat
  BY <1>1, <1>2, CommitterStates
<1>4. phase = "live" /\ UNCHANGED <<generation, pc, task>> /\ ~ ReturnClaim(p)
  BY DEF CommitMark, ConsumeClaim, ReceiveMessage, RegisterOffset, SubmitTask, LeaveClaim,
     ReturnClaim, sessionVars, workerVars
<1>5. RunningAt(q, o)' = RunningAt(q, o)
  BY <1>4 DEF RunningAt
<1>6. ASSUME UNCHANGED queue PROVE QueuedAt(q, o)' = QueuedAt(q, o)
  BY <1>4, <1>6 DEF QueuedAt
<1>7. CASE CommitMark(p)
  <2>1. UNCHANGED <<queue, claim, inbound, committer>>
    BY <1>7 DEF CommitMark, claimVars
  <2>2. ClaimedAt(q, o)' = ClaimedAt(q, o) /\ o \in Pending(committer[q])
    BY <2>1 DEF ClaimedAt
  <2>3. QED
    BY <1>4, <1>5, <1>6, <2>1, <2>2, CarriedKept
<1>8. CASE ReceiveMessage(p)
  <2>1. PICK k \in Log[p] : /\ k >= fetch[p] /\ inbound' = [inbound EXCEPT ![p] = k]
    BY <1>8 DEF ReceiveMessage
  <2>2. /\ committer'[p] = RecordHighWaterMark(committer[p], LogEnd[p])
        /\ claim[p] = "receive" /\ claim'[p] = "register" /\ inbound'[p] = k
        /\ \A r \in Partition \ {p} : committer'[r] = committer[r] /\ claim'[r] = claim[r]
                                      /\ inbound'[r] = inbound[r]
        /\ UNCHANGED queue
    BY <1>1, <1>8, <2>1 DEF ReceiveMessage
  <2>3. committer'[p].states = committer[p].states
    BY <1>1, <1>2, <2>2, HighWaterMarkKept
  <2>4. o \in Pending(committer[q])
    BY <2>2, <2>3 DEF Pending, DoneIn
  <2>5. ClaimedAt(q, o)' = ClaimedAt(q, o)
    <3>1. CASE q = p
      <4>1. o \in DOMAIN committer[p].states
        BY <2>4, <3>1 DEF Pending
      <4>2. o < fetch[p] /\ o \in Nat
        BY <1>3, <2>2, <4>1 DEF BookInv, Bookkeeping
      <4>3. o # k
        BY <1>1, <1>2, <2>1, <4>2
      <4>4. QED
        BY <2>2, <3>1, <4>3 DEF ClaimedAt
    <3>2. CASE q # p
      BY <2>2, <3>2 DEF ClaimedAt
    <3>3. QED
      BY <3>1, <3>2
  <2>6. QED
    BY <1>4, <1>5, <1>6, <2>2, <2>4, <2>5, CarriedKept
<1>9. CASE RegisterOffset(p)
  <2>1. /\ claim[p] = "register" /\ claim'[p] \in {"submit", "return"}
        /\ inbound[p] \in Log[p] /\ inbound[p] \in Offset /\ UNCHANGED <<queue, inbound>>
        /\ \A k \in DOMAIN committer[p].states : k < inbound[p]
        /\ \A r \in Partition \ {p} : committer'[r] = committer[r] /\ claim'[r] = claim[r]
        /\ committer'[p] = Register(committer[p], inbound[p], generation)
    BY <1>1, <1>2, <1>9
    DEF RegisterOffset, BookInv, Bookkeeping, IInv, PartitionInv, InboundFetched
  <2>2. /\ DOMAIN committer'[p].states = DOMAIN committer[p].states \cup {inbound[p]}
        /\ DoneIn(committer'[p]) = DoneIn(committer[p])
    <3>1. committer[p].initialized => committer[p].generationID = generation
      BY DEF IInv, PartitionInv, Owned
    <3>2. Kept(committer[p])
      BY DEF BookInv, Bookkeeping
    <3>3. Fresh(Offset, Generation, committer[p], inbound[p], generation)
      BY <1>1, <1>2, <2>1, <3>1, <3>2 DEF Fresh
    <3>4. QED
      BY <2>1, <3>3, RegisterKept
  <2>3. CASE q = p /\ o = inbound[p]
    <3>1. ClaimedAt(q, o)' = {p}
      BY <2>1, <2>3 DEF ClaimedAt
    <3>2. QueuedAt(q, o) = {}
      <4>1. ASSUME NEW i \in DOMAIN queue, queue[i].partition = p, queue[i].generation = generation
            PROVE  queue[i].offset < inbound[p]
        BY <1>4, <2>1, <4>1 DEF TasksKnown, Known
      <4>2. QED
        BY <1>1, <2>3, <4>1 DEF QueuedAt
    <3>3. RunningAt(q, o) = {}
      <4>1. ASSUME NEW w \in Worker, pc[w] \notin {"idle", "stopped"},
                   task[w].partition = p, task[w].generation = generation
            PROVE  task[w].offset < inbound[p]
        BY <1>4, <2>1, <4>1 DEF TasksKnown, Known
      <4>2. QED
        BY <1>1, <2>3, <4>1 DEF RunningAt
    <3>4. QED
      BY <1>5, <1>6, <2>1, <3>1, <3>2, <3>3 DEF Carried, OneOf
  <2>4. CASE ~ (q = p /\ o = inbound[p])
    <3>1. o \in Pending(committer[q])
      BY <2>1, <2>2, <2>4 DEF Pending
    <3>2. ClaimedAt(q, o)' = ClaimedAt(q, o)
      BY <2>1, <2>4 DEF ClaimedAt
    <3>3. QED
      BY <1>4, <1>5, <1>6, <2>1, <3>1, <3>2, CarriedKept
  <2>5. QED
    BY <2>3, <2>4
<1>10. CASE SubmitTask(p)
  <2>1. /\ claim[p] = "submit" /\ claim'[p] = "receive" /\ UNCHANGED <<inbound, committer>>
        /\ \A r \in Partition \ {p} : claim'[r] = claim[r]
    BY <1>1, <1>10 DEF SubmitTask
  <2>2. o \in Pending(committer[q]) /\ Carried(q, o)
    BY <1>4, <2>1
  <2>6. /\ DOMAIN queue' = DOMAIN queue \cup {Len(queue) + 1}
        /\ \A i \in DOMAIN queue : queue'[i] = queue[i] /\ i # Len(queue) + 1
        /\ queue'[Len(queue) + 1].partition = p
        /\ queue'[Len(queue) + 1].offset = inbound[p]
        /\ queue'[Len(queue) + 1].generation = generation
    <3>1. /\ DOMAIN queue' = DOMAIN queue \cup {Len(queue) + 1}
          /\ \A i \in DOMAIN queue : queue'[i] = queue[i] /\ i # Len(queue) + 1
      BY <1>10, QueueGrows
    <3>2. PICK t : t = [partition |-> p, offset |-> inbound[p], generation |-> generation]
      OBVIOUS
    <3>3. queue'[Len(queue) + 1] = t
      BY <1>10, <3>2, QueueGrows
    <3>4. t.partition = p /\ t.offset = inbound[p] /\ t.generation = generation
      BY <3>2
    <3>5. QED
      BY <3>1, <3>3, <3>4
  <2>3. CASE q = p /\ o = inbound[p]
    <3>1. ClaimedAt(q, o) = {p} /\ ClaimedAt(q, o)' = {}
      BY <2>1, <2>3 DEF ClaimedAt
    <3>2. QueuedAt(q, o) = {} /\ RunningAt(q, o) = {}
      BY <2>2, <3>1 DEF Carried, OneOf
    <3>3. QueuedAt(q, o)' = {Len(queue) + 1}
      <4>1. Len(queue) + 1 \in QueuedAt(q, o)'
        BY <1>4, <2>3, <2>6 DEF QueuedAt
      <4>2. ASSUME NEW i \in QueuedAt(q, o)', i # Len(queue) + 1 PROVE i \in QueuedAt(q, o)
        BY <1>4, <2>6, <4>2 DEF QueuedAt
      <4>3. QED
        BY <3>2, <4>1, <4>2
    <3>4. QED
      BY <1>5, <3>1, <3>2, <3>3 DEF Carried, OneOf
  <2>4. CASE ~ (q = p /\ o = inbound[p])
    <3>1. ClaimedAt(q, o)' = ClaimedAt(q, o)
      BY <2>1, <2>4 DEF ClaimedAt
    <3>2. QueuedAt(q, o)' = QueuedAt(q, o)
      <4>1. Len(queue) + 1 \notin QueuedAt(q, o)'
        BY <2>4, <2>6 DEF QueuedAt
      <4>2. ASSUME NEW i \in QueuedAt(q, o)' PROVE i \in QueuedAt(q, o)
        BY <1>4, <2>6, <4>1, <4>2 DEF QueuedAt
      <4>3. ASSUME NEW i \in QueuedAt(q, o) PROVE i \in QueuedAt(q, o)'
        BY <1>4, <2>6, <4>3 DEF QueuedAt
      <4>4. QED
        BY <4>2, <4>3
    <3>3. QED
      BY <1>5, <2>2, <3>1, <3>2, CarriedKept
  <2>5. QED
    BY <2>3, <2>4
<1>11. CASE LeaveClaim(p)
  <2>1. /\ claim[p] = "submit" /\ claim'[p] = "return" /\ UNCHANGED <<queue, inbound, committer>>
        /\ \A r \in Partition \ {p} : claim'[r] = claim[r]
    BY <1>1, <1>4, <1>11 DEF LeaveClaim, MayLeave
  <2>2. ClaimedAt(q, o)' = ClaimedAt(q, o) /\ o \in Pending(committer[q])
    BY <2>1 DEF ClaimedAt
  <2>3. QED
    BY <1>4, <1>5, <1>6, <2>1, <2>2, CarriedKept
<1>12. QED
  BY <1>4, <1>7, <1>8, <1>9, <1>10, <1>11 DEF ConsumeClaim

(* The workers' steps.                                                     *)
LEMMA CarriedStart ==
  ASSUME IInv, PendingCarried, NEW w \in Worker, StartTask(w)
  PROVE  PendingCarried'
<1> SUFFICES ASSUME phase' = "live", NEW q \in Partition, NEW o \in Pending(committer[q])'
             PROVE  Carried(q, o)'
  BY DEF PendingCarried
<1>1. UNCHANGED <<generation, phase, claim, inbound, committer>>
  BY DEF StartTask, sessionVars, claimVars
<1>2. Carried(q, o) /\ ClaimedAt(q, o)' = ClaimedAt(q, o)
  BY <1>1 DEF PendingCarried, ClaimedAt
<1>3. /\ 1 \in DOMAIN queue /\ pc[w] = "idle"
      /\ \A i \in DOMAIN queue' : i \in Nat \ {0} /\ i + 1 \in DOMAIN queue /\ queue'[i] = queue[i + 1]
      /\ \A i \in DOMAIN queue : i \in Nat \ {0} /\ (i # 1 => i - 1 \in DOMAIN queue')
      /\ task'[w] = queue[1] /\ pc'[w] \in {"isolate", "attempt"}
      /\ \A v \in Worker \ {w} : pc'[v] = pc[v] /\ task'[v] = task[v]
  BY QueueShrinks
<1>4. w \notin RunningAt(q, o)
  BY <1>3 DEF RunningAt
<1>5. ASSUME NEW v \in Worker, v # w PROVE v \in RunningAt(q, o)' <=> v \in RunningAt(q, o)
  BY <1>1, <1>3, <1>5 DEF RunningAt
<1>6. w \in RunningAt(q, o)' <=> 1 \in QueuedAt(q, o)
  BY <1>1, <1>3 DEF RunningAt, QueuedAt
<1>7. ASSUME NEW i \in QueuedAt(q, o)' PROVE i \in Nat \ {0} /\ i + 1 \in QueuedAt(q, o)
  BY <1>1, <1>3, <1>7 DEF QueuedAt
<1>8. ASSUME NEW i \in QueuedAt(q, o), i # 1 PROVE i \in Nat \ {0} /\ i - 1 \in QueuedAt(q, o)'
  <2>1. i \in DOMAIN queue /\ i \in Nat \ {0} /\ i - 1 \in DOMAIN queue'
    BY <1>3, <1>8 DEF QueuedAt
  <2>2. queue'[i - 1] = queue[i]
    <3>1. (i - 1) + 1 = i
      BY <2>1
    <3>2. QED
      BY <1>3, <2>1, <3>1
  <2>3. QED
    BY <1>1, <1>8, <2>1, <2>2 DEF QueuedAt
<1>9. RunningAt(q, o) \subseteq Worker /\ RunningAt(q, o)' \subseteq Worker
  BY DEF RunningAt
<1>10. CASE \E x : QueuedAt(q, o) = {x} /\ RunningAt(q, o) = {} /\ ClaimedAt(q, o) = {}
  <2>1. PICK x : QueuedAt(q, o) = {x} /\ RunningAt(q, o) = {} /\ ClaimedAt(q, o) = {}
    BY <1>10
  <2>2. CASE x = 1
    <3>1. RunningAt(q, o)' = {w}
      BY <1>5, <1>6, <1>9, <2>1, <2>2
    <3>2. QueuedAt(q, o)' = {}
      BY <1>7, <2>1, <2>2
    <3>3. QED
      BY <1>2, <2>1, <3>1, <3>2 DEF Carried, OneOf
  <2>3. CASE x # 1
    <3>1. RunningAt(q, o)' = {}
      BY <1>5, <1>6, <1>9, <2>1, <2>3
    <3>2. QueuedAt(q, o)' = {x - 1}
      BY <1>7, <1>8, <2>1, <2>3
    <3>3. QED
      BY <1>2, <2>1, <3>1, <3>2 DEF Carried, OneOf
  <2>4. QED
    BY <2>2, <2>3
<1>11. CASE QueuedAt(q, o) = {}
  <2>1. QueuedAt(q, o)' = {} /\ RunningAt(q, o)' = RunningAt(q, o)
    BY <1>4, <1>5, <1>6, <1>7, <1>9, <1>11
  <2>2. QED
    BY <1>2, <1>11, <2>1, CarriedKept
<1>12. QED
  BY <1>2, <1>10, <1>11 DEF Carried, OneOf

LEMMA CarriedComplete ==
  ASSUME IInv, BookInv, PendingCarried, NEW w \in Worker, CompleteTask(w)
  PROVE  PendingCarried'
<1> SUFFICES ASSUME phase' = "live", NEW q \in Partition, NEW k \in Pending(committer[q])'
             PROVE  Carried(q, k)'
  BY DEF PendingCarried
<1>1. PICK p \in Partition, o \in Offset, g \in Generation :
        task[w].partition = p /\ task[w].offset = o /\ task[w].generation = g
  BY RecordType DEF CompleteTask, Task
<1>2. PICK c : c = committer[p]
  OBVIOUS
<1>3. PICK r : r = Complete(c, o, g)
  OBVIOUS
<1>4. committer' = [committer EXCEPT ![p] = r] /\ UNCHANGED <<generation, phase, claimVars, queue>>
  BY <1>1, <1>2, <1>3 DEF CompleteTask, sessionVars
<1>5. /\ committer'[p] = r
      /\ \A s \in Partition \ {p} : committer'[s] = committer[s]
      /\ UNCHANGED <<generation, phase, claim, inbound, queue>>
  BY <1>4 DEF IInv, TypeOK, claimVars
<1>6. Pending(r) \subseteq Pending(c) /\ (g = generation => o \notin Pending(r))
  <2>1. c \in Committer(Offset, Generation)
    BY <1>2 DEF IInv, TypeOK
  <2>2. Kept(c) /\ Offset \subseteq Nat /\ 0 \in Generation
    BY <1>2, OffsetFacts DEF BookInv, Bookkeeping
  <2>3. LogEnd[p] \in Nat /\ \A i \in DOMAIN c.states : i < LogEnd[p]
    BY <1>2, StatesBounded
  <2>4. CASE Accepts(c, o, g)
    <3>1. Completed(c, o, Complete(c, o, g))
      BY <2>1, <2>2, <2>3, <2>4, CompleteKept
    <3>2. \A i \in DOMAIN r.states : i \in DOMAIN c.states /\ (r.states[i].done <=> i = o \/ c.states[i].done)
      BY <1>3, <3>1 DEF Completed
    <3>3. QED
      BY <3>2 DEF Pending, DoneIn
  <2>5. CASE ~ Accepts(c, o, g)
    <3>1. r = c
      BY <1>3, <2>5 DEF Complete
    <3>2. g = generation => o \notin DOMAIN c.states
      <4>1. ASSUME o \in DOMAIN c.states, g = generation PROVE Accepts(c, o, g)
        <5>1. c.initialized
          BY <1>2, <4>1 DEF BookInv, Bookkeeping, Kept
        <5>2. c.generationID = generation /\ c.states[o].generationID = generation
          BY <1>2, <4>1, <5>1 DEF IInv, PartitionInv, Owned
        <5>3. QED
          BY <4>1, <5>2 DEF Accepts
      <4>2. QED
        BY <2>5, <4>1
    <3>3. QED
      BY <3>1, <3>2 DEF Pending
  <2>6. QED
    BY <2>4, <2>5
<1>7. Carried(q, k) /\ ~ (q = p /\ k = o /\ g = generation)
  <2>1. k \in Pending(committer[q])
    BY <1>2, <1>5, <1>6 DEF Pending, DoneIn
  <2>2. ~ (q = p /\ k = o /\ g = generation)
    BY <1>5, <1>6 DEF Pending, DoneIn
  <2>3. QED
    BY <1>5, <2>1, <2>2 DEF PendingCarried
<1>8. QueuedAt(q, k)' = QueuedAt(q, k) /\ ClaimedAt(q, k)' = ClaimedAt(q, k)
  BY <1>5 DEF QueuedAt, ClaimedAt
<1>9. RunningAt(q, k)' = RunningAt(q, k)
  <2>1. pc'[w] = "idle" /\ \A v \in Worker \ {w} : pc'[v] = pc[v] /\ task'[v] = task[v]
    BY DEF IInv, TypeOK, CompleteTask, Become
  <2>2. w \notin RunningAt(q, k)
    BY <1>1, <1>7 DEF RunningAt
  <2>3. QED
    BY <1>5, <2>1, <2>2 DEF RunningAt
<1>10. QED
  BY <1>7, <1>8, <1>9, CarriedKept

LEMMA CarriedWorker ==
  ASSUME IInv, BookInv, PendingCarried, NEW w \in Worker, RunWorker(w)
  PROVE  PendingCarried'
<1>1. ASSUME \/ AbandonTask(w) \/ CallHandler(w) \/ HandlerSucceeds(w) \/ HandlerFails(w)
             \/ SendDeadLetter(w) \/ DeadLetterStored(w) \/ DeadLetterFails(w) \/ StopWorker(w)
      PROVE  PendingCarried'
  <2> SUFFICES ASSUME phase' = "live", NEW q \in Partition, NEW o \in Pending(committer[q])'
               PROVE  Carried(q, o)'
    BY DEF PendingCarried
  <2>1. UNCHANGED <<generation, phase, claim, inbound, committer, queue>>
    BY <1>1 DEF AbandonTask, CallHandler, HandlerSucceeds, HandlerFails, SendDeadLetter,
       DeadLetterStored, DeadLetterFails, StopWorker, sessionVars, claimVars
  <2>2. /\ Carried(q, o)
        /\ QueuedAt(q, o)' = QueuedAt(q, o) /\ ClaimedAt(q, o)' = ClaimedAt(q, o)
    BY <2>1 DEF PendingCarried, QueuedAt, ClaimedAt
  <2>3. \A v \in Worker \ {w} : pc'[v] = pc[v] /\ task'[v] = task[v]
    BY <1>1 DEF IInv, TypeOK, AbandonTask, CallHandler, HandlerSucceeds, HandlerFails, Retry,
       SendDeadLetter, DeadLetterStored, DeadLetterFails, StopWorker, Become
  <2>4. \/ /\ pc[w] \notin {"idle", "stopped"} /\ pc'[w] \notin {"idle", "stopped"}
           /\ task'[w] = task[w]
        \/ w \notin RunningAt(q, o) /\ pc'[w] \in {"idle", "stopped"}
    <3>1. CASE AbandonTask(w)
      <4>1. task[w].generation # generation
        BY <2>1, <3>1 DEF AbandonTask, ContextDone
      <4>2. QED
        BY <3>1, <4>1 DEF IInv, TypeOK, AbandonTask, Become, RunningAt
    <3>2. CASE StopWorker(w)
      BY <3>2 DEF IInv, TypeOK, StopWorker, RunningAt
    <3>3. ASSUME \/ CallHandler(w) \/ HandlerSucceeds(w) \/ HandlerFails(w)
                 \/ SendDeadLetter(w) \/ DeadLetterStored(w) \/ DeadLetterFails(w)
          PROVE  /\ pc[w] \notin {"idle", "stopped"} /\ pc'[w] \notin {"idle", "stopped"}
                 /\ task'[w] = task[w]
      BY <3>3 DEF IInv, TypeOK, CallHandler, HandlerSucceeds, HandlerFails, Retry,
         SendDeadLetter, DeadLetterStored, DeadLetterFails, Become
    <3>4. QED
      BY <1>1, <3>1, <3>2, <3>3
  <2>5. RunningAt(q, o)' = RunningAt(q, o)
    BY <2>1, <2>3, <2>4 DEF RunningAt
  <2>6. QED
    BY <2>2, <2>5, CarriedKept
<1>2. QED
  BY <1>1, CarriedStart, CarriedComplete DEF RunWorker

LEMMA CarriedStep ==
  IInv /\ BookInv /\ TasksKnown /\ PendingCarried /\ [Next]_vars => PendingCarried'
<1> SUFFICES ASSUME IInv, BookInv, TasksKnown, PendingCarried, [Next]_vars, phase' = "live"
             PROVE  PendingCarried'
  BY DEF PendingCarried
<1>1. CASE StartSession
  <2>1. ASSUME NEW p \in Partition PROVE Pending(committer[p])' = {}
    <3>1. claim[p] = "off" /\ committer' = committer
      BY <1>1 DEF StartSession, IInv, ClaimsNeedSession
    <3>2. QED
      BY <3>1, ClosedHoldsNothing DEF Pending
  <2>2. QED
    BY <2>1 DEF PendingCarried
<1>2. ASSUME CancelSession \/ ReleaseSession \/ Crash PROVE FALSE
  BY <1>2 DEF CancelSession, ReleaseSession, Crash
<1>3. ASSUME ClosePool \/ UNCHANGED vars PROVE PendingCarried'
  <2>1. UNCHANGED <<generation, phase, claim, inbound, committer, queue, pc, task>>
    BY <1>3 DEF ClosePool, vars, sessionVars, claimVars, workerVars
  <2>2. ASSUME NEW q \in Partition, NEW o \in Pending(committer[q])' PROVE Carried(q, o)'
    <3>1. Carried(q, o) /\ QueuedAt(q, o)' = QueuedAt(q, o) /\ RunningAt(q, o)' = RunningAt(q, o)
          /\ ClaimedAt(q, o)' = ClaimedAt(q, o)
      BY <2>1 DEF PendingCarried, QueuedAt, RunningAt, ClaimedAt
    <3>2. QED
      BY <3>1, CarriedKept
  <2>3. QED
    BY <2>2 DEF PendingCarried
<1>4. QED
  BY <1>1, <1>2, <1>3, CarriedClaim, CarriedWorker DEF Next

(* While the session lives, every registered offset that is not done has   *)
(* one carrier: no interleaving of claims and workers loses a record on    *)
(* its way, or runs it twice in one session.                               *)
THEOREM PendingIsCarriedOnce == Spec => []PendingCarriedOnce
<1>1. Init => TasksKnown /\ PendingCarried
  BY DEF Init, TasksKnown, PendingCarried
<1>2. IInv /\ BookInv /\ PendingCarried => PendingCarriedOnce
  <2> SUFFICES ASSUME IInv, BookInv, PendingCarried, phase = "live",
                      NEW p \in Partition, NEW o \in DOMAIN committer[p].states,
                      ~ committer[p].states[o].done
               PROVE  Cardinality(QueueCarriers(<<p, o>>, generation))
                        + Cardinality(WorkerCarriers(<<p, o>>, generation))
                        + Cardinality(ClaimCarriers(<<p, o>>, generation)) = 1
    BY DEF PendingCarriedOnce
  <2>1. o \in Pending(committer[p])
    BY DEF Pending, DoneIn
  <2>2. Carried(p, o)
    BY <2>1 DEF PendingCarried
  <2>3. QED
    BY <2>1, <2>2, CarriersOf, OneOfCounts DEF Carried
<1>3. QED
  BY <1>1, <1>2, TasksKnownStep, CarriedStep, BookInductive, Inductive, PTL DEF Spec
=============================================================================
