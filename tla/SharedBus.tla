----------------------------- MODULE SharedBus -----------------------------
(***************************************************************************)
(* Several Subscribe calls of different consumer groups on one kafka.Bus,  *)
(* for one partition of the topic.  Each group has its own Sarama session  *)
(* and generation; orderedCommitManager keys committers by topic and       *)
(* partition, so the groups' claims register and complete offsets in one   *)
(* committer.  KafkaConsumer has the steps of one Subscribe in detail;     *)
(* here the queue, the workers, retries and dead letters are a set of      *)
(* tasks that may be settled in any order.                                 *)
(***************************************************************************)
EXTENDS Integers, OrderedCommitter

CONSTANTS Group,          \* consumer groups subscribed to the bus
          Log,            \* offsets that hold a record
          LogEnd,         \* the claims' high-water mark
          MaxGeneration   \* bound: sessions of each group

VARIABLES
  generation, phase,   \* each group's Sarama session, as in KafkaConsumer
  fetch,               \* next offset each group's claim receives
  marked, committed,   \* each group's session mark and committed offset
  committer,           \* the committer of the partition
  owner,               \* group whose session each registered mark function marks
  running,             \* tasks submitted and not settled
  finishing,           \* settled tasks before their Complete
  settled              \* <<group, offset>>: handled or dead-lettered for a group

sessionVars == <<generation, phase, fetch>>
brokerVars  == <<marked, committed>>
taskVars    == <<running, finishing, settled>>
vars == <<sessionVars, brokerVars, committer, owner, taskVars>>

Init ==
  /\ generation = [g \in Group |-> 0]
  /\ phase = [g \in Group |-> "none"]
  /\ fetch = [g \in Group |-> 0]
  /\ marked = [g \in Group |-> 0] /\ committed = [g \in Group |-> 0]
  /\ committer = EmptyCommitter
  /\ owner = [o \in {} |-> 0]
  /\ running = {} /\ finishing = {} /\ settled = {}

-----------------------------------------------------------------------------
(* Sessions: every group counts its own generations.                       *)

StartSession(g) ==
  /\ phase[g] = "none" /\ generation[g] < MaxGeneration
  /\ generation' = [generation EXCEPT ![g] = @ + 1]
  /\ phase' = [phase EXCEPT ![g] = "live"]
  /\ fetch' = [fetch EXCEPT ![g] = committed[g]]
  /\ marked' = [marked EXCEPT ![g] = committed[g]]
  /\ UNCHANGED <<committed, committer, owner, taskVars>>

CancelSession(g) ==
  /\ phase[g] = "live"
  /\ phase' = [phase EXCEPT ![g] = "cancelled"]
  /\ UNCHANGED <<generation, fetch, brokerVars, committer, owner, taskVars>>

CommitMark(g) ==
  /\ phase[g] # "none"
  /\ committed' = [committed EXCEPT ![g] = marked[g]]
  /\ UNCHANGED <<sessionVars, marked, committer, owner, taskVars>>

(* The deferred AbortGeneration, and the end of the session.               *)
ReturnClaim(g) ==
  /\ phase[g] = "cancelled"
  /\ committer' = AbortGeneration(committer, generation[g])
  /\ phase' = [phase EXCEPT ![g] = "none"]
  /\ UNCHANGED <<generation, fetch, brokerVars, owner, taskVars>>

(* The process with all its groups dies and starts again.                  *)
Crash ==
  /\ phase' = [g \in Group |-> "none"]
  /\ committer' = EmptyCommitter
  /\ running' = {} /\ finishing' = {}
  /\ UNCHANGED <<generation, fetch, brokerVars, owner, settled>>

-----------------------------------------------------------------------------
(* ConsumeClaim: the mark function of a registered offset is kept, one of  *)
(* an offset that is registered already is dropped.                        *)
OwnerAfter(g, o) ==
  IF o \in DOMAIN ResetIfStale(committer, generation[g]).states THEN owner
  ELSE [x \in DOMAIN owner \cup {o} |-> IF x = o THEN g ELSE owner[x]]

ConsumeMessage(g) ==
  /\ phase[g] = "live"
  /\ \E o \in Log :
       /\ o >= fetch[g] /\ \A k \in Log : k >= fetch[g] => o <= k
       /\ committer' = Register(RecordHighWaterMark(committer, LogEnd), o, generation[g])
       /\ owner' = OwnerAfter(g, o)
       /\ running' = running \cup {[group |-> g, offset |-> o, generation |-> generation[g]]}
       /\ fetch' = [fetch EXCEPT ![g] = o + 1]
  /\ UNCHANGED <<generation, phase, brokerVars, finishing, settled>>

-----------------------------------------------------------------------------
(* processConsumerMessageWithHandler: the group's handler returned nil, or *)
(* its record is in the dead-letter topic; or the session is over.         *)
SettleTask(t) ==
  /\ running' = running \ {t}
  /\ finishing' = finishing \cup {t}
  /\ settled' = settled \cup {<<t.group, t.offset>>}
  /\ UNCHANGED <<sessionVars, brokerVars, committer, owner>>

AbandonTask(t) ==
  /\ ~ (phase[t.group] = "live" /\ generation[t.group] = t.generation)
  /\ running' = running \ {t}
  /\ UNCHANGED <<sessionVars, brokerVars, committer, owner, finishing, settled>>

(* A mark reaches the session of the group that registered it.             *)
MarkAfter(g, marks) ==
  LET own == {k.offset + 1 : k \in {x \in marks : owner[x.offset] = g}}
  IN  CHOOSE m \in own \cup {marked[g]} : \A k \in own \cup {marked[g]} : k <= m

CompleteTask(t) ==
  /\ marked' = [g \in Group |-> MarkAfter(g, Marks(committer, t.offset, t.generation))]
  /\ committer' = Complete(committer, t.offset, t.generation)
  /\ finishing' = finishing \ {t}
  /\ UNCHANGED <<sessionVars, committed, owner, running, settled>>

Next ==
  \/ \E g \in Group :
       StartSession(g) \/ CancelSession(g) \/ CommitMark(g)
       \/ ReturnClaim(g) \/ ConsumeMessage(g)
  \/ \E t \in running : SettleTask(t) \/ AbandonTask(t)
  \/ \E t \in finishing : CompleteTask(t)
  \/ Crash

Spec == Init /\ [][Next]_vars

(* README.md:47: consumers mark messages only after storage writes,        *)
(* successful retry handling or dead-letter isolation.  For each group: a  *)
(* record behind its committed offset was settled by that group.           *)
CommittedBySelf ==
  \A g \in Group : \A o \in Log : o < committed[g] => <<g, o>> \in settled
=============================================================================
