---------------------------- MODULE RedisStream ----------------------------
(***************************************************************************)
(* The Redis Streams provider: eventbus/redisstream/redisstream.go.  Each  *)
(* consumer of one group runs Subscribe, a single loop that reads a batch  *)
(* of its own pending entries and, only when there was none, a batch of    *)
(* fresh ones.  Redis itself (the group's last delivered entry, pending    *)
(* lists and delivery counts) is modelled from how that loop uses it.      *)
(***************************************************************************)
EXTENDS Integers, Sequences, FiniteSets, SequencesExt

CONSTANTS MaxEntry,    \* bound: entries published to the stream
          Malformed,   \* entries that decode rejects
          Consumer,    \* consumers of the group, one Subscribe call each
          Count,       \* Options.Count
          MaxAttempts, \* Options.MaxAttempts, 0 for unlimited
          HasDeadLetterStream,  \* Options.DeadLetterStream is set
          MaxFaults    \* bound: failed Redis calls and stopped consumers

Entry == 1 .. MaxEntry

ASSUME RedisAssumption ==
  /\ MaxEntry \in Nat /\ Malformed \subseteq Entry
  /\ Count \in Nat \ {0} /\ MaxAttempts \in Nat
  /\ HasDeadLetterStream \in BOOLEAN /\ MaxFaults \in Nat

VARIABLES
  published,     \* entries in the stream
  delivered,     \* the group's last delivered entry
  pending,       \* pending list of each consumer
  retryCount,    \* deliveries Redis has counted for each pending entry
  pc,            \* where each consumer is in Subscribe, or "down"
  batch,         \* entries of its batch it has not finished
  attempt,       \* Message.Attempt of the entry it handles
  tries,         \* handler calls for each entry
  handled,       \* entries whose handler has returned nil
  deadLettered,  \* copies of each entry in the dead-letter stream
  faults         \* faults so far

groupVars    == <<published, delivered, pending, retryCount>>
consumerVars == <<pc, batch, attempt>>
outcomeVars  == <<tries, handled, deadLettered>>
vars == <<groupVars, consumerVars, outcomeVars, faults>>

Init ==
  /\ published = 0 /\ delivered = 0
  /\ pending    = [c \in Consumer |-> {}]
  /\ retryCount = [e \in Entry |-> 0]
  /\ pc      = [c \in Consumer |-> "down"]
  /\ batch   = [c \in Consumer |-> <<>>]
  /\ attempt = [c \in Consumer |-> 0]
  /\ tries = [e \in Entry |-> 0]
  /\ handled = {}
  /\ deadLettered = [e \in Entry |-> 0]
  /\ faults = 0

-----------------------------------------------------------------------------
Goto(c, label) ==
  /\ pc' = [pc EXCEPT ![c] = label]
  /\ UNCHANGED <<batch, attempt>>

(* Subscribe returns: the rest of the batch stays pending in Redis.        *)
Return(c) ==
  /\ pc'      = [pc EXCEPT ![c] = "down"]
  /\ batch'   = [batch EXCEPT ![c] = <<>>]
  /\ attempt' = [attempt EXCEPT ![c] = 0]

(* Mutant of AfterPending: a drained batch is enough.                      *)
AfterAnyBatch == "fresh"

(* processed > 0: pending entries are read again before fresh ones.        *)
AfterPending == "pending"

IsLast(c) == Len(batch[c]) = 1

(* The loop over the batch goes on to the next entry, or ends.             *)
NextEntry(c) ==
  /\ batch'   = [batch EXCEPT ![c] = Tail(@)]
  /\ pc'      = [pc EXCEPT ![c] = IF IsLast(c) THEN AfterPending ELSE "decode"]
  /\ attempt' = [attempt EXCEPT ![c] = 0]

(* Redis counts every delivery; counts past MaxAttempts are all alike.     *)
Bump(n) == IF n > MaxAttempts THEN n ELSE n + 1

(* Bound: handler calls are told apart up to this many.                    *)
Try(n) == IF n > MaxAttempts + MaxFaults THEN n ELSE n + 1

(* The place of an entry among those of a set, in stream order.            *)
Rank(e, entries) == Cardinality({d \in entries : d <= e})

(* The oldest Count entries of a set, in stream order.                     *)
Oldest(entries) ==
  LET size == Cardinality(entries)
  IN  [i \in 1 .. (IF size < Count THEN size ELSE Count) |->
         CHOOSE e \in entries : Rank(e, entries) = i]

-----------------------------------------------------------------------------
Publish ==
  /\ published < MaxEntry
  /\ published' = published + 1
  /\ UNCHANGED <<delivered, pending, retryCount, consumerVars, outcomeVars, faults>>

Subscribe(c) ==
  /\ pc[c] = "down"
  /\ Goto(c, "pending")
  /\ UNCHANGED <<groupVars, outcomeVars, faults>>

(* XReadGroup delivers these entries to the consumer.                      *)
Deliver(c, entries) ==
  /\ pending' = [pending EXCEPT ![c] = @ \cup Range(entries)]
  /\ retryCount' = [e \in Entry |->
       IF e \in Range(entries) THEN Bump(retryCount[e]) ELSE retryCount[e]]

TakeBatch(c, entries) ==
  /\ pc'    = [pc EXCEPT ![c] = "decode"]
  /\ batch' = [batch EXCEPT ![c] = entries]
  /\ UNCHANGED attempt

PendingBatch(c) == Oldest(pending[c])

FreshCount ==
  IF published - delivered < Count THEN published - delivered ELSE Count

FreshBatch == [i \in 1 .. FreshCount |-> delivered + i]

ReadPending(c) ==
  /\ pc[c] = "pending"
  /\ \/ pending[c] = {} /\ Goto(c, "fresh") /\ UNCHANGED <<pending, retryCount>>
     \/ /\ pending[c] # {}
        /\ Deliver(c, PendingBatch(c)) /\ TakeBatch(c, PendingBatch(c))
  /\ UNCHANGED <<published, delivered, outcomeVars, faults>>

(* The blocking read, or its timeout.                                      *)
ReadFresh(c) ==
  /\ pc[c] = "fresh"
  /\ Deliver(c, FreshBatch)
  /\ delivered' = delivered + FreshCount
  /\ IF FreshCount = 0 THEN Goto(c, "pending") ELSE TakeBatch(c, FreshBatch)
  /\ UNCHANGED <<published, outcomeVars, faults>>

(* Mutant of Settle: the entry stays in the pending list.                  *)
SettleNothing(c) == UNCHANGED pending

(* XAck removes the entry from the pending list.                           *)
Settle(c) == pending' = [pending EXCEPT ![c] = @ \ {Head(batch[c])}]

(* Mutant of RejectEntry: a malformed entry is skipped.                    *)
DropEntry(c) == Settle(c) /\ NextEntry(c)

(* An entry that does not decode ends Subscribe.                           *)
RejectEntry(c) == Return(c) /\ UNCHANGED pending

(* decode, with deliveryAttempt, and the call of the handler.              *)
Decode(c) ==
  LET e == Head(batch[c])
  IN  /\ pc[c] = "decode"
      /\ \/ e \in Malformed /\ RejectEntry(c) /\ UNCHANGED tries
         \/ /\ e \notin Malformed
            /\ pc' = [pc EXCEPT ![c] = "handle"]
            /\ attempt' = [attempt EXCEPT ![c] = retryCount[e]]
            /\ tries' = [tries EXCEPT ![e] = Try(@)]
            /\ UNCHANGED <<batch, pending>>
      /\ UNCHANGED <<published, delivered, retryCount, handled, deadLettered, faults>>

HandlerSucceeds(c) ==
  /\ pc[c] = "handle"
  /\ handled' = handled \cup {Head(batch[c])}
  /\ Goto(c, "ack")
  /\ UNCHANGED <<groupVars, tries, deadLettered, faults>>

(* Mutant of StaysPending: attempts are never exhausted.                   *)
AlwaysRetry(c) == TRUE

StaysPending(c) ==
  MaxAttempts = 0 \/ attempt[c] < MaxAttempts \/ ~ HasDeadLetterStream

HandlerFails(c) ==
  /\ pc[c] = "handle"
  /\ IF StaysPending(c) THEN NextEntry(c) ELSE Goto(c, "isolate")
  /\ UNCHANGED <<groupVars, outcomeVars, faults>>

StoreDeadLetter(c) ==
  deadLettered' = [deadLettered EXCEPT ![Head(batch[c])] = @ + 1]

(* Dead-letter first, then acknowledge the original.                       *)
DeadLetter(c) ==
  /\ pc[c] = "isolate"
  /\ StoreDeadLetter(c)
  /\ Goto(c, "ack")
  /\ UNCHANGED <<groupVars, tries, handled, faults>>

Ack(c) ==
  /\ pc[c] = "ack"
  /\ Settle(c)
  /\ NextEntry(c)
  /\ UNCHANGED <<published, delivered, retryCount, outcomeVars, faults>>

(* A Redis call reports an error, whether or not it took effect, and ends  *)
(* Subscribe.                                                              *)
RedisFails(c) ==
  /\ pc[c] \in {"pending", "fresh", "decode", "isolate", "ack"}
  /\ faults < MaxFaults /\ faults' = faults + 1
  /\ \/ UNCHANGED <<pending, retryCount, delivered, deadLettered>>
     \/ pc[c] = "pending" /\ Deliver(c, PendingBatch(c)) /\ UNCHANGED <<delivered, deadLettered>>
     \/ /\ pc[c] = "fresh" /\ Deliver(c, FreshBatch)
        /\ delivered' = delivered + FreshCount /\ UNCHANGED deadLettered
     \/ pc[c] = "isolate" /\ StoreDeadLetter(c) /\ UNCHANGED <<pending, retryCount, delivered>>
     \/ pc[c] = "ack" /\ Settle(c) /\ UNCHANGED <<retryCount, delivered, deadLettered>>
  /\ Return(c)
  /\ UNCHANGED <<published, tries, handled>>

(* The consumer's process dies or its context is cancelled.                *)
Stop(c) ==
  /\ pc[c] # "down"
  /\ faults < MaxFaults /\ faults' = faults + 1
  /\ Return(c)
  /\ UNCHANGED <<groupVars, outcomeVars>>

-----------------------------------------------------------------------------
Consume(c) ==
  \/ ReadPending(c) \/ ReadFresh(c) \/ Decode(c)
  \/ HandlerSucceeds(c) \/ HandlerFails(c) \/ DeadLetter(c) \/ Ack(c)

Next ==
  \/ Publish
  \/ \E c \in Consumer : Subscribe(c) \/ Consume(c) \/ RedisFails(c) \/ Stop(c)

Spec == Init /\ [][Next]_vars

(* A stopped consumer is started again under its name, and each loop runs. *)
FairSpec ==
  /\ Spec
  /\ \A c \in Consumer : WF_vars(Subscribe(c)) /\ WF_vars(Consume(c))

-----------------------------------------------------------------------------
Settled == handled \cup {e \in Entry : deadLettered[e] > 0}

(* An entry leaves the group's pending lists only once it is handled or    *)
(* dead-lettered, whatever call fails in between (README.md:47).           *)
NothingLost ==
  \A e \in 1 .. delivered : e \in Settled \/ \E c \in Consumer : e \in pending[c]

(* Without faults no entry is both handled and dead-lettered, or           *)
(* dead-lettered twice, or given up before MaxAttempts handler calls.      *)
ExactWithoutFaults ==
  faults = 0 =>
    \A e \in Entry : deadLettered[e] > 0 =>
      e \notin handled /\ deadLettered[e] = 1 /\ tries[e] = MaxAttempts

(* A consumer reads fresh entries only while it has none pending, across   *)
(* batches, failed handlers and restarts.                                  *)
FreshOnlyWhenDrained == \A c \in Consumer : pc[c] = "fresh" => pending[c] = {}

(* The loop ends at a malformed entry whenever it reads it, and reads it   *)
(* before the entries behind it.                                           *)
Blocked(e) ==
  \E c \in Consumer :
    e \in pending[c] /\ \E m \in Malformed \cap pending[c] : m <= e

(* Every delivered entry is settled and acknowledged in the end, through   *)
(* failing handlers, dead-letter writes and restarts, unless an entry that *)
(* does not decode is pending before it in the same consumer's list.       *)
EventuallySettled ==
  \A e \in Entry :
    delivered >= e ~>
      (e \in Settled /\ \A c \in Consumer : e \notin pending[c]) \/ Blocked(e)

=============================================================================
