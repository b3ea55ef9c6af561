------------------------- MODULE RedisStreamProofs -------------------------
(***************************************************************************)
(* For every number of entries, consumers, attempts and faults: no entry   *)
(* leaves the pending lists unsettled, and no consumer takes fresh entries *)
(* while it has pending ones.  Which entries a batch of pending ones holds *)
(* does not matter to either.  It matters to the third result, that        *)
(* without faults dead letters are exact: an entry that cannot be decoded  *)
(* cuts a batch short after Redis has counted all of it, and what is       *)
(* behind that entry is never handled because batches keep stream order.   *)
(***************************************************************************)
EXTENDS RedisStream, FiniteSetTheorems, TLAPS

Labels == {"down", "pending", "fresh", "decode", "handle", "isolate", "ack"}

(* The types the two invariants need.                                      *)
Shape ==
  /\ published \in 0 .. MaxEntry /\ delivered \in 0 .. published
  /\ DOMAIN pending = Consumer
  /\ pc \in [Consumer -> Labels] /\ DOMAIN batch = Consumer
  /\ deadLettered \in [Entry -> Nat]

(* Only what is settled is acknowledged.                                   *)
AckSettled ==
  \A c \in Consumer : pc[c] = "ack" =>
    \A e \in Entry : e = Head(batch[c]) => e \in Settled

StreamInv == Shape /\ AckSettled /\ NothingLost /\ FreshOnlyWhenDrained

LEMMA InitStreamInv == Init => StreamInv
<1> SUFFICES ASSUME Init PROVE StreamInv
  OBVIOUS
<1>1. Shape
  BY RedisAssumption DEF Init, Shape, Labels, Entry
<1>2. AckSettled /\ NothingLost /\ FreshOnlyWhenDrained
  BY DEF Init, AckSettled, NothingLost, FreshOnlyWhenDrained
<1>3. QED
  BY <1>1, <1>2 DEF StreamInv

-----------------------------------------------------------------------------
(* A read may deliver anything: the lists of the others stay as they are,  *)
(* and the reader's own only grows.                                        *)
LEMMA DeliverGrows ==
  ASSUME Shape, NEW c \in Consumer, NEW entries, Deliver(c, entries)
  PROVE  /\ DOMAIN pending' = Consumer
         /\ \A d \in Consumer \ {c} : pending'[d] = pending[d]
         /\ pending'[c] = pending[c] \cup Range(entries)
  BY DEF Deliver, Shape

(* A fresh read delivers every entry that it moves the group past.         *)
LEMMA FreshRange ==
  ASSUME Shape
  PROVE  /\ FreshCount \in Nat /\ delivered + FreshCount <= published
         /\ Range(FreshBatch) = (delivered + 1) .. (delivered + FreshCount)
<1>1. FreshCount \in Nat /\ delivered \in Nat /\ delivered + FreshCount <= published
  BY RedisAssumption DEF Shape, FreshCount
<1>2. Range(FreshBatch) = {delivered + i : i \in 1 .. FreshCount}
  BY DEF FreshBatch, Range
<1>3. ASSUME NEW e \in (delivered + 1) .. (delivered + FreshCount)
      PROVE  e - delivered \in 1 .. FreshCount /\ e = delivered + (e - delivered)
  BY <1>1
<1>4. QED
  BY <1>1, <1>2, <1>3

LEMMA DeliveredEntries == ASSUME Shape PROVE 1 .. delivered \subseteq Entry
  BY RedisAssumption DEF Shape, Entry

LEMMA SameSettled ==
  ASSUME UNCHANGED <<handled, deadLettered>>
  PROVE  Settled' = Settled
  BY DEF Settled

-----------------------------------------------------------------------------
(* The steps: first what moves entries, then what settles them.            *)

(* A step of c that leaves the lists and the group's position alone and    *)
(* does not lead to an acknowledgement or a fresh read.                    *)
LEMMA PlainStep ==
  ASSUME StreamInv, NEW c \in Consumer, Shape',
         UNCHANGED <<delivered, pending>>,
         Settled \cap Entry \subseteq Settled',
         \A d \in Consumer \ {c} : pc'[d] = pc[d] /\ batch'[d] = batch[d],
         pc'[c] \notin {"ack", "fresh"}
  PROVE  StreamInv'
<1>1. AckSettled'
  BY DEF StreamInv, AckSettled, Shape
<1>2. NothingLost'
  BY DeliveredEntries DEF StreamInv, NothingLost
<1>3. FreshOnlyWhenDrained'
  BY DEF StreamInv, FreshOnlyWhenDrained
<1>4. QED
  BY <1>1, <1>2, <1>3 DEF StreamInv

LEMMA PendingReadStep ==
  ASSUME StreamInv, NEW c \in Consumer, NEW entries, Shape',
         Deliver(c, entries), UNCHANGED <<delivered, handled, deadLettered>>,
         \A d \in Consumer \ {c} : pc'[d] = pc[d] /\ batch'[d] = batch[d],
         pc'[c] # "ack", pc'[c] = "fresh" => pending'[c] = {}
  PROVE  StreamInv'
<1>1. /\ \A d \in Consumer \ {c} : pending'[d] = pending[d]
      /\ pending[c] \subseteq pending'[c]
  BY DeliverGrows DEF StreamInv
<1>2. AckSettled'
  BY SameSettled DEF StreamInv, AckSettled
<1>3. NothingLost'
  BY <1>1, SameSettled DEF StreamInv, NothingLost
<1>4. FreshOnlyWhenDrained'
  BY <1>1 DEF StreamInv, FreshOnlyWhenDrained
<1>5. QED
  BY <1>2, <1>3, <1>4 DEF StreamInv

LEMMA FreshReadStep ==
  ASSUME StreamInv, NEW c \in Consumer, Shape',
         Deliver(c, FreshBatch), delivered' = delivered + FreshCount,
         UNCHANGED <<handled, deadLettered>>,
         \A d \in Consumer \ {c} : pc'[d] = pc[d] /\ batch'[d] = batch[d],
         pc'[c] \notin {"ack", "fresh"}
  PROVE  StreamInv'
<1>1. /\ \A d \in Consumer \ {c} : pending'[d] = pending[d]
      /\ pending'[c] = pending[c] \cup ((delivered + 1) .. (delivered + FreshCount))
  BY DeliverGrows, FreshRange DEF StreamInv
<1>2. AckSettled'
  BY SameSettled DEF StreamInv, AckSettled
<1>3. ASSUME NEW e \in 1 .. delivered'
      PROVE  e \in 1 .. delivered \/ e \in (delivered + 1) .. (delivered + FreshCount)
  BY FreshRange DEF StreamInv, Shape
<1>4. NothingLost'
  BY <1>1, <1>3, SameSettled DEF StreamInv, NothingLost
<1>5. FreshOnlyWhenDrained'
  BY <1>1 DEF StreamInv, FreshOnlyWhenDrained
<1>6. QED
  BY <1>2, <1>4, <1>5 DEF StreamInv

LEMMA SettleStep ==
  ASSUME StreamInv, NEW c \in Consumer, Shape', pc[c] = "ack",
         Settle(c), UNCHANGED <<delivered, handled, deadLettered>>,
         \A d \in Consumer \ {c} : pc'[d] = pc[d] /\ batch'[d] = batch[d],
         pc'[c] \notin {"ack", "fresh"}
  PROVE  StreamInv'
<1>1. /\ \A d \in Consumer \ {c} : pending'[d] = pending[d]
      /\ pending'[c] = pending[c] \ {Head(batch[c])}
  BY DEF StreamInv, Shape, Settle
<1>2. AckSettled'
  BY SameSettled DEF StreamInv, AckSettled
<1>3. ASSUME NEW e \in 1 .. delivered
      PROVE  e \in Settled \/ \E d \in Consumer : e \in pending'[d]
  <2>1. e \in Entry
    BY DeliveredEntries DEF StreamInv
  <2>2. CASE e = Head(batch[c])
    BY <2>1, <2>2 DEF StreamInv, AckSettled
  <2>3. CASE e # Head(batch[c])
    BY <1>1, <2>3 DEF StreamInv, NothingLost
  <2>4. QED
    BY <2>2, <2>3
<1>4. NothingLost'
  BY <1>3, SameSettled DEF NothingLost
<1>5. FreshOnlyWhenDrained'
  BY <1>1 DEF StreamInv, FreshOnlyWhenDrained
<1>6. QED
  BY <1>2, <1>4, <1>5 DEF StreamInv

(* The handler returned nil, or the dead-letter entry is stored.           *)
LEMMA OutcomeStep ==
  ASSUME StreamInv, NEW c \in Consumer, Goto(c, "ack"),
         UNCHANGED <<published, delivered, pending>>,
         deadLettered' \in [Entry -> Nat],
         Settled \cap Entry \subseteq Settled',
         \A e \in Entry : e = Head(batch[c]) => e \in Settled'
  PROVE  StreamInv'
<1>1. Shape'
  BY DEF StreamInv, Shape, Goto, Labels
<1>2. AckSettled'
  BY DEF StreamInv, Shape, AckSettled, Goto
<1>3. NothingLost'
  BY DeliveredEntries DEF StreamInv, NothingLost
<1>4. FreshOnlyWhenDrained'
  BY DEF StreamInv, Shape, FreshOnlyWhenDrained, Goto
<1>5. QED
  BY <1>1, <1>2, <1>3, <1>4 DEF StreamInv

-----------------------------------------------------------------------------
LEMMA ReturnShape ==
  ASSUME Shape, NEW c \in Consumer, Return(c)
  PROVE  /\ pc' \in [Consumer -> Labels] /\ DOMAIN batch' = Consumer
         /\ \A d \in Consumer \ {c} : pc'[d] = pc[d] /\ batch'[d] = batch[d]
         /\ pc'[c] = "down"
  BY DEF Shape, Return, Labels

LEMMA NextEntryShape ==
  ASSUME Shape, NEW c \in Consumer, NextEntry(c)
  PROVE  /\ pc' \in [Consumer -> Labels] /\ DOMAIN batch' = Consumer
         /\ \A d \in Consumer \ {c} : pc'[d] = pc[d] /\ batch'[d] = batch[d]
         /\ pc'[c] \in {"pending", "decode"}
  BY DEF Shape, NextEntry, AfterPending, Labels

LEMMA GotoShape ==
  ASSUME Shape, NEW c \in Consumer, NEW label \in Labels, Goto(c, label)
  PROVE  /\ pc' \in [Consumer -> Labels] /\ DOMAIN batch' = Consumer
         /\ \A d \in Consumer \ {c} : pc'[d] = pc[d] /\ batch'[d] = batch[d]
         /\ pc'[c] = label
  BY DEF Shape, Goto

LEMMA TakeBatchShape ==
  ASSUME Shape, NEW c \in Consumer, NEW entries, TakeBatch(c, entries)
  PROVE  /\ pc' \in [Consumer -> Labels] /\ DOMAIN batch' = Consumer
         /\ \A d \in Consumer \ {c} : pc'[d] = pc[d] /\ batch'[d] = batch[d]
         /\ pc'[c] = "decode"
  BY DEF Shape, TakeBatch, Labels

(* A dead-letter copy is stored, of whatever heads the batch.              *)
LEMMA StoreSettles ==
  ASSUME Shape, NEW c \in Consumer, StoreDeadLetter(c), UNCHANGED handled
  PROVE  /\ deadLettered' \in [Entry -> Nat]
         /\ Settled \cap Entry \subseteq Settled'
         /\ \A e \in Entry : e = Head(batch[c]) => e \in Settled'
<1>1. /\ deadLettered' \in [Entry -> Nat]
      /\ \A e \in Entry : deadLettered[e] > 0 \/ e = Head(batch[c]) => deadLettered'[e] > 0
  <2> DEFINE h == Head(batch[c])
  <2>1. deadLettered \in [Entry -> Nat] /\ deadLettered' = [deadLettered EXCEPT ![h] = @ + 1]
    BY DEF Shape, StoreDeadLetter
  <2> HIDE DEF h
  <2>2. ASSUME NEW e \in Entry
        PROVE  deadLettered[e] \in Nat
               /\ deadLettered'[e] = IF e = h THEN deadLettered[e] + 1 ELSE deadLettered[e]
    BY <2>1
  <2>3. \A e \in Entry : /\ deadLettered'[e] \in Nat
                         /\ deadLettered[e] > 0 \/ e = h => deadLettered'[e] > 0
    BY <2>2
  <2>4. deadLettered' \in [Entry -> Nat]
    BY <2>1, <2>3
  <2>5. QED
    BY <2>3, <2>4 DEF h
<1>2. ASSUME NEW e \in Entry, e \in Settled \/ e = Head(batch[c]) PROVE e \in Settled'
  BY <1>1, <1>2 DEF Settled
<1>3. QED
  BY <1>1, <1>2

LEMMA SubscribeInv ==
  ASSUME StreamInv, NEW c \in Consumer, Subscribe(c)
  PROVE  StreamInv'
<1>1. /\ pc' \in [Consumer -> Labels] /\ DOMAIN batch' = Consumer
      /\ \A d \in Consumer \ {c} : pc'[d] = pc[d] /\ batch'[d] = batch[d]
      /\ pc'[c] = "pending"
  BY GotoShape DEF StreamInv, Subscribe, Labels
<1>2. UNCHANGED <<published, delivered, pending, handled, deadLettered>>
  BY DEF Subscribe, groupVars, outcomeVars
<1>3. Shape'
  BY <1>1, <1>2 DEF StreamInv, Shape
<1>4. QED
  BY <1>1, <1>2, <1>3, SameSettled, PlainStep

LEMMA ReadPendingInv ==
  ASSUME StreamInv, NEW c \in Consumer, ReadPending(c)
  PROVE  StreamInv'
<1> USE DEF StreamInv
<1>1. CASE pending[c] = {} /\ Goto(c, "fresh") /\ UNCHANGED <<pending, retryCount>>
  <2>1. Shape' /\ \A d \in Consumer \ {c} : pc'[d] = pc[d] /\ batch'[d] = batch[d]
    BY <1>1, GotoShape DEF ReadPending, outcomeVars, Shape, Labels
  <2>2. pc'[c] = "fresh" /\ Settled' = Settled
    BY <1>1, GotoShape, SameSettled DEF ReadPending, outcomeVars, Labels
  <2>3. UNCHANGED <<delivered, pending>>
    BY <1>1 DEF ReadPending
  <2>4. QED
    BY <1>1, <2>1, <2>2, <2>3 DEF AckSettled, NothingLost, FreshOnlyWhenDrained
<1>2. CASE Deliver(c, PendingBatch(c)) /\ TakeBatch(c, PendingBatch(c))
  <2>1. /\ Shape' /\ pc'[c] = "decode"
        /\ \A d \in Consumer \ {c} : pc'[d] = pc[d] /\ batch'[d] = batch[d]
    BY <1>2, DeliverGrows, TakeBatchShape DEF ReadPending, outcomeVars, Shape
  <2>2. QED
    BY <1>2, <2>1, PendingReadStep DEF ReadPending, outcomeVars
<1>3. QED
  BY <1>1, <1>2 DEF ReadPending

LEMMA ReadFreshInv ==
  ASSUME StreamInv, NEW c \in Consumer, ReadFresh(c)
  PROVE  StreamInv'
<1>0. Shape
  BY DEF StreamInv
<1>1. /\ pc' \in [Consumer -> Labels] /\ DOMAIN batch' = Consumer
      /\ \A d \in Consumer \ {c} : pc'[d] = pc[d] /\ batch'[d] = batch[d]
      /\ pc'[c] \in {"pending", "decode"}
  <2>1. CASE Goto(c, "pending")
    BY <1>0, <2>1, GotoShape DEF Labels
  <2>2. CASE TakeBatch(c, FreshBatch)
    BY <1>0, <2>2, TakeBatchShape
  <2>3. QED
    BY <2>1, <2>2 DEF ReadFresh
<1>2. DOMAIN pending' = Consumer
  BY <1>0, DeliverGrows DEF ReadFresh
<1>3. delivered' \in 0 .. published'
  BY <1>0, FreshRange DEF ReadFresh, Shape
<1>4. Shape'
  BY <1>0, <1>1, <1>2, <1>3 DEF ReadFresh, outcomeVars, Shape
<1>5. QED
  BY <1>1, <1>4, FreshReadStep DEF ReadFresh, outcomeVars

LEMMA DecodeInv ==
  ASSUME StreamInv, NEW c \in Consumer, Decode(c)
  PROVE  StreamInv'
<1>0. Shape
  BY DEF StreamInv
<1>1. /\ pc' \in [Consumer -> Labels] /\ DOMAIN batch' = Consumer
      /\ \A d \in Consumer \ {c} : pc'[d] = pc[d] /\ batch'[d] = batch[d]
      /\ pc'[c] \in {"down", "handle"}
  <2>1. CASE RejectEntry(c)
    BY <1>0, <2>1, ReturnShape DEF RejectEntry
  <2>2. CASE ~ RejectEntry(c)
    BY <1>0, <2>2 DEF Decode, Shape, Labels
  <2>3. QED
    BY <2>1, <2>2
<1>2. UNCHANGED <<published, delivered, pending, handled, deadLettered>>
  BY DEF Decode, RejectEntry
<1>3. Shape'
  BY <1>0, <1>1, <1>2 DEF Shape
<1>4. QED
  BY <1>1, <1>2, <1>3, SameSettled, PlainStep

LEMMA HandlerSucceedsInv ==
  ASSUME StreamInv, NEW c \in Consumer, HandlerSucceeds(c)
  PROVE  StreamInv'
<1>1. Settled \subseteq Settled' /\ Head(batch[c]) \in Settled'
  BY DEF HandlerSucceeds, Settled
<1>2. deadLettered' \in [Entry -> Nat]
  BY DEF StreamInv, Shape, HandlerSucceeds
<1>3. QED
  BY <1>1, <1>2, OutcomeStep DEF HandlerSucceeds, groupVars

LEMMA DeadLetterInv ==
  ASSUME StreamInv, NEW c \in Consumer, DeadLetter(c)
  PROVE  StreamInv'
  BY StoreSettles, OutcomeStep DEF StreamInv, DeadLetter, groupVars

LEMMA HandlerFailsInv ==
  ASSUME StreamInv, NEW c \in Consumer, HandlerFails(c)
  PROVE  StreamInv'
<1>0. Shape
  BY DEF StreamInv
<1>1. /\ pc' \in [Consumer -> Labels] /\ DOMAIN batch' = Consumer
      /\ \A d \in Consumer \ {c} : pc'[d] = pc[d] /\ batch'[d] = batch[d]
      /\ pc'[c] \in {"pending", "decode", "isolate"}
  <2>1. CASE NextEntry(c)
    BY <1>0, <2>1, NextEntryShape
  <2>2. CASE Goto(c, "isolate")
    BY <1>0, <2>2, GotoShape DEF Labels
  <2>3. QED
    BY <2>1, <2>2 DEF HandlerFails
<1>2. UNCHANGED <<published, delivered, pending, handled, deadLettered>>
  BY DEF HandlerFails, groupVars, outcomeVars
<1>3. Shape'
  BY <1>0, <1>1, <1>2 DEF Shape
<1>4. QED
  BY <1>1, <1>2, <1>3, SameSettled, PlainStep

LEMMA AckInv ==
  ASSUME StreamInv, NEW c \in Consumer, Ack(c)
  PROVE  StreamInv'
<1>0. Shape
  BY DEF StreamInv
<1>1. /\ pc' \in [Consumer -> Labels] /\ DOMAIN batch' = Consumer
      /\ \A d \in Consumer \ {c} : pc'[d] = pc[d] /\ batch'[d] = batch[d]
      /\ pc'[c] \in {"pending", "decode"}
  BY <1>0, NextEntryShape DEF Ack
<1>2. Shape'
  BY <1>0, <1>1 DEF Ack, Settle, outcomeVars, Shape
<1>3. QED
  BY <1>1, <1>2, SettleStep DEF Ack, outcomeVars

-----------------------------------------------------------------------------
(* A call that fails did all of it, or none.                               *)
LEMMA RedisFailsInv ==
  ASSUME StreamInv, NEW c \in Consumer, RedisFails(c)
  PROVE  StreamInv'
<1>0. Shape
  BY DEF StreamInv
<1>1. /\ pc' \in [Consumer -> Labels] /\ DOMAIN batch' = Consumer
      /\ \A d \in Consumer \ {c} : pc'[d] = pc[d] /\ batch'[d] = batch[d]
      /\ pc'[c] = "down"
  BY <1>0, ReturnShape DEF RedisFails
<1>2. UNCHANGED <<published, handled>>
  BY DEF RedisFails
<1>3. CASE UNCHANGED <<pending, retryCount, delivered, deadLettered>>
  <2>1. Shape'
    BY <1>0, <1>1, <1>2, <1>3 DEF Shape
  <2>2. QED
    BY <1>1, <1>2, <1>3, <2>1, SameSettled, PlainStep
<1>4. CASE Deliver(c, PendingBatch(c)) /\ UNCHANGED <<delivered, deadLettered>>
  <2>1. Shape'
    BY <1>0, <1>1, <1>2, <1>4, DeliverGrows DEF Shape
  <2>2. QED
    BY <1>1, <1>2, <1>4, <2>1, PendingReadStep
<1>5. CASE /\ Deliver(c, FreshBatch)
           /\ delivered' = delivered + FreshCount /\ UNCHANGED deadLettered
  <2>1. delivered' \in 0 .. published' /\ DOMAIN pending' = Consumer
    BY <1>0, <1>2, <1>5, DeliverGrows, FreshRange DEF Shape
  <2>2. Shape'
    BY <1>0, <1>1, <1>2, <1>5, <2>1 DEF Shape
  <2>3. QED
    BY <1>1, <1>2, <1>5, <2>2, FreshReadStep
<1>6. CASE StoreDeadLetter(c) /\ UNCHANGED <<pending, retryCount, delivered>>
  <2>1. /\ deadLettered' \in [Entry -> Nat]
        /\ Settled \cap Entry \subseteq Settled'
    BY <1>0, <1>2, <1>6, StoreSettles
  <2>2. Shape'
    BY <1>0, <1>1, <1>2, <1>6, <2>1 DEF Shape
  <2>3. QED
    BY <1>1, <1>6, <2>1, <2>2, PlainStep
<1>7. CASE /\ pc[c] = "ack" /\ Settle(c)
           /\ UNCHANGED <<retryCount, delivered, deadLettered>>
  <2>1. Shape'
    BY <1>0, <1>1, <1>2, <1>7 DEF Settle, Shape
  <2>2. QED
    BY <1>1, <1>2, <1>7, <2>1, SettleStep
<1>8. QED
  BY <1>3, <1>4, <1>5, <1>6, <1>7 DEF RedisFails

LEMMA StopInv ==
  ASSUME StreamInv, NEW c \in Consumer, Stop(c)
  PROVE  StreamInv'
<1>1. /\ pc' \in [Consumer -> Labels] /\ DOMAIN batch' = Consumer
      /\ \A d \in Consumer \ {c} : pc'[d] = pc[d] /\ batch'[d] = batch[d]
      /\ pc'[c] = "down"
  BY ReturnShape DEF StreamInv, Stop
<1>2. UNCHANGED <<published, delivered, pending, handled, deadLettered>>
  BY DEF Stop, groupVars, outcomeVars
<1>3. Shape'
  BY <1>1, <1>2 DEF StreamInv, Shape
<1>4. QED
  BY <1>1, <1>2, <1>3, SameSettled, PlainStep

(* Steps of no consumer.                                                   *)
LEMMA QuietInv ==
  ASSUME StreamInv, UNCHANGED <<delivered, pending, pc, batch, handled, deadLettered>>,
         published' \in published .. MaxEntry
  PROVE  StreamInv'
<1>1. Shape'
  BY DEF StreamInv, Shape
<1>2. QED
  BY <1>1, SameSettled
  DEF StreamInv, AckSettled, NothingLost, FreshOnlyWhenDrained

LEMMA NextStreamInv == StreamInv /\ [Next]_vars => StreamInv'
<1> SUFFICES ASSUME StreamInv, [Next]_vars PROVE StreamInv'
  OBVIOUS
<1>1. CASE Publish
  <2>1. published' \in published .. MaxEntry
    BY <1>1, RedisAssumption DEF StreamInv, Shape, Publish
  <2>2. QED
    BY <1>1, <2>1, QuietInv DEF Publish, consumerVars, outcomeVars
<1>2. CASE UNCHANGED vars
  <2>1. published' \in published .. MaxEntry
    BY <1>2, RedisAssumption DEF StreamInv, Shape, vars, groupVars
  <2>2. QED
    BY <1>2, <2>1, QuietInv DEF vars, groupVars, consumerVars, outcomeVars
<1>3. ASSUME NEW c \in Consumer, Subscribe(c) \/ Consume(c) \/ RedisFails(c) \/ Stop(c)
      PROVE  StreamInv'
  BY <1>3, SubscribeInv, ReadPendingInv, ReadFreshInv, DecodeInv, HandlerSucceedsInv,
     HandlerFailsInv, DeadLetterInv, AckInv, RedisFailsInv, StopInv
  DEF Consume
<1>4. QED
  BY <1>1, <1>2, <1>3 DEF Next

LEMMA StreamInductive == Spec => []StreamInv
<1>1. QED
  BY InitStreamInv, NextStreamInv, PTL DEF Spec

(* No entry leaves the pending lists before it is handled or dead-lettered, *)
(* whichever Redis call fails, and however consumers stop and return.      *)
THEOREM NoEntryIsLost == Spec => []NothingLost
<1>1. StreamInv => NothingLost
  BY DEF StreamInv
<1>2. QED
  BY <1>1, StreamInductive, PTL

(* A consumer asks for fresh entries only while it has none pending.       *)
THEOREM PendingBeforeFresh == Spec => []FreshOnlyWhenDrained
<1>1. StreamInv => FreshOnlyWhenDrained
  BY DEF StreamInv
<1>2. QED
  BY <1>1, StreamInductive, PTL

-----------------------------------------------------------------------------
(* The oldest entries of a set: ranks number them from 1 without a gap.    *)
Increasing(s) == \A i, j \in 1 .. Len(s) : i < j => s[i] < s[j]

LEMMA FiniteEntries ==
  ASSUME NEW S \in SUBSET Entry
  PROVE  IsFiniteSet(S) /\ Cardinality(S) \in Nat
<1>1. IsFiniteSet(Entry)
  BY RedisAssumption, FS_Interval DEF Entry
<1>2. QED
  BY <1>1, FS_Subset, FS_CardinalityType

LEMMA EntriesAreNumbers == \A S \in SUBSET Entry : \A e \in S : e \in Nat /\ e \in Entry
  BY RedisAssumption DEF Entry

LEMMA RankType ==
  ASSUME NEW S \in SUBSET Entry, NEW e \in S
  PROVE  Rank(e, S) \in 1 .. Cardinality(S)
<1> DEFINE upTo == {d \in S : d <= e}
<1>1. upTo \in SUBSET Entry /\ upTo \in SUBSET S /\ e \in upTo
  BY EntriesAreNumbers
<1>2. S \in SUBSET Entry /\ Rank(e, S) = Cardinality(upTo)
  BY DEF Rank
<1> HIDE DEF upTo
<1>3. /\ IsFiniteSet(S) /\ Cardinality(S) \in Nat
      /\ IsFiniteSet(upTo) /\ Cardinality(upTo) \in Nat
  BY <1>1, <1>2, FiniteEntries
<1>4. Cardinality(upTo) <= Cardinality(S)
  BY <1>1, <1>3, FS_Subset
<1>5. Cardinality(upTo) # 0
  BY <1>1, <1>3, FS_EmptySet
<1>6. QED
  BY <1>2, <1>3, <1>4, <1>5

LEMMA RankOrders ==
  ASSUME NEW S \in SUBSET Entry, NEW d \in S, NEW e \in S, d < e
  PROVE  Rank(d, S) < Rank(e, S)
<1> DEFINE less == {x \in S : x <= d}
           more == {x \in S : x <= e}
<1>1. /\ less \in SUBSET Entry /\ more \in SUBSET Entry
      /\ less \in SUBSET more /\ e \in more /\ e \notin less
  BY EntriesAreNumbers
<1>2. Rank(d, S) = Cardinality(less) /\ Rank(e, S) = Cardinality(more)
  BY DEF Rank
<1> HIDE DEF less, more
<1>3. /\ IsFiniteSet(less) /\ Cardinality(less) \in Nat
      /\ IsFiniteSet(more) /\ Cardinality(more) \in Nat
  BY <1>1, FiniteEntries
<1>4. Cardinality(less) <= Cardinality(more) /\ Cardinality(less) # Cardinality(more)
  BY <1>1, <1>3, FS_Subset
<1>5. QED
  BY <1>2, <1>3, <1>4

LEMMA RankInjective ==
  ASSUME NEW S \in SUBSET Entry, NEW d \in S, NEW e \in S, Rank(d, S) = Rank(e, S)
  PROVE  d = e
<1>1. d \in Nat /\ e \in Nat /\ Rank(d, S) \in Int
  BY RankType, EntriesAreNumbers
<1>2. ~ (d < e) /\ ~ (e < d)
  BY <1>1, RankOrders
<1>3. QED
  BY <1>1, <1>2

(* As many ranks as entries, so every place is taken.                      *)
LEMMA RankOnto ==
  ASSUME NEW S \in SUBSET Entry, NEW i \in 1 .. Cardinality(S)
  PROVE  \E e \in S : Rank(e, S) = i
<1> DEFINE places == 1 .. Cardinality(S)
           place  == [e \in S |-> Rank(e, S)]
<1>1. IsFiniteSet(S) /\ Cardinality(S) \in Nat
  BY FiniteEntries
<1>2. IsFiniteSet(places) /\ Cardinality(places) = Cardinality(S)
  BY <1>1, FS_Interval
<1>3. place \in [S -> places]
  BY RankType
<1>4. \A d, e \in S : place[d] = place[e] => d = e
  BY RankInjective
<1>5. place \in Injection(S, places)
  BY <1>3, <1>4 DEF Injection, IsInjective
<1>6. place \in Surjection(S, places)
  <2> HIDE DEF place, places
  <2>1. QED
    BY <1>2, <1>5, FS_Injection
<1>7. PICK e \in S : place[e] = i
  BY <1>6 DEF Surjection
<1>8. QED
  BY <1>7

LEMMA OldestFacts ==
  ASSUME NEW S \in SUBSET Entry, S # {}
  PROVE  /\ Oldest(S) \in Seq(Entry) /\ Len(Oldest(S)) > 0
         /\ Increasing(Oldest(S)) /\ Range(Oldest(S)) \subseteq S
         /\ \A e \in S : \A i \in 1 .. Len(Oldest(S)) :
              e < Oldest(S)[i] => e \in Range(Oldest(S))
<1> DEFINE size == Cardinality(S)
           taken == IF size < Count THEN size ELSE Count
           nth(i) == CHOOSE e \in S : Rank(e, S) = i
           oldest == [i \in 1 .. taken |-> nth(i)]
<1>1. size \in Nat \ {0}
  BY FiniteEntries, FS_EmptySet
<1>2. taken \in Nat \ {0} /\ taken <= size
  BY <1>1, RedisAssumption
<1>3. Oldest(S) = oldest
  BY DEF Oldest
<1>4. ASSUME NEW i \in 1 .. taken PROVE nth(i) \in S /\ Rank(nth(i), S) = i
  <2> HIDE DEF size, taken
  <2>1. i \in 1 .. size
    BY <1>1, <1>2
  <2>2. \E e \in S : Rank(e, S) = i
    BY <2>1, RankOnto DEF size
  <2>3. QED
    BY <2>2
<1> HIDE DEF size, taken, nth
<1>5. oldest \in Seq(Entry) /\ Len(oldest) = taken
  BY <1>2, <1>4
<1>6. \A i \in 1 .. taken : oldest[i] = nth(i)
  OBVIOUS
<1> HIDE DEF oldest
<1>7. Increasing(oldest)
  <2> SUFFICES ASSUME NEW i \in 1 .. taken, NEW j \in 1 .. taken, i < j
               PROVE  nth(i) < nth(j)
    BY <1>5, <1>6 DEF Increasing
  <2>1. nth(i) \in S /\ nth(j) \in S /\ Rank(nth(i), S) = i /\ Rank(nth(j), S) = j
    BY <1>4
  <2>2. nth(i) \in Nat /\ nth(j) \in Nat /\ nth(i) # nth(j)
    BY <1>2, <2>1, EntriesAreNumbers
  <2>3. ~ (nth(j) < nth(i))
    <3>1. SUFFICES ASSUME nth(j) < nth(i) PROVE FALSE
      OBVIOUS
    <3>2. Rank(nth(j), S) < Rank(nth(i), S)
      BY <2>1, <3>1, RankOrders
    <3>3. QED
      BY <1>2, <2>1, <3>2
  <2>4. QED
    BY <2>2, <2>3
<1>8. Range(oldest) \subseteq S
  BY <1>4, <1>5, <1>6 DEF Range
<1>9. ASSUME NEW e \in S, NEW i \in 1 .. taken, e < nth(i)
      PROVE  e \in Range(oldest)
  <2>1. nth(i) \in S /\ Rank(nth(i), S) = i
    BY <1>4
  <2>2. Rank(e, S) < i /\ Rank(e, S) \in 1 .. size
    BY <1>9, <2>1, RankOrders, RankType DEF size
  <2>3. PICK k \in 1 .. taken : k = Rank(e, S)
    BY <1>1, <1>2, <2>2
  <2>4. Rank(nth(k), S) = Rank(e, S) /\ nth(k) \in S
    BY <1>4, <2>3
  <2>5. nth(k) = e
    BY <2>4, RankInjective
  <2>6. QED
    BY <1>5, <1>6, <2>5 DEF Range
<1>10. QED
  BY <1>2, <1>3, <1>5, <1>6, <1>7, <1>8, <1>9

-----------------------------------------------------------------------------
(* What a loop holds.  A batch in work holds pending entries in stream     *)
(* order, and every undecodable entry that is pending before one of them.  *)
Batched(b, list) ==
  /\ b \in Seq(Entry) /\ Len(b) > 0 /\ Increasing(b)
  /\ Range(b) \subseteq list
  /\ \A m \in Malformed \cap list : \A i \in 1 .. Len(b) : m < b[i] => m \in Range(b)

(* The loop never comes to this entry: an undecodable one is before it.    *)
Behind(list, e) == \E m \in Malformed \cap list : m <= e

LEMMA OldestBatched ==
  ASSUME NEW S \in SUBSET Entry, S # {}
  PROVE  Batched(Oldest(S), S)
  BY OldestFacts DEF Batched

LEMMA BatchEntries ==
  ASSUME NEW b, NEW list \in SUBSET Entry, Batched(b, list)
  PROVE  /\ Len(b) \in Nat \ {0} /\ Head(b) = b[1] /\ b[1] \in Range(b)
         /\ b[1] \in list /\ b[1] \in Entry
         /\ \A i \in 1 .. Len(b) : b[i] \in list /\ b[i] \in Nat /\ b[1] <= b[i]
<1>1. Len(b) \in Nat \ {0} /\ Head(b) = b[1] /\ \A i \in 1 .. Len(b) : b[i] \in Range(b)
  BY DEF Batched, Range
<1>2. \A i \in 1 .. Len(b) : b[i] \in list /\ b[i] \in Nat /\ b[i] \in Entry
  BY <1>1, EntriesAreNumbers DEF Batched
<1>3. ASSUME NEW i \in 1 .. Len(b) PROVE b[1] <= b[i]
  <2>1. CASE i = 1
    BY <1>1, <1>2, <2>1
  <2>2. CASE i # 1
    <3>1. 1 < i /\ 1 \in 1 .. Len(b)
      BY <1>1, <2>2
    <3>2. b[1] < b[i]
      BY <3>1 DEF Batched, Increasing
    <3>3. QED
      BY <1>2, <3>1, <3>2
  <2>3. QED
    BY <2>1, <2>2
<1>4. 1 \in 1 .. Len(b)
  BY <1>1
<1>5. QED
  BY <1>1, <1>2, <1>3, <1>4

(* Whoever is in the batch is not before its head.                         *)
LEMMA BehindHead ==
  ASSUME NEW b, NEW list \in SUBSET Entry, Batched(b, list)
  PROVE  /\ b[1] \in Malformed => \A e \in Range(b) : Behind(list, e)
         /\ b[1] \notin Malformed => ~ Behind(list, b[1])
<1>1. ASSUME NEW e \in Range(b) PROVE e \in Nat /\ b[1] <= e
  <2>1. PICK i \in 1 .. Len(b) : b[i] = e
    BY DEF Batched, Range
  <2>2. QED
    BY <2>1, BatchEntries
<1>2. b[1] \in list /\ b[1] \in Nat
  BY BatchEntries, EntriesAreNumbers
<1>3. ASSUME b[1] \notin Malformed, NEW m \in Malformed \cap list, m <= b[1]
      PROVE  FALSE
  <2>1. m \in Nat /\ m # b[1] /\ m < b[1]
    BY <1>2, <1>3, EntriesAreNumbers
  <2>2. 1 \in 1 .. Len(b)
    BY BatchEntries
  <2>3. m \in Range(b)
    BY <2>1, <2>2 DEF Batched
  <2>4. QED
    BY <1>1, <1>2, <2>1, <2>3
<1>4. QED
  BY <1>1, <1>2, <1>3 DEF Behind

(* The rest of a batch, after its head was acknowledged or left pending.   *)
LEMMA RestOfBatch ==
  ASSUME NEW b, NEW list \in SUBSET Entry, Batched(b, list), b[1] \notin Malformed,
         NEW rest, rest = list \/ rest = list \ {b[1]}
  PROVE  /\ Len(b) = 1 => Range(b) = {b[1]}
         /\ Len(b) # 1 => /\ Range(Tail(b)) = Range(b) \ {b[1]}
                          /\ Batched(Tail(b), rest)
<1>1. /\ Len(b) \in Nat \ {0} /\ b[1] \in list
      /\ \A i \in 1 .. Len(b) : b[i] \in list /\ b[i] \in Nat /\ b[1] <= b[i]
  BY BatchEntries
<1>2. ASSUME Len(b) = 1 PROVE Range(b) = {b[1]}
  BY <1>2 DEF Range, Batched
<1>3. ASSUME Len(b) # 1
      PROVE  /\ Range(Tail(b)) = Range(b) \ {b[1]}
             /\ Batched(Tail(b), rest)
  <2> DEFINE t == Tail(b)
  <2>1. t \in Seq(Entry) /\ Len(t) = Len(b) - 1 /\ Len(t) \in Nat \ {0}
    BY <1>1, <1>3 DEF Batched
  <2>2. \A i \in 1 .. Len(t) : t[i] = b[i + 1]
    BY <1>1, <1>3 DEF Batched
  <2> HIDE DEF t
  <2>3. Increasing(t)
    <3> SUFFICES ASSUME NEW i \in 1 .. Len(t), NEW j \in 1 .. Len(t), i < j
                 PROVE  t[i] < t[j]
      BY DEF Increasing
    <3>1. i + 1 \in 1 .. Len(b) /\ j + 1 \in 1 .. Len(b) /\ i + 1 < j + 1
      BY <1>1, <2>1
    <3>2. b[i + 1] < b[j + 1]
      BY <3>1 DEF Batched, Increasing
    <3>3. QED
      BY <2>2, <3>2
  <2>4. ASSUME NEW i \in 2 .. Len(b) PROVE b[1] < b[i]
    <3>1. 1 \in 1 .. Len(b) /\ i \in 1 .. Len(b) /\ 1 < i
      BY <1>1
    <3>2. QED
      BY <3>1 DEF Batched, Increasing
  <2>5. Range(t) = Range(b) \ {b[1]}
    <3>1. ASSUME NEW e \in Range(t) PROVE e \in Range(b) /\ e # b[1]
      <4>1. PICK i \in 1 .. Len(t) : t[i] = e
        BY <2>1 DEF Range
      <4>2. i + 1 \in 2 .. Len(b) /\ i + 1 \in 1 .. Len(b) /\ b[i + 1] = e
        BY <1>1, <2>1, <2>2, <4>1
      <4>3. b[1] < e /\ e \in Nat /\ b[1] \in Nat
        BY <1>1, <2>4, <4>2
      <4>4. e \in Range(b)
        BY <4>2 DEF Range, Batched
      <4>5. QED
        BY <4>3, <4>4
    <3>2. ASSUME NEW e \in Range(b), e # b[1] PROVE e \in Range(t)
      <4>1. PICK i \in 1 .. Len(b) : b[i] = e
        BY DEF Range, Batched
      <4>2. i - 1 \in 1 .. Len(t) /\ (i - 1) + 1 = i
        BY <1>1, <2>1, <3>2, <4>1
      <4>3. t[i - 1] = e
        BY <2>2, <4>1, <4>2
      <4>4. QED
        BY <2>1, <4>2, <4>3 DEF Range
    <3>3. QED
      BY <3>1, <3>2
  <2>6. Range(t) \subseteq rest
    BY <2>5 DEF Batched
  <2>7. ASSUME NEW m \in Malformed \cap rest, NEW i \in 1 .. Len(t), m < t[i]
        PROVE  m \in Range(t)
    <3>1. i + 1 \in 1 .. Len(b) /\ m < b[i + 1] /\ m \in list
      BY <1>1, <2>1, <2>2, <2>7
    <3>2. m \in Range(b)
      BY <3>1 DEF Batched
    <3>3. QED
      BY <2>5, <3>2
  <2>8. QED
    BY <2>1, <2>3, <2>5, <2>6, <2>7 DEF Batched, t
<1>4. QED
  BY <1>2, <1>3

-----------------------------------------------------------------------------
(* Without faults, a delivery that Redis counts is a call of the handler,  *)
(* except for the entries that an undecodable one is pending before.       *)
Busy   == {"decode", "handle", "isolate", "ack"}
InHand == {"handle", "isolate", "ack"}

LoopInv(c) ==
  /\ pending[c] \subseteq 1 .. delivered
  /\ pc[c] \in Busy => Batched(batch[c], pending[c])
  /\ pc[c] \in InHand => batch[c][1] \notin Malformed
  /\ pc[c] = "handle" => attempt[c] = retryCount[batch[c][1]]

Apart == \A c, d \in Consumer : c # d => pending[c] \cap pending[d] = {}

Limited == MaxAttempts > 0 /\ HasDeadLetterStream

(* Redis's count of n calls.                                               *)
Cap(n) == IF n > MaxAttempts THEN MaxAttempts + 1 ELSE n

Untold(e)  == deadLettered[e] = 0 /\ e \notin handled
GivenUp(e) == e \notin handled /\ deadLettered[e] = 1 /\ tries[e] = MaxAttempts

Current(c, e) == pc[c] \in InHand /\ e = batch[c][1]
Waits(c, e)   == pc[c] \in Busy /\ e \in Range(batch[c]) /\ ~ Current(c, e)

Counted(c, e) ==
  /\ Limited => tries[e] < MaxAttempts
  /\ retryCount[e] = IF Waits(c, e) THEN Bump(Cap(tries[e])) ELSE Cap(tries[e])

InWork(c, e) ==
  \/ /\ pc[c] = "handle" /\ Untold(e) /\ retryCount[e] = Cap(tries[e])
     /\ Limited => tries[e] <= MaxAttempts
  \/ pc[c] = "isolate" /\ Untold(e) /\ tries[e] = MaxAttempts
  \/ pc[c] = "ack" /\ (deadLettered[e] = 0 \/ GivenUp(e))

PendingExact(c, e) ==
  \/ Current(c, e) /\ InWork(c, e)
  \/ ~ Current(c, e) /\ Untold(e) /\ (Behind(pending[c], e) \/ Counted(c, e))

EntryExact(e) ==
  /\ deadLettered[e] > 0 => GivenUp(e)
  /\ e > delivered => Untold(e) /\ retryCount[e] = 0 /\ tries[e] = 0
  /\ \A c \in Consumer : e \in pending[c] => PendingExact(c, e)

Exact == Apart /\ (\A c \in Consumer : LoopInv(c)) /\ \A e \in Entry : EntryExact(e)

Counters ==
  /\ pending \in [Consumer -> SUBSET Entry]
  /\ retryCount \in [Entry -> Nat] /\ tries \in [Entry -> Nat]
  /\ DOMAIN attempt = Consumer /\ faults \in Nat

ExactInv == Counters /\ (faults = 0 => Exact)

(* What a step of consumer c leaves alone.                                 *)
Same(e) ==
  /\ tries'[e] = tries[e] /\ retryCount'[e] = retryCount[e]
  /\ deadLettered'[e] = deadLettered[e] /\ (e \in handled' <=> e \in handled)

OthersStay(c) ==
  \A d \in Consumer : d # c =>
    /\ pc'[d] = pc[d] /\ batch'[d] = batch[d]
    /\ attempt'[d] = attempt[d] /\ pending'[d] = pending[d]

(* Another consumer's entry, of which nothing changes.                     *)
LEMMA OthersEntry ==
  ASSUME NEW c \in Consumer, OthersStay(c), NEW d \in Consumer \ {c}, NEW e \in Entry,
         Same(e), PendingExact(d, e)
  PROVE  PendingExact(d, e)'
<1>1. pc'[d] = pc[d] /\ batch'[d] = batch[d] /\ pending'[d] = pending[d]
  BY DEF OthersStay
<1>2. (Current(d, e)' <=> Current(d, e)) /\ (Waits(d, e)' <=> Waits(d, e))
  BY <1>1 DEF Current, Waits
<1>3. (Untold(e)' <=> Untold(e)) /\ (GivenUp(e)' <=> GivenUp(e))
  BY DEF Same, Untold, GivenUp
<1>4. Behind(pending[d], e)' <=> Behind(pending[d], e)
  BY <1>1 DEF Behind
<1>5. Counted(d, e)' <=> Counted(d, e)
  BY <1>2 DEF Counted, Same
<1>6. InWork(d, e)' <=> InWork(d, e)
  BY <1>1, <1>3 DEF InWork, Same
<1>7. QED
  BY <1>2, <1>3, <1>4, <1>5, <1>6 DEF PendingExact

LEMMA OthersLoop ==
  ASSUME Counters, NEW c \in Consumer, OthersStay(c), NEW d \in Consumer \ {c}, LoopInv(d),
         \A e \in pending[d] : Same(e), delivered \in Nat, delivered' \in Nat,
         delivered <= delivered'
  PROVE  LoopInv(d)'
<1>1. /\ pc'[d] = pc[d] /\ batch'[d] = batch[d] /\ pending'[d] = pending[d]
      /\ attempt'[d] = attempt[d]
  BY DEF OthersStay
<1>2. pending'[d] \subseteq 1 .. delivered'
  BY <1>1 DEF LoopInv
<1>3. ASSUME pc[d] = "handle" PROVE attempt'[d] = retryCount'[batch'[d][1]]
  <2>1. Batched(batch[d], pending[d]) /\ pending[d] \in SUBSET Entry
    BY <1>3 DEF LoopInv, Busy, Counters
  <2>2. batch[d][1] \in pending[d]
    BY <2>1, BatchEntries
  <2>3. QED
    BY <1>1, <1>3, <2>2 DEF LoopInv, Same
<1>4. QED
  BY <1>1, <1>2, <1>3 DEF LoopInv

(* A step of c has its own entries to account for, and those it takes.     *)
LEMMA ExactStep ==
  ASSUME Counters, Exact, NEW c \in Consumer, OthersStay(c),
         delivered \in Nat, delivered' \in Nat, delivered <= delivered',
         \A e \in Entry : (\E d \in Consumer : d # c /\ e \in pending[d]) => Same(e),
         \A d \in Consumer : d # c => pending'[c] \cap pending[d] = {},
         LoopInv(c)',
         \A e \in Entry : /\ deadLettered'[e] > 0 => GivenUp(e)'
                          /\ e > delivered' => Same(e)
                          /\ e \in pending'[c] => PendingExact(c, e)'
  PROVE  Exact'
<1>1. Apart'
  BY DEF Exact, Apart, OthersStay
<1>2. ASSUME NEW d \in Consumer PROVE LoopInv(d)'
  <2>1. CASE d = c
    BY <2>1
  <2>2. CASE d # c
    <3>1. \A e \in pending[d] : Same(e)
      BY <2>2 DEF Counters
    <3>2. LoopInv(d)
      BY DEF Exact
    <3>3. QED
      BY <2>2, <3>1, <3>2, OthersLoop
  <2>3. QED
    BY <2>1, <2>2
<1>3. ASSUME NEW e \in Entry PROVE EntryExact(e)'
  <2>1. ASSUME e > delivered' PROVE Untold(e)' /\ retryCount'[e] = 0 /\ tries'[e] = 0
    <3>1. e > delivered /\ Same(e)
      BY <2>1, EntriesAreNumbers
    <3>2. Untold(e) /\ retryCount[e] = 0 /\ tries[e] = 0
      BY <3>1 DEF Exact, EntryExact
    <3>3. QED
      BY <3>1, <3>2 DEF Untold, Same
  <2>2. ASSUME NEW d \in Consumer, e \in pending'[d] PROVE PendingExact(d, e)'
    <3>1. CASE d = c
      BY <2>2, <3>1
    <3>2. CASE d # c
      <4>1. e \in pending[d]
        BY <2>2, <3>2 DEF OthersStay
      <4>2. PendingExact(d, e)
        BY <4>1 DEF Exact, EntryExact
      <4>3. Same(e)
        BY <3>2, <4>1
      <4>4. QED
        BY <3>2, <4>2, <4>3, OthersEntry
    <3>3. QED
      BY <3>1, <3>2
  <2>3. QED
    BY <2>1, <2>2 DEF EntryExact
<1>4. QED
  BY <1>1, <1>2, <1>3 DEF Exact

(* An entry of c's own that the step does not come to.                     *)
LEMMA OwnEntry ==
  ASSUME NEW c \in Consumer, NEW e \in Entry, Same(e), PendingExact(c, e),
         ~ Current(c, e), ~ Current(c, e)',
         Behind(pending[c], e) => Behind(pending'[c], e),
         Behind(pending'[c], e) \/ (Waits(c, e)' <=> Waits(c, e))
  PROVE  PendingExact(c, e)'
<1>1. Untold(e)'
  BY DEF PendingExact, Same, Untold
<1>2. CASE Behind(pending'[c], e)
  BY <1>1, <1>2 DEF PendingExact
<1>3. CASE ~ Behind(pending'[c], e)
  <2>1. Counted(c, e) /\ (Waits(c, e)' <=> Waits(c, e))
    BY <1>3 DEF PendingExact
  <2>2. Counted(c, e)'
    BY <2>1 DEF Counted, Same
  <2>3. QED
    BY <1>1, <2>2 DEF PendingExact
<1>4. QED
  BY <1>2, <1>3

-----------------------------------------------------------------------------
(* The loop's own steps.                                                   *)
GoesOn(c) ==
  /\ batch'[c] = Tail(batch[c])
  /\ pc'[c] = IF Len(batch[c]) = 1 THEN "pending" ELSE "decode"

(* A step that comes to the head of the batch and to no other entry.       *)
LEMMA HeadStep ==
  ASSUME Counters, Exact, NEW c \in Consumer, OthersStay(c),
         delivered \in Nat, delivered' = delivered,
         pc[c] \in Busy, NEW h, h = batch[c][1], h \notin Malformed,
         \A e \in Entry : e # h => Same(e),
         \/ pc'[c] \in InHand /\ batch'[c] = batch[c] /\ pending'[c] = pending[c]
         \/ GoesOn(c) /\ (pending'[c] = pending[c] \/ pending'[c] = pending[c] \ {h}),
         pc'[c] = "handle" => attempt'[c] = retryCount'[h],
         deadLettered'[h] > 0 => GivenUp(h)',
         h \in pending'[c] => PendingExact(c, h)'
  PROVE  Exact'
<1>1. /\ LoopInv(c) /\ Batched(batch[c], pending[c])
      /\ pending[c] \in SUBSET Entry /\ pending[c] \subseteq 1 .. delivered
  BY DEF Exact, LoopInv, Counters
<1>2. h \in Entry /\ h \in pending[c] /\ h \in Range(batch[c])
  BY <1>1, BatchEntries
<1>3. ASSUME ~ (pc'[c] \in InHand /\ batch'[c] = batch[c] /\ pending'[c] = pending[c])
      PROVE  /\ GoesOn(c) /\ (pending'[c] = pending[c] \/ pending'[c] = pending[c] \ {h})
             /\ Len(batch[c]) = 1 => Range(batch[c]) = {h}
             /\ Len(batch[c]) # 1 => /\ Range(batch'[c]) = Range(batch[c]) \ {h}
                                     /\ Batched(batch'[c], pending'[c])
  <2>1. GoesOn(c) /\ (pending'[c] = pending[c] \/ pending'[c] = pending[c] \ {h})
    BY <1>3
  <2>2. batch'[c] = Tail(batch[c])
    BY <2>1 DEF GoesOn
  <2>3. \A rest : rest = pending[c] \/ rest = pending[c] \ {h} =>
          /\ Len(batch[c]) = 1 => Range(batch[c]) = {h}
          /\ Len(batch[c]) # 1 => /\ Range(Tail(batch[c])) = Range(batch[c]) \ {h}
                                  /\ Batched(Tail(batch[c]), rest)
    BY <1>1, RestOfBatch
  <2>4. QED
    BY <2>1, <2>2, <2>3
<1>4. LoopInv(c)'
  <2>1. CASE pc'[c] \in InHand /\ batch'[c] = batch[c] /\ pending'[c] = pending[c]
    BY <1>1, <2>1 DEF LoopInv
  <2>2. CASE ~ (pc'[c] \in InHand /\ batch'[c] = batch[c] /\ pending'[c] = pending[c])
    <3>1. pc'[c] \notin InHand /\ (pc'[c] \in Busy => Batched(batch'[c], pending'[c]))
      BY <1>3, <2>2 DEF GoesOn, InHand, Busy
    <3>2. pending'[c] \subseteq 1 .. delivered'
      BY <1>1, <1>3, <2>2
    <3>3. QED
      BY <3>1, <3>2 DEF LoopInv, InHand
  <2>3. QED
    BY <2>1, <2>2
<1>5. \A d \in Consumer : d # c => pending'[c] \cap pending[d] = {} /\ h \notin pending[d]
  <2>1. pending'[c] \subseteq pending[c]
    BY <1>3
  <2>2. QED
    BY <1>2, <2>1 DEF Exact, Apart
<1>6. ASSUME NEW e \in Entry, e \in pending'[c], e # h PROVE PendingExact(c, e)'
  <2>1. e \in pending[c] /\ Same(e) /\ PendingExact(c, e)
    BY <1>3, <1>6 DEF Exact, EntryExact
  <2>2. ~ Current(c, e) /\ ~ Current(c, e)'
    <3>1. ~ Current(c, e)
      BY <1>6 DEF Current
    <3>2. pc'[c] \in InHand => batch'[c] = batch[c]
      BY <1>3 DEF GoesOn, InHand
    <3>3. QED
      BY <1>6, <3>1, <3>2 DEF Current
  <2>3. Behind(pending[c], e) => Behind(pending'[c], e)
    BY <1>3 DEF Behind
  <2>4. Waits(c, e)' <=> Waits(c, e)
    <3>1. pc'[c] \in Busy /\ e \in Range(batch'[c]) <=> e \in Range(batch[c])
      <4>1. CASE pc'[c] \in InHand /\ batch'[c] = batch[c] /\ pending'[c] = pending[c]
        BY <4>1 DEF InHand, Busy
      <4>2. CASE ~ (pc'[c] \in InHand /\ batch'[c] = batch[c] /\ pending'[c] = pending[c])
        BY <1>3, <1>6, <4>2 DEF GoesOn, Busy
      <4>3. QED
        BY <4>1, <4>2
    <3>2. QED
      BY <2>2, <3>1 DEF Waits
  <2>5. QED
    BY <2>1, <2>2, <2>3, <2>4, OwnEntry
<1>7. ASSUME NEW e \in Entry, deadLettered'[e] > 0 PROVE GivenUp(e)'
  <2>1. CASE e = h
    BY <1>7, <2>1
  <2>2. CASE e # h
    <3>1. Same(e)
      BY <2>2
    <3>2. GivenUp(e)
      BY <1>7, <3>1 DEF Exact, EntryExact, Same
    <3>3. QED
      BY <3>1, <3>2 DEF GivenUp, Same
  <2>3. QED
    BY <2>1, <2>2
<1>8. \A e \in Entry : e > delivered' => Same(e)
  BY <1>1, <1>2, EntriesAreNumbers
<1>9. \A e \in Entry : (\E d \in Consumer : d # c /\ e \in pending[d]) => Same(e)
  BY <1>5
<1>10. \A e \in Entry : e \in pending'[c] => PendingExact(c, e)'
  BY <1>6
<1>11. delivered' \in Nat /\ delivered <= delivered'
  OBVIOUS
<1>12. QED
  BY <1>4, <1>5, <1>7, <1>8, <1>9, <1>10, <1>11, ExactStep

(* A step that leaves the batch, and no entry in hand.                     *)
LEMMA QuietStep ==
  ASSUME Counters, Exact, NEW c \in Consumer, OthersStay(c),
         delivered \in Nat, delivered' = delivered, pending'[c] = pending[c],
         pc[c] \notin InHand, pc'[c] \notin Busy,
         pc[c] \in Busy => batch[c][1] \in Malformed,
         \A e \in Entry : Same(e)
  PROVE  Exact'
<1>1. LoopInv(c) /\ pending[c] \in SUBSET Entry
  BY DEF Exact, Counters
<1>2. LoopInv(c)'
  BY <1>1 DEF LoopInv, Busy, InHand
<1>3. ASSUME NEW e \in Entry, e \in pending'[c] PROVE PendingExact(c, e)'
  <2>1. PendingExact(c, e)
    BY <1>3 DEF Exact, EntryExact
  <2>2. ~ Current(c, e) /\ ~ Current(c, e)' /\ ~ Waits(c, e)'
    BY DEF Current, Waits, Busy, InHand
  <2>3. Waits(c, e) => Behind(pending'[c], e)
    BY <1>1, BehindHead DEF Waits, LoopInv
  <2>4. QED
    BY <2>1, <2>2, <2>3, OwnEntry
<1>4. ASSUME NEW e \in Entry, deadLettered'[e] > 0 PROVE GivenUp(e)'
  BY <1>4 DEF Exact, EntryExact, Same, GivenUp
<1>5. \A d \in Consumer : d # c => pending'[c] \cap pending[d] = {}
  BY DEF Exact, Apart
<1>6. delivered' \in Nat /\ delivered <= delivered'
  OBVIOUS
<1>7. QED
  BY <1>2, <1>3, <1>4, <1>5, <1>6, ExactStep

(* A step of no consumer.                                                  *)
LEMMA IdleStep ==
  ASSUME Exact, UNCHANGED <<delivered, pending, retryCount, consumerVars, outcomeVars>>
  PROVE  Exact'
<1>1. UNCHANGED <<delivered, pending, retryCount, pc, batch, attempt, tries, handled, deadLettered>>
  BY DEF consumerVars, outcomeVars
<1>2. Apart' /\ \A c \in Consumer : LoopInv(c)'
  BY <1>1 DEF Exact, Apart, LoopInv
<1>3. ASSUME NEW c \in Consumer, NEW e \in Entry, PendingExact(c, e) PROVE PendingExact(c, e)'
  BY <1>1, <1>3 DEF PendingExact, Current, Waits, InWork, Counted, Untold, GivenUp
<1>4. \A e \in Entry : EntryExact(e)'
  BY <1>1, <1>3 DEF Exact, EntryExact, Untold, GivenUp
<1>5. QED
  BY <1>2, <1>4 DEF Exact

-----------------------------------------------------------------------------
(* Every number keeps its type, whatever fails.                            *)
LEMMA CapFacts ==
  ASSUME NEW n \in Nat
  PROVE  /\ Cap(n) \in Nat /\ Bump(n) \in Nat /\ Try(n) \in Nat
         /\ Bump(Cap(n)) = Cap(Try(n)) /\ Cap(0) = 0
         /\ n < MaxAttempts => Try(n) <= MaxAttempts
         /\ Cap(n) < MaxAttempts => n < MaxAttempts
         /\ n <= MaxAttempts /\ ~ (Cap(n) < MaxAttempts) => n = MaxAttempts
  BY RedisAssumption DEF Cap, Bump, Try

LEMMA DeliverCounters ==
  ASSUME Counters, NEW c \in Consumer, NEW entries, Deliver(c, entries),
         Range(entries) \subseteq Entry
  PROVE  /\ pending' \in [Consumer -> SUBSET Entry] /\ retryCount' \in [Entry -> Nat]
         /\ pending'[c] = pending[c] \cup Range(entries)
         /\ \A d \in Consumer : d # c => pending'[d] = pending[d]
         /\ \A e \in Entry : retryCount'[e] = IF e \in Range(entries)
                                              THEN Bump(retryCount[e]) ELSE retryCount[e]
<1>1. /\ pending' = [pending EXCEPT ![c] = @ \cup Range(entries)]
      /\ retryCount' = [e \in Entry |->
           IF e \in Range(entries) THEN Bump(retryCount[e]) ELSE retryCount[e]]
  BY DEF Deliver
<1>2. \A e \in Entry : retryCount[e] \in Nat /\ Bump(retryCount[e]) \in Nat
  BY CapFacts DEF Counters
<1>3. pending[c] \cup Range(entries) \in SUBSET Entry /\ pending \in [Consumer -> SUBSET Entry]
  BY DEF Counters
<1>4. retryCount' \in [Entry -> Nat]
  BY <1>1, <1>2
<1>5. QED
  BY <1>1, <1>3, <1>4

LEMMA OldestOfNone == Range(Oldest({})) = {}
<1>1. Cardinality({}) = 0
  BY FS_EmptySet
<1>2. (IF Cardinality({}) < Count THEN Cardinality({}) ELSE Count) = 0
  BY <1>1, RedisAssumption
<1>3. DOMAIN Oldest({}) = 1 .. 0
  BY <1>2 DEF Oldest
<1>4. QED
  BY <1>3 DEF Range

LEMMA PendingBatchEntries ==
  ASSUME Counters, NEW c \in Consumer, pending[c] # {}
  PROVE  /\ Batched(PendingBatch(c), pending[c])
         /\ Range(PendingBatch(c)) \subseteq pending[c] /\ pending[c] \subseteq Entry
<1>1. pending[c] \in SUBSET Entry
  BY DEF Counters
<1>2. QED
  BY <1>1, OldestBatched DEF PendingBatch, Batched

LEMMA FreshBatchEntries ==
  ASSUME Shape
  PROVE  /\ FreshCount \in Nat /\ delivered \in Nat
         /\ Range(FreshBatch) = (delivered + 1) .. (delivered + FreshCount)
         /\ Range(FreshBatch) \subseteq Entry
         /\ FreshCount # 0 => Batched(FreshBatch, Range(FreshBatch))
<1>1. /\ FreshCount \in Nat /\ delivered \in Nat /\ published \in Nat
      /\ delivered + FreshCount <= published /\ published <= MaxEntry /\ MaxEntry \in Nat
      /\ Range(FreshBatch) = (delivered + 1) .. (delivered + FreshCount)
  BY FreshRange, RedisAssumption DEF Shape
<1>2. Range(FreshBatch) \subseteq Entry
  BY <1>1 DEF Entry
<1>3. /\ \A i \in 1 .. FreshCount : FreshBatch[i] = delivered + i /\ delivered + i \in Entry
      /\ FreshBatch \in Seq(Entry) /\ Len(FreshBatch) = FreshCount
  <2>1. \A i \in 1 .. FreshCount : delivered + i \in Entry
    BY <1>1 DEF Entry
  <2>2. QED
    BY <1>1, <2>1 DEF FreshBatch
<1>4. Increasing(FreshBatch)
  BY <1>1, <1>3 DEF Increasing
<1>5. QED
  BY <1>1, <1>2, <1>3, <1>4 DEF Batched

(* Every step keeps the types, those of failing calls too.                 *)
LEMMA NextCounters ==
  ASSUME Shape, Counters, Next
  PROVE  Counters'
<1>1. CASE Publish
  BY <1>1 DEF Publish, Counters, consumerVars, outcomeVars
<1>2. ASSUME NEW c \in Consumer, NEW entries, Deliver(c, entries), Range(entries) \subseteq Entry
      PROVE  pending' \in [Consumer -> SUBSET Entry] /\ retryCount' \in [Entry -> Nat]
  BY <1>2, DeliverCounters
<1>3. ASSUME NEW c \in Consumer, Settle(c)
      PROVE  pending' \in [Consumer -> SUBSET Entry]
  BY <1>3 DEF Settle, Counters
<1>4. ASSUME NEW c \in Consumer
      PROVE  /\ Goto(c, "fresh") \/ Return(c) \/ NextEntry(c) => DOMAIN attempt' = Consumer
             /\ \A label : Goto(c, label) => DOMAIN attempt' = Consumer
             /\ \A b : TakeBatch(c, b) => DOMAIN attempt' = Consumer
  BY DEF Goto, Return, NextEntry, TakeBatch, Counters
<1>5. ASSUME NEW c \in Consumer PROVE Range(PendingBatch(c)) \subseteq Entry
  <2>1. CASE pending[c] # {}
    BY <2>1, PendingBatchEntries
  <2>2. CASE pending[c] = {}
    BY <2>2, OldestOfNone DEF PendingBatch
  <2>3. QED
    BY <2>1, <2>2
<1>6. Range(FreshBatch) \subseteq Entry
  BY FreshBatchEntries
<1>7. ASSUME NEW c \in Consumer, Subscribe(c) \/ HandlerSucceeds(c) \/ HandlerFails(c) \/ DeadLetter(c)
      PROVE  Counters'
  BY <1>4, <1>7 DEF Subscribe, HandlerSucceeds, HandlerFails, DeadLetter, Counters,
     groupVars, outcomeVars
<1>8. ASSUME NEW c \in Consumer, ReadPending(c) PROVE Counters'
  <2>1. CASE pending[c] = {} /\ Goto(c, "fresh") /\ UNCHANGED <<pending, retryCount>>
    BY <1>4, <1>8, <2>1 DEF ReadPending, Counters, outcomeVars
  <2>2. CASE /\ pending[c] # {}
             /\ Deliver(c, PendingBatch(c)) /\ TakeBatch(c, PendingBatch(c))
    BY <1>2, <1>4, <1>5, <1>8, <2>2 DEF ReadPending, Counters, outcomeVars
  <2>3. QED
    BY <1>8, <2>1, <2>2 DEF ReadPending
<1>9. ASSUME NEW c \in Consumer, ReadFresh(c) PROVE Counters'
  BY <1>2, <1>4, <1>6, <1>9 DEF ReadFresh, Counters, outcomeVars
<1>10. ASSUME NEW c \in Consumer, Decode(c) PROVE Counters'
  <2>1. tries' \in [Entry -> Nat]
    <3>1. \A e \in Entry : Try(tries[e]) \in Nat
      BY CapFacts DEF Counters
    <3>2. QED
      BY <1>10, <3>1 DEF Decode, Counters
  <2>2. pending' = pending /\ retryCount' = retryCount /\ faults' = faults
    BY <1>10 DEF Decode, RejectEntry
  <2>3. DOMAIN attempt' = Consumer
    BY <1>4, <1>10 DEF Decode, RejectEntry, Counters
  <2>4. QED
    BY <2>1, <2>2, <2>3 DEF Counters
<1>11. ASSUME NEW c \in Consumer, Ack(c) PROVE Counters'
  BY <1>3, <1>4, <1>11 DEF Ack, Counters, outcomeVars
<1>12. ASSUME NEW c \in Consumer, RedisFails(c) \/ Stop(c) PROVE Counters'
  <2>1. /\ tries' = tries /\ DOMAIN attempt' = Consumer /\ faults' \in Nat
    BY <1>4, <1>12 DEF RedisFails, Stop, Counters, outcomeVars
  <2>2. pending' \in [Consumer -> SUBSET Entry] /\ retryCount' \in [Entry -> Nat]
    <3>1. CASE UNCHANGED <<pending, retryCount>>
      BY <3>1 DEF Counters
    <3>2. CASE Deliver(c, PendingBatch(c))
      BY <1>2, <1>5, <3>2
    <3>3. CASE Deliver(c, FreshBatch)
      BY <1>2, <1>6, <3>3
    <3>4. CASE Settle(c) /\ UNCHANGED retryCount
      BY <1>3, <3>4 DEF Counters
    <3>5. QED
      BY <1>12, <3>1, <3>2, <3>3, <3>4 DEF RedisFails, Stop, groupVars
  <2>3. QED
    BY <2>1, <2>2 DEF Counters
<1>13. QED
  BY <1>1, <1>7, <1>8, <1>9, <1>10, <1>11, <1>12 DEF Next, Consume

-----------------------------------------------------------------------------
(* One lemma per action of the loop.                                       *)
LEMMA SubscribeExact ==
  ASSUME Shape, Counters, Exact, NEW c \in Consumer, Subscribe(c)
  PROVE  Exact'
<1>1. /\ pc[c] = "down" /\ pc' = [pc EXCEPT ![c] = "pending"]
      /\ UNCHANGED <<batch, attempt, delivered, pending, retryCount, tries, handled, deadLettered>>
  BY DEF Subscribe, Goto, groupVars, outcomeVars
<1>2. OthersStay(c) /\ pc'[c] = "pending" /\ \A e \in Entry : Same(e)
  BY <1>1 DEF OthersStay, Same, Shape
<1>3. QED
  BY <1>1, <1>2, QuietStep DEF Busy, InHand, Shape

LEMMA ReadPendingExact ==
  ASSUME Shape, Counters, Exact, NEW c \in Consumer, ReadPending(c)
  PROVE  Exact'
<1>1. /\ pc[c] = "pending" /\ delivered \in Nat
      /\ UNCHANGED <<published, delivered, tries, handled, deadLettered>>
  BY DEF ReadPending, outcomeVars, Shape
<1>2. CASE pending[c] = {} /\ Goto(c, "fresh") /\ UNCHANGED <<pending, retryCount>>
  <2>1. OthersStay(c) /\ pc'[c] = "fresh" /\ \A e \in Entry : Same(e)
    BY <1>1, <1>2 DEF OthersStay, Same, Goto, Shape
  <2>2. QED
    BY <1>1, <1>2, <2>1, QuietStep DEF Busy, InHand
<1>3. CASE /\ pending[c] # {}
           /\ Deliver(c, PendingBatch(c)) /\ TakeBatch(c, PendingBatch(c))
  <2> DEFINE b == PendingBatch(c)
  <2>1. /\ Batched(b, pending[c]) /\ Range(b) \subseteq pending[c]
        /\ pending[c] \subseteq Entry /\ Range(b) \subseteq Entry
    BY <1>3, PendingBatchEntries
  <2>2. Deliver(c, b) /\ TakeBatch(c, b)
    BY <1>3
  <2> HIDE DEF b
  <2>3. /\ \A d \in Consumer : pending'[d] = pending[d]
        /\ \A e \in Entry : retryCount'[e] = IF e \in Range(b)
                                             THEN Bump(retryCount[e]) ELSE retryCount[e]
    BY <2>1, <2>2, DeliverCounters
  <2>4. /\ pc'[c] = "decode" /\ batch'[c] = b
        /\ \A d \in Consumer : d # c => pc'[d] = pc[d] /\ batch'[d] = batch[d]
        /\ attempt' = attempt
    BY <2>2 DEF TakeBatch, Shape
  <2>5. OthersStay(c)
    BY <2>3, <2>4 DEF OthersStay
  <2>6. \A e \in Entry : (\E d \in Consumer : d # c /\ e \in pending[d]) => Same(e)
    BY <1>1, <2>1, <2>3 DEF Exact, Apart, Same
  <2>7. LoopInv(c)'
    BY <1>1, <2>1, <2>3, <2>4 DEF LoopInv, Exact, InHand
  <2>8. \A e \in Entry : deadLettered'[e] > 0 => GivenUp(e)'
    BY <1>1 DEF Exact, EntryExact, GivenUp
  <2>9. ASSUME NEW e \in Entry, e > delivered' PROVE Same(e)
    <3>1. e \notin pending[c]
      BY <1>1, <2>9, EntriesAreNumbers DEF Exact, LoopInv
    <3>2. QED
      BY <1>1, <2>1, <2>3, <3>1 DEF Same
  <2>10. ASSUME NEW e \in Entry, e \in pending'[c] PROVE PendingExact(c, e)'
    <3>1. PendingExact(c, e) /\ ~ Current(c, e) /\ ~ Waits(c, e)
      BY <1>1, <2>3, <2>10 DEF Exact, EntryExact, Current, Waits, Busy, InHand
    <3>2. ~ Current(c, e)' /\ (Waits(c, e)' <=> e \in Range(b))
      BY <2>4 DEF Current, Waits, Busy, InHand
    <3>3. Untold(e)' /\ (Behind(pending[c], e) => Behind(pending[c], e)')
      BY <1>1, <2>3, <3>1 DEF PendingExact, Untold, Behind
    <3>4. Counted(c, e) => Counted(c, e)'
      BY <1>1, <2>3, <3>1, <3>2 DEF Counted
    <3>5. QED
      BY <3>1, <3>2, <3>3, <3>4 DEF PendingExact
  <2>11. \A d \in Consumer : d # c => pending'[c] \cap pending[d] = {}
    BY <2>3 DEF Exact, Apart
  <2>12. delivered' \in Nat /\ delivered <= delivered'
    BY <1>1
  <2>13. QED
    BY <1>1, <2>5, <2>6, <2>7, <2>8, <2>9, <2>10, <2>11, <2>12, ExactStep
<1>4. QED
  BY <1>2, <1>3 DEF ReadPending

LEMMA ReadFreshExact ==
  ASSUME Shape, Counters, Exact, FreshOnlyWhenDrained, NEW c \in Consumer, ReadFresh(c)
  PROVE  Exact'
<1> DEFINE b == FreshBatch
<1>1. /\ pc[c] = "fresh" /\ pending[c] = {} /\ delivered' = delivered + FreshCount
      /\ Deliver(c, b) /\ UNCHANGED <<tries, handled, deadLettered>>
      /\ IF FreshCount = 0 THEN Goto(c, "pending") ELSE TakeBatch(c, b)
  BY DEF ReadFresh, outcomeVars, FreshOnlyWhenDrained
<1>2. /\ FreshCount \in Nat /\ delivered \in Nat
      /\ Range(b) = (delivered + 1) .. (delivered + FreshCount)
      /\ Range(b) \subseteq Entry
      /\ FreshCount # 0 => Batched(b, Range(b))
  BY FreshBatchEntries
<1> HIDE DEF b
<1>3. /\ pending'[c] = Range(b) /\ \A d \in Consumer : d # c => pending'[d] = pending[d]
      /\ \A e \in Entry : retryCount'[e] = IF e \in Range(b)
                                           THEN Bump(retryCount[e]) ELSE retryCount[e]
  BY <1>1, <1>2, DeliverCounters
<1>4. /\ pc'[c] = IF FreshCount = 0 THEN "pending" ELSE "decode"
      /\ FreshCount # 0 => batch'[c] = b
      /\ \A d \in Consumer : d # c => pc'[d] = pc[d] /\ batch'[d] = batch[d]
      /\ attempt' = attempt
  BY <1>1 DEF TakeBatch, Goto, Shape
<1>5. OthersStay(c)
  BY <1>3, <1>4 DEF OthersStay
<1>6. ASSUME NEW d \in Consumer, NEW e \in Entry, e \in pending[d] PROVE e \notin Range(b)
  BY <1>2, <1>6, EntriesAreNumbers DEF Exact, LoopInv
<1>7. \A e \in Entry : e \notin Range(b) => Same(e)
  BY <1>1, <1>3 DEF Same
<1>8. LoopInv(c)'
  <2>1. pending'[c] \subseteq 1 .. delivered'
    BY <1>1, <1>2, <1>3
  <2>2. pc'[c] \notin InHand /\ (pc'[c] \in Busy => Batched(batch'[c], pending'[c]))
    BY <1>2, <1>3, <1>4 DEF Busy, InHand
  <2>3. QED
    BY <2>1, <2>2 DEF LoopInv, InHand
<1>9. \A e \in Entry : deadLettered'[e] > 0 => GivenUp(e)'
  BY <1>1 DEF Exact, EntryExact, GivenUp
<1>10. ASSUME NEW e \in Entry, e > delivered' PROVE Same(e)
  BY <1>1, <1>2, <1>7, <1>10, EntriesAreNumbers
<1>11. ASSUME NEW e \in Entry, e \in pending'[c] PROVE PendingExact(c, e)'
  <2>1. e \in Range(b) /\ e > delivered /\ FreshCount # 0
    BY <1>2, <1>3, <1>11
  <2>2. Untold(e) /\ retryCount[e] = 0 /\ tries[e] = 0
    BY <2>1 DEF Exact, EntryExact
  <2>3. ~ Current(c, e)' /\ Waits(c, e)'
    BY <1>4, <2>1 DEF Current, Waits, Busy, InHand
  <2>4. Untold(e)' /\ retryCount'[e] = Bump(0) /\ tries'[e] = 0
    BY <1>1, <1>3, <2>1, <2>2 DEF Untold
  <2>5. Counted(c, e)'
    BY <2>3, <2>4, CapFacts, RedisAssumption DEF Counted, Limited
  <2>6. QED
    BY <2>3, <2>4, <2>5 DEF PendingExact
<1>12. \A d \in Consumer : d # c => pending'[c] \cap pending[d] = {}
  BY <1>2, <1>3, <1>6
<1>13. \A e \in Entry : (\E d \in Consumer : d # c /\ e \in pending[d]) => Same(e)
  BY <1>6, <1>7
<1>14. delivered' \in Nat /\ delivered <= delivered'
  BY <1>1, <1>2
<1>15. QED
  BY <1>2, <1>5, <1>8, <1>9, <1>10, <1>11, <1>12, <1>13, <1>14, ExactStep

(* The entry that a loop is at.                                            *)
LEMMA HeadFacts ==
  ASSUME Shape, Counters, Exact, NEW c \in Consumer, pc[c] \in Busy
  PROVE  /\ Head(batch[c]) = batch[c][1] /\ batch[c][1] \in Entry
         /\ batch[c][1] \in pending[c] /\ batch[c][1] \in Range(batch[c])
         /\ PendingExact(c, batch[c][1])
         /\ pc[c] \in InHand => /\ batch[c][1] \notin Malformed
                                /\ InWork(c, batch[c][1])
                                /\ ~ Behind(pending[c], batch[c][1])
         /\ delivered \in Nat /\ tries[batch[c][1]] \in Nat
<1>1. Batched(batch[c], pending[c]) /\ pending[c] \in SUBSET Entry
  BY DEF Exact, LoopInv, Counters
<1>2. /\ Head(batch[c]) = batch[c][1] /\ batch[c][1] \in Entry
      /\ batch[c][1] \in pending[c] /\ batch[c][1] \in Range(batch[c])
  BY <1>1, BatchEntries
<1>3. PendingExact(c, batch[c][1])
  BY <1>2 DEF Exact, EntryExact
<1>4. ASSUME pc[c] \in InHand
      PROVE  /\ batch[c][1] \notin Malformed /\ InWork(c, batch[c][1])
             /\ ~ Behind(pending[c], batch[c][1])
  <2>1. batch[c][1] \notin Malformed
    BY <1>4 DEF Exact, LoopInv
  <2>2. InWork(c, batch[c][1])
    BY <1>3, <1>4 DEF PendingExact, Current
  <2>3. QED
    BY <1>1, <2>1, <2>2, BehindHead
<1>5. QED
  BY <1>2, <1>3, <1>4 DEF Shape, Counters

LEMMA DecodeExact ==
  ASSUME Shape, Counters, Exact, NEW c \in Consumer, Decode(c)
  PROVE  Exact'
<1>h. PICK h : h = batch[c][1]
  OBVIOUS
<1> USE <1>h
<1>0. pc[c] = "decode" /\ pc[c] \in Busy /\ pc[c] \notin InHand
  BY DEF Decode, Busy, InHand
<1>1. /\ Head(batch[c]) = h /\ h \in Entry /\ h \in pending[c] /\ h \in Range(batch[c])
      /\ PendingExact(c, h) /\ delivered \in Nat /\ tries[h] \in Nat
  BY <1>0, HeadFacts
<1>2. UNCHANGED <<published, delivered, retryCount, handled, deadLettered>>
  BY DEF Decode
<1>3. CASE h \in Malformed
  <2>1. RejectEntry(c) /\ UNCHANGED tries
    BY <1>1, <1>3 DEF Decode
  <2>2. /\ OthersStay(c) /\ pc'[c] = "down" /\ pending'[c] = pending[c]
        /\ \A e \in Entry : Same(e)
    BY <1>2, <2>1 DEF RejectEntry, Return, OthersStay, Same, Shape, Counters
  <2>3. QED
    BY <1>0, <1>1, <1>2, <1>3, <2>2, QuietStep DEF Busy
<1>4. CASE h \notin Malformed
  <2>1. /\ pc' = [pc EXCEPT ![c] = "handle"] /\ attempt' = [attempt EXCEPT ![c] = retryCount[h]]
        /\ tries' = [tries EXCEPT ![h] = Try(@)]
        /\ UNCHANGED <<batch, pending>>
    BY <1>1, <1>4 DEF Decode
  <2>2. /\ OthersStay(c) /\ pc'[c] = "handle" /\ attempt'[c] = retryCount'[h]
        /\ tries'[h] = Try(tries[h])
        /\ \A e \in Entry : e # h => Same(e)
    BY <1>1, <1>2, <2>1 DEF OthersStay, Same, Shape, Counters
  <2>3. Untold(h) /\ Counted(c, h) /\ Waits(c, h)
    <3>1. ~ Behind(pending[c], h)
      BY <1>0, <1>4, BehindHead DEF Exact, LoopInv, Counters
    <3>2. ~ Current(c, h) /\ Waits(c, h)
      BY <1>0, <1>1 DEF Current, Waits
    <3>3. QED
      BY <1>1, <3>1, <3>2 DEF PendingExact
  <2>4. InWork(c, h)'
    <3>1. retryCount[h] = Bump(Cap(tries[h])) /\ (Limited => tries[h] < MaxAttempts)
      BY <2>3 DEF Counted
    <3>2. retryCount'[h] = Cap(tries'[h]) /\ (Limited => tries'[h] <= MaxAttempts)
      BY <1>1, <1>2, <2>2, <3>1, CapFacts
    <3>3. QED
      BY <1>2, <2>2, <2>3, <3>2 DEF InWork, Untold
  <2>5. PendingExact(c, h)'
    BY <2>1, <2>2, <2>4 DEF PendingExact, Current, InHand
  <2>6. ~ (deadLettered'[h] > 0)
    BY <1>2, <2>3 DEF Untold
  <2>7. pc'[c] \in InHand /\ batch'[c] = batch[c] /\ pending'[c] = pending[c]
    BY <2>1, <2>2 DEF InHand
  <2>8. h = batch[c][1]
    OBVIOUS
  <2>9. QED
    BY <1>0, <1>1, <1>2, <1>4, <2>2, <2>5, <2>6, <2>7, <2>8, HeadStep
<1>5. QED
  BY <1>3, <1>4

(* The head moves on to a later stage of its handling.                     *)
LEMMA StageStep ==
  ASSUME Shape, Counters, Exact, NEW c \in Consumer, pc[c] \in InHand,
         NEW label \in {"isolate", "ack"}, Goto(c, label),
         UNCHANGED <<delivered, pending>>,
         \A e \in Entry : e # batch[c][1] => Same(e),
         deadLettered'[batch[c][1]] > 0 => GivenUp(batch[c][1])',
         InWork(c, batch[c][1])'
  PROVE  Exact'
<1>h. PICK h : h = batch[c][1]
  OBVIOUS
<1> USE <1>h
<1>1. pc[c] \in Busy
  BY DEF Busy, InHand
<1>2. h \notin Malformed /\ delivered \in Nat
  BY <1>1, HeadFacts
<1>3. OthersStay(c) /\ pc'[c] = label /\ pc'[c] \in InHand /\ batch' = batch
  BY DEF Goto, OthersStay, Shape, InHand
<1>4. PendingExact(c, h)'
  BY <1>3 DEF PendingExact, Current
<1>5. GivenUp(batch[c][1])' <=> GivenUp(h)'
  BY <1>3
<1>6. deadLettered'[h] > 0 => GivenUp(h)'
  BY <1>3
<1>7. /\ h = batch[c][1] /\ \A e \in Entry : e # h => Same(e)
      /\ pc'[c] # "handle" /\ batch'[c] = batch[c] /\ pending'[c] = pending[c]
  BY <1>3
<1>8. QED
  BY <1>1, <1>2, <1>3, <1>4, <1>6, <1>7, HeadStep

LEMMA HandlerSucceedsExact ==
  ASSUME Shape, Counters, Exact, NEW c \in Consumer, HandlerSucceeds(c)
  PROVE  Exact'
<1>h. PICK h : h = batch[c][1]
  OBVIOUS
<1> USE <1>h
<1>1. /\ pc[c] = "handle" /\ pc[c] \in InHand /\ pc[c] \in Busy /\ Goto(c, "ack")
      /\ handled' = handled \cup {Head(batch[c])}
      /\ UNCHANGED <<delivered, pending, retryCount, tries, deadLettered>>
  BY DEF HandlerSucceeds, groupVars, InHand, Busy
<1>2. Head(batch[c]) = h /\ InWork(c, h)
  BY <1>1, HeadFacts
<1>3. deadLettered'[h] = 0 /\ batch' = batch /\ pc'[c] = "ack"
  BY <1>1, <1>2 DEF InWork, Untold, Goto, Shape
<1>4. \A e \in Entry : e # h => Same(e)
  BY <1>1, <1>2 DEF Same
<1>5. InWork(c, batch[c][1])' /\ ~ (deadLettered'[h] > 0)
  BY <1>3 DEF InWork
<1>6. QED
  BY <1>1, <1>4, <1>5, StageStep

LEMMA DeadLetterExact ==
  ASSUME Shape, Counters, Exact, NEW c \in Consumer, DeadLetter(c)
  PROVE  Exact'
<1>h. PICK h : h = batch[c][1]
  OBVIOUS
<1> USE <1>h
<1>1. /\ pc[c] = "isolate" /\ pc[c] \in InHand /\ pc[c] \in Busy /\ Goto(c, "ack")
      /\ deadLettered' = [deadLettered EXCEPT ![Head(batch[c])] = @ + 1]
      /\ UNCHANGED <<delivered, pending, retryCount, tries, handled>>
  BY DEF DeadLetter, StoreDeadLetter, groupVars, InHand, Busy
<1>2. Head(batch[c]) = h /\ InWork(c, h) /\ h \in Entry
  BY <1>1, HeadFacts
<1>3. deadLettered[h] = 0 /\ h \notin handled /\ tries[h] = MaxAttempts
  BY <1>1, <1>2 DEF InWork, Untold
<1>4. /\ batch' = batch /\ pc'[c] = "ack" /\ deadLettered'[h] = 1
      /\ \A e \in Entry : e # h => deadLettered'[e] = deadLettered[e]
  BY <1>1, <1>2, <1>3 DEF Goto, Shape
<1>5. \A e \in Entry : e # h => Same(e)
  BY <1>1, <1>4 DEF Same
<1>6. GivenUp(batch[c][1])'
  BY <1>1, <1>3, <1>4 DEF GivenUp
<1>7. InWork(c, batch[c][1])'
  BY <1>4, <1>6 DEF InWork
<1>8. QED
  BY <1>1, <1>5, <1>6, <1>7, StageStep

(* The rest of the batch comes next.                                       *)
LEMMA NextEntryMoves ==
  ASSUME Shape, Counters, NEW c \in Consumer, NextEntry(c),
         \A d \in Consumer : d # c => pending'[d] = pending[d]
  PROVE  OthersStay(c) /\ GoesOn(c) /\ pc'[c] \notin InHand
<1>1. batch'[c] = Tail(batch[c]) /\ pc'[c] = IF Len(batch[c]) = 1 THEN "pending" ELSE "decode"
  BY DEF NextEntry, IsLast, AfterPending, Shape
<1>2. \A d \in Consumer : d # c =>
        pc'[d] = pc[d] /\ batch'[d] = batch[d] /\ attempt'[d] = attempt[d]
  BY DEF NextEntry, Shape, Counters
<1>3. QED
  BY <1>1, <1>2 DEF OthersStay, GoesOn, InHand

LEMMA HandlerFailsExact ==
  ASSUME Shape, Counters, Exact, NEW c \in Consumer, HandlerFails(c)
  PROVE  Exact'
<1>h. PICK h : h = batch[c][1]
  OBVIOUS
<1> USE <1>h
<1>1. /\ pc[c] = "handle" /\ pc[c] \in InHand /\ pc[c] \in Busy
      /\ UNCHANGED <<delivered, pending, retryCount, tries, handled, deadLettered>>
  BY DEF HandlerFails, groupVars, outcomeVars, InHand, Busy
<1>2. /\ InWork(c, h) /\ h \in Entry /\ h \in pending[c] /\ h \notin Malformed
      /\ ~ Behind(pending[c], h) /\ tries[h] \in Nat /\ delivered \in Nat
  BY <1>1, HeadFacts
<1>3. /\ Untold(h) /\ retryCount[h] = Cap(tries[h])
      /\ Limited => tries[h] <= MaxAttempts
  BY <1>1, <1>2 DEF InWork
<1>4. attempt[c] = Cap(tries[h])
  BY <1>1, <1>3 DEF Exact, LoopInv
<1>5. \A e \in Entry : Same(e)
  BY <1>1 DEF Same
<1>6. CASE StaysPending(c) /\ NextEntry(c)
  <2>1. Limited => tries[h] < MaxAttempts
    BY <1>2, <1>4, <1>6, CapFacts, RedisAssumption DEF StaysPending, Limited
  <2>2. OthersStay(c) /\ GoesOn(c) /\ pc'[c] \notin InHand
    BY <1>1, <1>6, NextEntryMoves
  <2>3. ~ Waits(c, h)'
    <3>1. Batched(batch[c], pending[c]) /\ pending[c] \in SUBSET Entry
      BY <1>1 DEF Exact, LoopInv, Counters
    <3>2. Len(batch[c]) # 1 => Range(Tail(batch[c])) = Range(batch[c]) \ {h}
      BY <1>2, <3>1, RestOfBatch
    <3>3. pc'[c] \in Busy => h \notin Range(batch'[c])
      BY <2>2, <3>2 DEF GoesOn, Busy
    <3>4. QED
      BY <3>3 DEF Waits
  <2>4. Counted(c, h)'
    BY <1>1, <1>3, <2>1, <2>3 DEF Counted
  <2>5. ~ Current(c, h)' /\ Untold(h)' /\ ~ (deadLettered'[h] > 0)
    BY <1>1, <1>3, <2>2 DEF Current, Untold
  <2>6. PendingExact(c, h)'
    BY <2>4, <2>5 DEF PendingExact
  <2>7. h = batch[c][1] /\ pc'[c] # "handle" /\ pending'[c] = pending[c]
    BY <1>1, <2>2 DEF InHand
  <2>8. QED
    BY <1>1, <1>2, <1>5, <2>2, <2>5, <2>6, <2>7, HeadStep
<1>7. CASE ~ StaysPending(c) /\ Goto(c, "isolate")
  <2>1. Limited /\ ~ (Cap(tries[h]) < MaxAttempts)
    BY <1>4, <1>7, RedisAssumption DEF StaysPending, Limited
  <2>2. tries[h] = MaxAttempts
    BY <1>2, <1>3, <2>1, CapFacts
  <2>3. batch' = batch /\ pc'[c] = "isolate"
    BY <1>7 DEF Goto, Shape
  <2>4. InWork(c, batch[c][1])' /\ ~ (deadLettered'[h] > 0)
    BY <1>1, <1>3, <2>2, <2>3 DEF InWork, Untold
  <2>5. QED
    BY <1>1, <1>5, <1>7, <2>4, StageStep
<1>8. QED
  BY <1>6, <1>7 DEF HandlerFails

LEMMA AckExact ==
  ASSUME Shape, Counters, Exact, NEW c \in Consumer, Ack(c)
  PROVE  Exact'
<1>h. PICK h : h = batch[c][1]
  OBVIOUS
<1> USE <1>h
<1>1. /\ pc[c] = "ack" /\ pc[c] \in InHand /\ pc[c] \in Busy /\ Settle(c) /\ NextEntry(c)
      /\ UNCHANGED <<delivered, retryCount, tries, handled, deadLettered>>
  BY DEF Ack, outcomeVars, InHand, Busy
<1>2. /\ InWork(c, h) /\ h \in Entry /\ h \notin Malformed /\ delivered \in Nat
      /\ Head(batch[c]) = h
  BY <1>1, HeadFacts
<1>3. pending'[c] = pending[c] \ {h} /\ \A d \in Consumer : d # c => pending'[d] = pending[d]
  BY <1>1, <1>2 DEF Settle, Counters
<1>4. OthersStay(c) /\ GoesOn(c) /\ pc'[c] \notin InHand
  BY <1>1, <1>3, NextEntryMoves
<1>5. \A e \in Entry : Same(e)
  BY <1>1 DEF Same
<1>6. deadLettered'[h] > 0 => GivenUp(h)'
  BY <1>1, <1>2 DEF Exact, EntryExact, GivenUp
<1>7. h = batch[c][1] /\ pc'[c] # "handle" /\ h \notin pending'[c]
  BY <1>3, <1>4 DEF InHand
<1>8. QED
  BY <1>1, <1>2, <1>3, <1>4, <1>5, <1>6, <1>7, HeadStep

-----------------------------------------------------------------------------
LEMMA InitExact == Init => ExactInv
<1> SUFFICES ASSUME Init PROVE ExactInv
  OBVIOUS
<1>1. Counters
  BY DEF Init, Counters
<1>2. Apart /\ \A c \in Consumer : LoopInv(c)
  BY DEF Init, Apart, LoopInv, Busy, InHand
<1>3. \A e \in Entry : EntryExact(e)
  BY DEF Init, EntryExact, Untold
<1>4. QED
  BY <1>1, <1>2, <1>3 DEF ExactInv, Exact

LEMMA NextExact == StreamInv /\ ExactInv /\ [Next]_vars => ExactInv'
<1> SUFFICES ASSUME StreamInv, ExactInv, [Next]_vars PROVE ExactInv'
  OBVIOUS
<1>1. Shape /\ FreshOnlyWhenDrained /\ Counters
  BY DEF StreamInv, ExactInv
<1>2. CASE UNCHANGED vars
  <2>1. /\ UNCHANGED <<delivered, pending, retryCount, consumerVars, outcomeVars>>
        /\ UNCHANGED <<tries, attempt, faults>>
    BY <1>2 DEF vars, groupVars, consumerVars, outcomeVars
  <2>2. Counters'
    BY <1>1, <2>1 DEF Counters
  <2>3. QED
    BY <2>1, <2>2, IdleStep DEF ExactInv
<1>3. CASE Next
  <2>1. Counters'
    BY <1>1, <1>3, NextCounters
  <2>2. ASSUME faults' = 0 PROVE Exact'
    <3>1. CASE Publish
      <4>1. faults = 0 /\ UNCHANGED <<delivered, pending, retryCount, consumerVars, outcomeVars>>
        BY <2>2, <3>1 DEF Publish
      <4>2. QED
        BY <4>1, IdleStep DEF ExactInv
    <3>2. ASSUME NEW c \in Consumer, RedisFails(c) \/ Stop(c) PROVE FALSE
      BY <1>1, <2>2, <3>2 DEF RedisFails, Stop, Counters
    <3>3. ASSUME NEW c \in Consumer, Subscribe(c) \/ Consume(c) PROVE Exact'
      <4>1. faults = 0
        BY <2>2, <3>3 DEF Subscribe, Consume, ReadPending, ReadFresh, Decode,
           HandlerSucceeds, HandlerFails, DeadLetter, Ack
      <4>2. Exact
        BY <4>1 DEF ExactInv
      <4>3. QED
        BY <1>1, <3>3, <4>2, SubscribeExact, ReadPendingExact, ReadFreshExact, DecodeExact,
           HandlerSucceedsExact, HandlerFailsExact, DeadLetterExact, AckExact DEF Consume
    <3>4. QED
      BY <1>3, <3>1, <3>2, <3>3 DEF Next
  <2>3. QED
    BY <2>1, <2>2 DEF ExactInv
<1>4. QED
  BY <1>2, <1>3

(* With any number of entries and consumers, and any sizes of batches: as  *)
(* long as no call fails and no consumer stops, an entry is dead-lettered  *)
(* once, after exactly MaxAttempts calls of its handler, or never.         *)
THEOREM DeadLettersAreExact == Spec => []ExactWithoutFaults
<1>1. ExactInv => ExactWithoutFaults
  BY DEF ExactInv, Exact, EntryExact, GivenUp, ExactWithoutFaults
<1>2. QED
  BY <1>1, InitExact, NextExact, StreamInductive, PTL DEF Spec
=============================================================================
