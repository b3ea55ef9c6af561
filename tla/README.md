# A verification project for analytics-core

TLA+ models of `simpletrack/analytics-core`, from the collect request to the
query: the handler that turns requests into events (`collect`), the event buses
that deliver events to handlers (`eventbus/kafka`, `eventbus/redisstream`,
`eventbus/direct`), the guarded writers those handlers call (`ingestion`,
`storage`, `storage/clickhouse`, `storage/mysql`), and the property catalog and
event reader that look at what was written. TLC checks them on small instances;
TLAPS proves the safety properties for all instances.

## 1. Inventory

| Component | State it keeps | Operations | Hard behaviour | What makes it correct |
|---|---|---|---|---|
| Kafka ordered commits (`ordered_commit.go`) | per topic-partition: registered offsets with done flag and generation, `nextOffset`, counters | Register, Complete, AbortGeneration, RecordHighWaterMark, snapshot | completion in any order; late completions of an earlier generation; offset gaps | marks move only over settled records, only in the generation that registered them |
| Kafka consumer (`bus.go`, `completion_gate.go`, `worker_pool.go`) | the session, one claim per partition, a bounded queue, workers, gate counters | Subscribe, ConsumeClaim, pool Submit/run/Close, handler attempts, dead letters | all goroutines interleave; rebalances, crashes, Close; lost dead-letter answers | at-least-once: nothing acknowledged that is not handled or dead-lettered; nothing stuck |
| Kafka protector (`protector.go`) | paused partitions | observe, reconcile | acts on a snapshot taken before its lock | a pause covers what its snapshot listed and ends with the pressure; Sarama follows the pause map |
| Redis Streams provider (`redisstream.go`) | none of its own: Redis' pending lists and delivery counts | Publish, Subscribe, consume, decode, handleFailure, deadLetter | every Redis call may fail after it took effect; consumers restart; entries that do not decode | no entry leaves the pending lists unsettled; pending before fresh |
| Direct bus (`direct.go`) | registered handlers, a sequence number | Publish, Subscribe | handlers run outside the lock | each message reaches all subscribers there are |
| Guarded event write (`batch_writer.go`, `ingestion_status_guard.go`, `processor.go`) | MySQL status row and ClickHouse rows of each event | StartEventWrite, append, Send, Commit, Rollback | two stores without a transaction; overlapping and repeated deliveries | nil only for stored events; duplicates only through known windows |
| Property indexing and cataloging (`property_indexing_writer.go`, `property_cataloging_writer.go`, `property_indexing_status_guard.go`, `property_writer.go`) | second MySQL checkpoint, property rows, catalog | StartPropertyWrite, WriteEventProperties, Commit, Rollback, catalog upsert | partial outcomes repaired by redelivery; ambiguous checkpoints | acknowledged events are complete; one claim at a time |
| Property catalog merge (`property_catalog.go`, `mysql/property_catalog.go`) | catalog rows | build, upsert, list | replay and reordering; read while written | a row spans exactly the times it was seen; what it suggests can be queried |
| Property flattening (`property.go`) | none | flatten, type | bounds and types of values | total on accepted input |
| Collect pipeline (`collect/`) | none | normalize, enrich, session/visit identity, filter, publish | bucket boundaries, caps, stage order | deterministic identities, bounded enrichment |
| Query side (`event_query.go`, `query_builder.go`, `event_reader.go`) | none | validate, build SQL, count, page, realtime | ties in the page order; rows, tables and property rows that appear between queries | pages skip nothing, counts agree, sources stay apart, acknowledged events are found |
| Routing and schema (`table_router.go`, `schema.go`) | none | route, DDL | short hashes: sources may share tables | rows of sources in one table stay apart |
| HTTP adapter (`collect/httpapi`) | none | parse, respond | | status mapping |

How they interact: `collect` publishes envelopes on an `EventBus`; a bus provider
calls `ingestion.Processor.handle`, which calls the composed `EventWriter` and
returns its error; the provider alone decides about retry, dead letter and
acknowledgement. So the buses promise *at least once*, and the writers must make
a repeated, overlapping or half-failed delivery harmless. The halves are
modelled separately and meet at two contracts:

- Bus and writer: the bus modules leave the handler's result open and count a nil
  result as "handled"; the writer modules start from an environment that delivers
  any event, in any number of overlapping deliveries, again and again until one
  returned nil.
- Writer and reader: `Visibility` states in which order the parts of an event
  appear. `IndexingWriter` implements it, `ReadModel` reads under it.

The hazards at their lines are listed in `PROJECT.json`.

## 2. The modules

| Module | Models | Notes |
|---|---|---|
| `OrderedCommitter` | `ordered_commit.go` | operators on one committer record; the flush loop is a closed form (first offset not done), without recursion, so that it can be proved about |
| `KafkaConsumer` | `bus.go`, `completion_gate.go`, `worker_pool.go` | one action per step between two goroutine switches |
| `KafkaConsumerProps` | | properties, the inductive invariant, the refinement |
| `AtLeastOnce` | | abstract specification: records settle; a frontier moves only over settled ones |
| `ConsumptionProtector` | `protector.go`, Setup and the two observe calls of `bus.go` | composes with `KafkaConsumer`: each of its actions is an action of that module with the observer's bookkeeping |
| `SharedBus` | `Subscribe`, `ConsumeClaim` of `bus.go` over `ordered_commit.go` | several groups on one bus, one partition; uses the operators of `OrderedCommitter` |
| `RedisStream` | `redisstream.go` | all consumers of one group |
| `DirectBus` | `direct.go` | actions for `Collect` to compose; no behaviour of its own |
| `CollectStages` | `request.go`, `session.go`, `enrichment.go`, `traffic_filter.go`, `client.go` | Normalize and the stages, as operators on a body and a client |
| `Collect` | `handler.go`, the answers of `httpapi/fiber.go` | requests that run `CollectStages` and publish on `DirectBus` |
| `EventWriter` | `batch_writer.go`, `ingestion_status_guard.go`, `processor.go` | the status row, the rows, and one program counter per delivery |
| `IndexingWriter` | the two decorators, their guard and the property writer | `Events == INSTANCE EventWriter`: its deliveries run EventWriter's actions and then their own |
| `Visibility` | | abstract specification: the order in which an event's parts appear |
| `PropertyCatalog` | `property.go`, `property_catalog.go`, `mysql/property_catalog.go` | operators: flatten, build entries, merge, list |
| `EventQuery` | `event_query.go`, `query_builder.go` | operators on a query: validity, predicates, order, page, evidence |
| `ReadModel` | `event_reader.go`, `table_router.go`, when tables of `schema.go` exist | a reader beside `Visibility`'s steps, composed with `PropertyCatalog` and `EventQuery` |
| `OrderedCommitterProofs`, `KafkaConsumerProofs`, `ConsumptionProtectorProofs`, `EventWriterProofs`, `IndexingWriterProofs`, `RedisStreamProofs`, `ReadModelProofs`, `CollectProofs` | | theorems and proofs |
| `MCKafkaConsumer`, `MCConsumptionProtector`, `MCCollect`, `MCReadModel` | | instances for TLC; the other modules are checked directly |

### Correspondence to the code

**KafkaConsumer.** `claim[p]` is where a `ConsumeClaim` goroutine stands: at its
select ("receive"), between receiving and `Register` ("register"), in `Submit`
("submit"), on its way out ("return"), or not running ("off"). `inbound[p]` is the
message in its hands. The queue is the pool's channel, bounded by `QueueSize`;
`pc[w]` follows a worker through `processConsumerMessageWithHandler`: the check
of the context before each attempt ("attempt"), the handler call ("running"),
the dead-letter loop ("isolate", "send"), and the completion ("complete"). A
worker leaves its task (`AbandonTask`) exactly where the code checks the
session's context. `committer` is the commit manager, `marked` the Sarama
session's mark, `committed` the group's offset at the broker; `CommitMark` is
Sarama's auto-commit. `StartSession`, `CancelSession`, `ReleaseSession` and
`Crash` are Sarama's and the process's events. A crash also stands for the exit
of the process after Close: the next process starts with empty memory at the
committed offsets.

**ConsumptionProtector.** After `Submit` a claim owes an observation, after a task
a worker does (`observer[o] = Owed`); `TakeSnapshot` evaluates the pressure and
lists the partitions that have a committer, and `Observe` applies that record
later. `tracked` grows when a claim opens (`OpenClaim`, the `commits.Get` at the
start of `ConsumeClaim`), so a snapshot may be older than a claim; the history
variables `stale` and `late` say that the pause in force was outdated when
applied, and which partitions came after its snapshot. Reading the three parts of
a snapshot is one step; the code takes three locks in a row, so its snapshots can
only be more outdated.

**SharedBus.** Each group has its own session, generation and marks; all share the
committer of the partition, as `orderedCommitManager` hands it out. `owner[o]` is
the group whose session the registered mark function of offset `o` marks. What
`KafkaConsumer` does with queue, workers, retries and dead letters is here a set
of tasks that may be settled in any order.

**EventWriter, IndexingWriter.** `pc[w]` names the next call of a delivery to
MySQL or ClickHouse: "insert", "find", "reclaim" (StartEventWrite), "append",
"send", "commit", "rollback", then "claim", "look", "retake" (StartPropertyWrite),
"index", "settle", "undo" and "catalog". Every call has a failing twin
(`StatusCallFails`, `AppendFails`, `SendFails`, `PropertyStatusFails`,
`IndexFails`, `CatalogFails`) in which the call reports an error and did or did
not take effect. `windows` and `propertyWindows` are history variables: they
count the situations in which the guard cannot know that a row exists.

**RedisStream.** `pc[c]` is where a consumer's loop stands; `pending` and
`retryCount` are Redis' pending entries list and delivery counter, which
`XREADGROUP` updates on both kinds of read. `RedisFails` is a failed call at any
point, applied or not; it ends Subscribe, as every error does in the code.

**Collect, DirectBus.** A `Publisher` is one request in progress. `Receive` is
Handle up to its Publish: it touches nothing shared but the clock, so it is one
step; `response[p]` says what the request answered or that it is still running.
`snapshot[p]` and `called[p]` follow the loop of one Publish. Any body may be sent
again at any time, by any client: a retry after an error, after a lost answer, or
over another network. `published` and `handled` are history variables.

**Visibility.** `rows`, `propertyRows`, `catalog` and `acked` are what readers and
the bus can see of each published message. Messages with one key are
publications of one event id, perhaps with different content. In
`IndexingWriter`, whose variables have the same names, every event is its own key.

**PropertyCatalog, EventQuery, ReadModel.** A query is a record of the fields of
`EventQuery`; `ValidScope` and `ValidQuery` are the builder's errors, `Matches` the
WHERE clause, `Precedes` the ORDER BY clause and `Pages` every answer ClickHouse
may give when rows tie. A row is a message and a copy number. The reader's caller
counts (`CountEvents`), then asks for pages (`ListEvents`), each with the offset
of the one before plus the limit that the evidence reports, until a page is not
full; or it asks once for the newest events (`ListRealtime`). `reader` keeps what
it may hold the pages against. A table that does not exist reads as empty
(`Missing`), any other error ends the listing (`ReadFails`). `CreateTable` is the
runtime's execution of the DDL, one table at a time.

### Abstractions

- The gate counters are updated in the same step as `Complete`, and the marks of
  one flush are one step (the code holds the committer's lock).
- Handlers and payloads are reduced to their outcomes; an envelope is its event
  id, a record its partition and offset.
- Backoff sleeps and timeouts take no modelled time: whatever can happen during
  one, can happen.
- A property set that `FlattenEventProperties` rejects fails before any state
  changes and is left out; an event's records share one routing key, so its batch
  is one insert into one table.
- In `Collect` a salted digest is its material (different materials, different
  digests), a user agent is the set of its known substrings, and the character,
  length and type rules of a body are one bit. Values are never truncated.
- Query values are small positive numbers, and zero is the absent one (zero time,
  empty string, no limit). Names and selectors are already normalised. A query's
  filters are sequences, for the count of `MaxFilters`, and otherwise sets.
- Stored times have the precision of the model's clock. In the code MySQL rounds
  the catalog's times to milliseconds and ClickHouse truncates to them, and MySQL
  compares names by its collation.
- The catalog is listed by source; its optional scope and limit are left out.
- In `ReadModel` a table's name is a member of a small set, and a reader ends when
  its listing has ended (`Reading`): a second one would begin from another state of
  the same writers, which the first can begin from too.
- The property checkpoint's attempt column, `last_error`, timestamps and all
  metrics are left out.
- Sarama, Redis, MySQL and ClickHouse are modelled from how the code uses them. In
  particular MySQL statements are atomic and a ClickHouse batch is stored
  entirely or not at all, and Pause during Setup is taken to be effective.

## 3. The runs

All configurations say `CHECK_DEADLOCK FALSE` because behaviours really end: the
bound on sessions or faults is used up, or the pool is closed.

| Run | Instance | Question and answer |
|---|---|---|
| `kafka_safety` | one partition with records 0, 1, 3 (2 missing, 1 malformed), 2 workers, queue 2, 2 attempts, 2 sessions | whatever the interleaving, marks and commits pass only settled records (`OnlySettledAcknowledged`), the committer's bookkeeping is coherent, it belongs to its claim's generation, each pending record is carried by exactly one of claim, queue and worker while the session lives (`PendingCarriedOnce`), the gate never under-reports, marks move inside an open claim only, and the consumer implements `AtLeastOnce` |
| `kafka_liveness` | records 0, 1 (malformed) and 2, one worker, queue 1, 2 attempts, 2 sessions, so that Submit really blocks | a cancelled session ends; without gaps every record is committed |
| `gate_tracker_leak` | one worker | refutes `WaitingTasksExact` |
| `protector` | two partitions, one worker, queue 1 (its filling is the pressure), 2 sessions | a pause covers every partition but those first claimed after its snapshot (`OnlyLateClaimsEscape`), Sarama follows, a quiet session is paused without pressure only by an outdated snapshot, and only that prevents commits |
| `paused_for_good` | one partition, one worker, one session | refutes `PauseEndsWithPressure` |
| `event_writer` | one event, 3 workers, 5 faults | stored when acknowledged, rows covered by attempts, duplicates only through windows, eventually acknowledged |
| `duplicate_rows` | one event, 2 workers | refutes `NoDuplicateRows` |
| `indexing_writer` | two events, one without properties, 2 workers, 4 faults | complete when acknowledged, exclusive property claim, property duplicates only after a failed Send, parts visible in `Visibility`'s order, ambiguous for good, eventually written or ambiguous |
| `redis` | 3 entries (entry 2 malformed), 2 consumers, batches of 2, 2 attempts, 2 faults | nothing lost, exact without faults, pending before fresh, eventually settled unless blocked by a malformed entry |
| `collect` | 2 requests at a time and in all, 4 bodies (timed, untimed, early with its own session, malformed), 3 clients (one a crawler, one internal), 2 subscribers, windows of 2 and 4, a clock up to 3, 2 stage orders | accepted means not filtered and handled by every subscriber there was; retries of timed events keep their identities; visits lie inside sessions; enrichment keeps the client's properties and the bag's limit |
| `read_model` | 4 messages of 2 sources in shared tables, 6 queries and a realtime one, limits 1 and 2 | a listing skips no row of its beginning unless rows tie (`NoRowSkipped`), lies between the counts around it, shows its source only and every acknowledged event; catalog rows are exact and their suggestions find rows |
| `shared_committer` | 2 groups, 2 records, 2 sessions each | refutes `CommittedBySelf` |

**Why the bounds are enough.** The Kafka instance holds each ingredient of the
known races once: two completions out of order, a gap, a record that skips the
handler, one retry before the dead letter, and one rebalance or crash with work
of the earlier session still running; a third session repeats the second, since
a task of a non-current generation behaves the same whatever its number. The
writers have three overlapping deliveries (one that read, one that committed,
one more) and enough faults for a failure in each of two deliveries and its
repair. Two Redis consumers share the group's delivery cursor, and three entries in
batches of two make a full batch, a partial one and a malformed entry between
good ones. Two collect requests are every pair of sendings: overlapping or one after
the other, of one event or of two, on both sides of a session boundary inside
one visit window. The reader's four messages are one event id published twice with different
content, an event of the same source that ties with one of them in both times,
and an event of another source under the same id in the same tables; one of them
may be stored twice. The queries sort by each of the three fields, filter by
column and by property, ask for more than the cap, use the widest window a
property filter may have and one wider, and break two rules. A default limit of
1 puts a page boundary between any two rows. Two groups on one bus need two
offsets, to commit one behind the other. What the safety properties say
beyond the bounds is proved (section 5).

**Thresholds.** In `protector` the pressure comes from the queue;
`HardPending` and `HardGate` are out of reach. That matters for `HardGate`: the
gate tracker leaks (below), and with a threshold the leak can reach the pressure
never ends and `CommittedUnlessStale` fails. The code's default leaves room for
many leaks, the model for all it can have.

## 4. Fairness

- Go runs every runnable goroutine: weak fairness of each claim and worker step.
- A sender blocked on the queue's channel is served in turn: strong fairness of
  `SubmitTask`, because other claims can fill the queue again and again.
- Handlers return (`HandlerSucceeds \/ HandlerFails`; nothing forces success).
- A dead-letter write that is tried for ever succeeds in the end: strong
  fairness of `DeadLetterStored`. Without it the code keeps its offset forever, by
  design (README.md:45).
- Sarama rejoins and flushes marks on its interval.
- In `ConsumptionProtector`, a paused claim need not receive, and every owed
  observation is made.
- Writers: an event nobody acknowledged is delivered again, and a started
  delivery continues. The faults are bounded, so a store is not broken for ever.
- Redis: a stopped consumer is started again under its name, and its loop runs.
  Handlers may fail each time; the attempt limit settles the entry.

No fairness is assumed of cancellations, crashes, Close, faults, publishers or
readers; `Collect`, `ReadModel` and `SharedBus` state safety only.

## 5. What is proved

Every safety property of the passing runs is a theorem, for all values of the
constants that meet the assumptions: the constants' types (`LogAssumption`,
`OptionsAssumption`, `ThresholdAssumption`, `EventAssumption`,
`IndexingAssumption`, `RedisAssumption`, `PolicyAssumption`, `ReadAssumption`,
`CollectAssumption`, `BodyAssumption`). Nothing bounds the number of partitions,
records, workers, consumers, sessions, attempts, faults, messages, subscribers or
requests. Partitions, workers and messages are finite sets, as the counting
properties need; a reader's first page has no positive offset, and a publisher's
events are timed and name a source with tables (`TableRouter.RouteKey` refuses
others); a body's property bag is finite, its id is its own, and the stages are
the four the code has, in any order and number (a stage that a caller brings may do
anything and is not modelled).

**Kafka** (`OrderedCommitterProofs`, `KafkaConsumerProofs`).
`OnlySettledAcknowledged` alone is not inductive: it does not say why the next
flush is safe. `IInv` adds, for each partition, where a fetched record can be
(settled, registered in the committer, or in the claim's hands just before
`Register`: `FetchedAccounted`), that a committer's `nextOffset` has passed
settled records only and its done flags are true (`PassedSettled`), that a
committer belongs to the generation of its open claim (`Owned`), and that a
worker about to complete has settled its record. The step that carries the
argument is `CompleteTask`: the lemmas of `OrderedCommitterProofs` show that the
flush passes done offsets only and stops at the first one that is not done, so
the new mark passes settled ones only. From `Inductive` follow `TypeCorrect`,
`NothingSkipped` (`OnlySettledAcknowledged`), `OneGenerationPerCommitter`,
`MarksNeedAnOpenClaim`, and `Implementation`: every step is a step of
`AtLeastOnce` or leaves its variables alone.

Three more invariants stand on `IInv`.
- `CommittersAreCoherent`: `BookInv` says that a claim registers beyond all that is
  pending, since its channel delivers in offset order. So the first offset that was
  registered is the smallest pending one, and `nextOffset` agrees with the map.
- `PendingIsCarriedOnce`: `TasksKnown` says that a task of the current session lies
  before the claim's fetch position. So a record that is being registered has no
  carrier yet, and `PendingCarried` (one carrier for each offset that is not done)
  survives `Register`, `Submit`, the worker's start and its completion.
- `GateIsNeverLow`: `GateNeverUnderReports` is inductive given `IInv`. A worker's
  step changes the counted sets at that worker only, a claim's at its partition
  only, and each changes the counter by the same amount or leaves it too high.

**Protector** (`ConsumptionProtectorProofs`). `ProtectionRefines` shows that every
step of the composed system is a step of `KafkaConsumer` or a stutter, so all
results above hold with pausing (`ProtectedNothingSkipped` is one of them).
`PausesReachSarama` proves `PauseReachesSarama`, and `PausesCoverTheSnapshot`
proves `OnlyLateClaimsEscape`, which is inductive as it stands.
`QuietPausesAreStale` needs `Watched`: while a fresh pause is in force there is
pressure, or something still runs whose end will be observed, or someone owes an
observation or holds a calm one. When the last of these is gone without pressure,
the pause must have been outdated when it was applied.

**Writers** (`EventWriterProofs`, `IndexingWriterProofs`). `AckedStored` becomes
inductive with "a committed status stands for a stored row" and "a worker past
its Send, or past such a status, stands for one" (`WriteInv`). `CountInv` counts
what deliveries may still add: rows and deliveries about to append or send are
covered by the attempt counter (`AttemptBound`, hence `AttemptsAreEnough`), and
rows and deliveries before their Send by the first row and the counted windows,
unless the status is committed and everyone will find it so (`RowBudget`, hence
`DuplicatesExplained`). For the composed
writer `IndexInv` adds the same for the property checkpoint, the exclusive claim,
and `PropertySpare`: while a batch may still be sent, every batch already there
was stored by a Send that failed. Hence `AcknowledgedIsComplete`,
`PropertyClaimIsExclusive`, `PropertyDuplicatesExplained` and `AmbiguityIsFinal`
(a processing checkpoint that no delivery holds is never taken: the two ways to
take one ask for its absence or for a failed one). `OrderOfVisibility` is the
refinement of `Visibility`: every step of the composed writer, whichever call
fails, is one of its steps or a stutter. It needs `IndexInv` and that only events
with properties reach the property calls (`WithProperties`).

**Redis** (`RedisStreamProofs`). `NothingLost` needs to know why `XACK` is safe: in
`StreamInv`, a consumer about to acknowledge an entry has handled it or stored it
in the dead-letter stream (`AckSettled`), and only published entries were
delivered (in `Shape`). `NoEntryIsLost` and `PendingBeforeFresh` follow, with any failing calls
and restarts. `DeadLettersAreExact` compares Redis' delivery counter with the
handler's calls. Without faults they agree up to the cap (`Counted`, `InWork`),
except for an entry behind one that does not decode: that is read, and counted,
again and again without being handled. It is harmless because batches come in
stream order (`Batched`), so the loop ends at the
undecodable entry each time (`Behind`) and the entry behind it is never reached.
A pending entry has one owner (`Apart`).

**Catalog and reader** (`ReadModelProofs`). `MergeSpans` shows that LEAST and GREATEST
add one time to a row that spans a set of times; `CatalogSpansItsObservers`
concludes that a row spans exactly the times of the messages that reached it, in
any order and any number of repetitions. The reader's theorems stand on what
writing guarantees (tables before rows, rows before property rows, both before
the catalog and the acknowledgement: `WriteInv`; nothing readers see is taken
back: `Grows`).
- `ListingSkipsNothing`: the page order is a strict weak one, and total when times
  differ (`OrderFacts`), so the rows of a message are one block of the sorted rows
  (`Block`), and rows that arrive move a block only to later positions
  (`TrackGrows`). `Covered` says that each row of the beginning is listed, or every
  position before the next page that can show it has been.
- `CountsAgree`: a listing has passed as many rows as its offset says, and its
  query selects at least as many (`OnTrack`, `Done`).
- `RowsAreTheirSources` and `AcknowledgedIsRead`: listed rows belong to their source
  (`Own`), and what was acknowledged at the beginning had a row then (`Owed`).
- `SuggestionsAreFound`: a query built from a catalog row is valid, and selects an
  observer that was published once.

**Collect** (`CollectProofs`). `AcceptedMeansHandled` follows a Publish along its
snapshot: what is called so far is a prefix of it (`Prefix`), each handler called
has handled the event but for the last one (`Handling`), and the snapshot holds
every subscriber there was (`Owing`). The other three are about the envelope's way
through the stages, which is a fold over a list of any length. Induction schemes
are out of reach, so `UpTo` proves induction up to a bound from the cardinality of
an interval. With it the fold's function exists, the folded prefixes form a chain
(`StagedChain`), and each link is one stage (`ApplyMade`).
- `RetriesKeepIdentity`: two arrivals of a timed body go along their chains with the
  same session and visit (`StagedAlike`).
- `VisitsStayInside`: with a session stage before every visit stage, the session is
  resolved when a visit is derived from it, and stays (`StagedResolved`).
- `OwnPropertiesAreKept`: each generated property is added within the limit or not at
  all (`PutKeeps`, `EnrichKeeps`), however often the stage is listed.

`OriginInv` carries these from the stages to what is published.

**Where a proof corrected the model.** `VisitInsideSession` asked at first for some
session stage before some visit stage. That is not enough: with the stages visit,
session, visit, which a handler may be built with, the first visit is derived
while the session is still unknown and two sessions share it. `Before` now asks
for a session stage before every visit stage. `Oldest` of `RedisStream` names the
entries of a batch by their rank instead of sorting a set, because the library's
sorting operator cannot be expanded in a proof.

**Only model-checked.** Liveness: `CancelledSessionEnds`, `EventuallyAllCommitted`,
`CommittedUnlessStale`, `EventuallyAcked`, `EventuallyWritten` and
`EventuallySettled` need fairness and ENABLED. The four refuted properties are
refuted by TLC's counterexamples.

## 6. Disagreements between the code and its documentation

With a run that refutes the quoted sentence:

1. `gate_tracker_leak`: a task that ends on a done context stays in
   `WaitingTasks` and `InFlightMessages` for ever (bus.go:433). The protector
   compares these with a hard threshold, so enough rebalances under load leave
   it under permanent pressure.
2. `paused_for_good`: a pressure snapshot taken before, and applied after, the
   calm one of the worker that relieved the pressure pauses the consumer with
   nobody left to resume it (bus.go:409, protector.go:58).
3. `duplicate_rows`: a processing status is reclaimed unconditionally, so
   redelivery can duplicate event rows (ingestion_status_guard.go:153).
4. `shared_committer`: two groups subscribed on one bus share a partition's
   committer (bus.go:378, ordered_commit.go:135-136). When their generations are
   equal, an offset both register keeps the first group's mark function
   (ordered_commit.go:55-57), the second group's handler completes it, and the
   first group commits a record it has not handled.

Seen while modelling, without a run of their own:

- A direct subscriber's handler stays registered, and is called, after its
  Subscribe returned (direct.go:64), although "Subscribe registers handler until
  ctx is cancelled" (55); a second Subscribe registers a second copy.
- Fresh Redis entries overtake a failed one of their batch, which stays pending
  while the rest is handled (redisstream.go:141, 189-191).
- A collected event without a time takes it from the clock, so its retry can land in
  another session (session.go:51-53, request.go:145).
- Rows that tie in event time and arrival have no order of their own
  (query_builder.go:556-563): with a limit of 1, and without any write between
  two pages, one can be shown twice and the other never. `NoRowSkipped` therefore
  asks for distinct times.
- Partitions first claimed during a pause keep fetching until the next pause
  (protector.go:66): `OnlyLateClaimsEscape` says that no others do.
- Two groups on one bus share the protector too: a calm observation of one clears
  the pause map while the other's Sarama session keeps its partitions paused
  (protector.go:66-79).
- Behind a missing offset `OldestPendingOffset` (bus.go:87) is not a registered
  offset, and later completions wait for an offset that never comes until the
  next session (ordered_commit.go:87). A unit test expects the wait.
- A drain between `RecordHighWaterMark` and `Register` (bus.go:391-393) resets
  the mark: the partition reports high-water mark 0 until its next record.
- `reclaimStatus` and `Rollback` update by key alone, so a committed status can
  go back to processing or failed (ingestion_status_guard.go:177, 240); a window
  that `DuplicatesNeedAWindow` counts under overlapping deliveries.
- A property batch that ClickHouse stored although Send reported an error is
  rolled back to failed and sent again (property_indexing_writer.go:85), although
  the second checkpoint "prevents duplicate property batches" (67-68);
  `PropertyDuplicatesNeedAFailedSend` says that this is the only way.
- A Redis entry that does not decode ends every Subscribe of its consumer and
  blocks the entries behind it (redisstream.go:133); `EventuallySettled` states
  what is still promised.

## 7. Not modelled, and the plan

Not modelled: Kafka publishing and client options, metrics and the public Stats
projection (values reported, nothing decided by them); the HTTP adapter's routing
and address headers, and the text of SQL and DDL (stateless conversions); a
`BatchWriter` without guard (tests and demos); `contracts` and interface types (no
behaviour); the protector's share in several groups on one bus, which section 6
describes. Dead letters assume acknowledged producers: with `ProducerAcksNone`
(options.go:143) the guarantee is given up by name.

Order of work, most important behaviour first. Done: the Kafka core with its
abstract specification and proofs; its protector; the event writer; the composed
writer; the Redis provider; collect on the direct bus; the order of visibility;
the catalog, the queries and their reader; several groups on one bus. Next:

1. `Ingestion`: `IndexingWriter` driven by the bus contract instead of a free
   environment, as a composition with `AtLeastOnce`: what an acknowledged offset
   says about the stores.
2. Partitions that are assigned and revoked while others stay, with the
   protector's pause map.
3. Proofs: the safety part of `EventuallySettled` and `CommittedUnlessStale` (what
   may stand in the way), as invariants of their own.
