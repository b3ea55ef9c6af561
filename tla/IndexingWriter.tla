--------------------------- MODULE IndexingWriter ---------------------------
(***************************************************************************)
(* The composed ingestion writer: storage.PropertyCatalogingEventWriter    *)
(* around storage.PropertyIndexingEventWriter around clickhouse.BatchWriter *)
(* (EventWriter), with mysql.PropertyIndexingStatusGuard and               *)
(* clickhouse.PropertyBatchWriter.  One delivery writes the event, then    *)
(* its property rows, then the property catalog; any call may fail, and    *)
(* the next delivery starts again from the event.                          *)
(***************************************************************************)
EXTENDS Integers, FiniteSets

CONSTANTS Event, Worker, NoEvent, MaxFaults,  \* as in EventWriter
          Bare                                \* events without properties

ASSUME IndexingAssumption ==
  NoEvent \notin Event /\ MaxFaults \in Nat /\ Bare \subseteq Event

VARIABLES status, attempt, rows, pc, event, acked, faults, windows

Events == INSTANCE EventWriter

VARIABLES
  propertyStatus,   \* property_indexing_status.status, or "absent"
  propertyRows,     \* batches of each event's property rows in ClickHouse
  catalog,          \* events whose selectors are in the property catalog
  propertyWindows   \* history: property batches stored by a failed Send

propertyVars == <<propertyStatus, propertyRows, catalog, propertyWindows>>
tableVars == <<status, attempt, rows>>
vars == <<Events!eventVars, propertyVars>>

Init ==
  /\ Events!Init
  /\ propertyStatus  = [e \in Event |-> "absent"]
  /\ propertyRows    = [e \in Event |-> 0]
  /\ catalog = {}
  /\ propertyWindows = [e \in Event |-> 0]

-----------------------------------------------------------------------------
Goto(w, label) == Events!Goto(w, label) /\ Events!NoFault

(* The decorators' WriteEvent returns, no call having failed.              *)
Leave(w) == Events!Return(w) /\ Events!NoFault

SetStatus(e, s) == propertyStatus' = [propertyStatus EXCEPT ![e] = s]

(* The primary write returned nil.  Without property records the decorators *)
(* have nothing to add; a duplicate event still goes on to its properties. *)
StartIndexing(w) ==
  /\ pc[w] = "done" /\ event[w] \notin Bare
  /\ Goto(w, "claim")
  /\ UNCHANGED <<tableVars, acked, propertyVars>>

FinishBare(w) ==
  /\ event[w] \in Bare
  /\ Events!Acknowledge(w)
  /\ UNCHANGED propertyVars

-----------------------------------------------------------------------------
(* PropertyIndexingStatusGuard.StartPropertyWrite.                         *)

ClaimProperty(w) ==
  LET e == event[w]
  IN  /\ pc[w] = "claim"
      /\ \/ propertyStatus[e] = "absent" /\ SetStatus(e, "processing") /\ Goto(w, "index")
         \/ propertyStatus[e] # "absent" /\ UNCHANGED propertyStatus /\ Goto(w, "look")
      /\ UNCHANGED <<tableVars, acked, propertyRows, catalog, propertyWindows>>

PropertyReclaimable(s) == s = "failed"

FindProperty(w) ==
  LET found == propertyStatus[event[w]]
  IN  /\ pc[w] = "look"
      /\ \/ found = "inserted" /\ Goto(w, "catalog")
         \/ PropertyReclaimable(found) /\ Goto(w, "retake")
         \/ found # "inserted" /\ ~ PropertyReclaimable(found) /\ Leave(w)
      /\ UNCHANGED <<tableVars, acked, propertyVars>>

(* Mutant of MayRetake: the update does not check the status again.        *)
RetakeAny(e) == TRUE

MayRetake(e) == propertyStatus[e] = "failed"

(* A conditional update; no row affected is an error.                      *)
ReclaimFailedStatus(w) ==
  LET e == event[w]
  IN  /\ pc[w] = "retake"
      /\ \/ MayRetake(e) /\ SetStatus(e, "processing") /\ Goto(w, "index")
         \/ ~ MayRetake(e) /\ UNCHANGED propertyStatus /\ Leave(w)
      /\ UNCHANGED <<tableVars, acked, propertyRows, catalog, propertyWindows>>

-----------------------------------------------------------------------------
(* WriteEventProperties, the guard's Commit and Rollback, the catalog.     *)

StoreBatch(e) == propertyRows' = [propertyRows EXCEPT ![e] = @ + 1]

(* One event's records share one routing key: one table, one batch.        *)
IndexProperties(w) ==
  /\ pc[w] = "index"
  /\ StoreBatch(event[w])
  /\ Goto(w, "settle")
  /\ UNCHANGED <<tableVars, acked, propertyStatus, catalog, propertyWindows>>

CommitProperty(w) ==
  /\ pc[w] = "settle"
  /\ SetStatus(event[w], "inserted")
  /\ Goto(w, "catalog")
  /\ UNCHANGED <<tableVars, acked, propertyRows, catalog, propertyWindows>>

RollbackProperty(w) ==
  /\ pc[w] = "undo"
  /\ SetStatus(event[w], "failed")
  /\ Leave(w)
  /\ UNCHANGED <<tableVars, acked, propertyRows, catalog, propertyWindows>>

(* UpsertPropertyCatalogEntries, after which WriteEvent returns nil.       *)
UpsertCatalog(w) ==
  /\ pc[w] = "catalog"
  /\ catalog' = catalog \cup {event[w]}
  /\ acked' = acked \cup {event[w]}
  /\ Leave(w)
  /\ UNCHANGED <<tableVars, propertyStatus, propertyRows, propertyWindows>>

-----------------------------------------------------------------------------
(* Failures: a call reports an error, whether or not it took effect.  Only *)
(* a failed batch is rolled back; a failed Commit is left "processing".    *)

ReturnError(w) == Events!Fault /\ Events!Return(w) /\ UNCHANGED windows

PropertyStatusFails(w) ==
  LET e == event[w]
  IN  /\ pc[w] \in {"claim", "look", "retake", "settle", "undo"}
      /\ ReturnError(w)
      /\ \/ UNCHANGED propertyStatus
         \/ pc[w] = "claim" /\ propertyStatus[e] = "absent" /\ SetStatus(e, "processing")
         \/ pc[w] = "retake" /\ MayRetake(e) /\ SetStatus(e, "processing")
         \/ pc[w] = "settle" /\ SetStatus(e, "inserted")
         \/ pc[w] = "undo" /\ SetStatus(e, "failed")
      /\ UNCHANGED <<tableVars, acked, propertyRows, catalog, propertyWindows>>

IndexFails(w) ==
  LET e == event[w]
  IN  /\ pc[w] = "index"
      /\ Events!Fault /\ Events!Goto(w, "undo") /\ UNCHANGED windows
      /\ \/ UNCHANGED <<propertyRows, propertyWindows>>
         \/ /\ StoreBatch(e)
            /\ propertyWindows' = [propertyWindows EXCEPT ![e] = @ + 1]
      /\ UNCHANGED <<tableVars, acked, propertyStatus, catalog>>

CatalogFails(w) ==
  /\ pc[w] = "catalog"
  /\ ReturnError(w)
  /\ catalog' \in {catalog, catalog \cup {event[w]}}
  /\ UNCHANGED <<tableVars, acked, propertyStatus, propertyRows, propertyWindows>>

-----------------------------------------------------------------------------
WriteProperties(w) ==
  \/ StartIndexing(w) \/ FinishBare(w)
  \/ ClaimProperty(w) \/ FindProperty(w) \/ ReclaimFailedStatus(w)
  \/ IndexProperties(w) \/ CommitProperty(w) \/ RollbackProperty(w)
  \/ UpsertCatalog(w)

WriteEvents(w) ==
  /\ \/ \E e \in Event : Events!Deliver(w, e)
     \/ Events!WriteEvent(w) \/ Events!WriteFails(w) \/ Events!Crash(w)
  /\ UNCHANGED propertyVars

PropertyFails(w) == PropertyStatusFails(w) \/ IndexFails(w) \/ CatalogFails(w)

Next == \E w \in Worker : WriteEvents(w) \/ WriteProperties(w) \/ PropertyFails(w)

Spec == Init /\ [][Next]_vars

Redelivery(e) ==
  WF_vars(/\ e \notin acked /\ ~ Events!InProgress(e)
          /\ \E w \in Worker : Events!Deliver(w, e)
          /\ UNCHANGED propertyVars)

FairSpec ==
  /\ Spec
  /\ \A e \in Event : Redelivery(e)
  /\ \A w \in Worker :
       WF_vars((Events!WriteEvent(w) /\ UNCHANGED propertyVars) \/ WriteProperties(w))

-----------------------------------------------------------------------------
PropertyCalls == {"claim", "look", "retake", "index", "settle", "undo", "catalog"}

(* The type of the state.                                                  *)
TypeOK ==
  /\ status  \in [Event -> Events!Status]
  /\ attempt \in [Event -> Nat]
  /\ rows    \in [Event -> Nat]
  /\ pc      \in [Worker -> Events!WriteCalls \cup PropertyCalls \cup {"idle"}]
  /\ event   \in [Worker -> Event \cup {NoEvent}]
  /\ \A w \in Worker : pc[w] = "idle" <=> event[w] = NoEvent
  /\ acked \subseteq Event
  /\ faults \in 0 .. MaxFaults
  /\ windows \in [Event -> Nat]
  /\ propertyStatus  \in [Event -> Events!Status]
  /\ propertyRows    \in [Event -> Nat]
  /\ catalog \subseteq Event
  /\ propertyWindows \in [Event -> Nat]

(* WriteEvent returns nil only when everything it owes is durable: the     *)
(* event row and, with properties, their rows and catalog entries, however *)
(* many deliveries it took and whichever of them wrote each part.          *)
AckedComplete ==
  \A e \in acked :
    /\ rows[e] >= 1
    /\ e \notin Bare => propertyRows[e] >= 1 /\ e \in catalog

(* The claim on an event's property rows is exclusive: insert, or a        *)
(* conditional update of a failed row.  Its holder alone writes, commits   *)
(* or rolls back (property_indexing_status_guard.go).                      *)
HoldsClaim(w) == pc[w] \in {"index", "settle", "undo"}

OnePropertyClaim ==
  \A v, w \in Worker :
    /\ HoldsClaim(w) => propertyStatus[event[w]] = "processing"
    /\ HoldsClaim(v) /\ HoldsClaim(w) /\ event[v] = event[w] => v = w

(* Property rows are appended twice only after a Send that failed having   *)
(* stored them: a lost Commit, a crash, a rollback, overlapping deliveries *)
(* or a catalog retry never duplicate them.                                *)
PropertyDuplicatesNeedAFailedSend ==
  \A e \in Event : propertyRows[e] <= 1 + propertyWindows[e]

(* Property rows exist only for stored events.                             *)
PropertiesFollowEvent == \A e \in Event : propertyRows[e] >= 1 => rows[e] >= 1

(* What makes these inductive.  Event rows: a committed status and every   *)
(* worker past its own Send or past such a status stand for a stored row.  *)
EventStored ==
  /\ \A e \in Event : status[e] = "inserted" => rows[e] >= 1
  /\ \A w \in Worker :
       pc[w] \in {"commit", "done"} \cup PropertyCalls => rows[event[w]] >= 1

(* Property rows: the same for the second checkpoint.                      *)
PropertyStored ==
  /\ \A e \in Event : propertyStatus[e] = "inserted" => propertyRows[e] >= 1
  /\ \A w \in Worker : pc[w] \in {"settle", "catalog"} => propertyRows[event[w]] >= 1

(* No batch is stored without its failed Send while a batch may still be   *)
(* sent: before the claim, with a failed status, and before the Send.      *)
PropertySpare ==
  /\ \A e \in Event :
       propertyStatus[e] \in {"absent", "failed"} => propertyRows[e] <= propertyWindows[e]
  /\ \A w \in Worker :
       pc[w] \in {"index", "undo"} => propertyRows[event[w]] <= propertyWindows[event[w]]

IndexInv ==
  /\ TypeOK
  /\ EventStored /\ PropertyStored /\ PropertySpare
  /\ OnePropertyClaim
  /\ AckedComplete
  /\ PropertiesFollowEvent
  /\ PropertyDuplicatesNeedAFailedSend

(* Nobody holds the claim of a "processing" checkpoint: README.md:50 calls *)
(* it ambiguous, and no retry takes it.                                    *)
Ambiguous(e) ==
  /\ propertyStatus[e] = "processing"
  /\ \A w \in Worker : event[w] = e => ~ HoldsClaim(w)

(* Every event is fully written or left with an ambiguous checkpoint.      *)
EventuallyWritten == \A e \in Event : <>(e \in acked \/ Ambiguous(e))

(* Whatever fails and whoever repairs it, readers see an event's parts in  *)
(* the order of Visibility: properties never before their event row,       *)
(* catalog entries never before the properties they name.                  *)
Visible == INSTANCE Visibility WITH Message <- Event, KeyOf <- [e \in Event |-> e]

ImplementsVisibility == Visible!Spec

(* Once ambiguous, always: no retry appends the rows again.                *)
AmbiguousForGood == [][\A e \in Event : Ambiguous(e) => Ambiguous(e)']_vars
=============================================================================
