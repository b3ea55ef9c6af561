---------------------------- MODULE EventWriter ----------------------------
(***************************************************************************)
(* The durable write of an event: clickhouse.BatchWriter.WriteEvent behind *)
(* mysql.IngestionStatusGuard.  Workers, in one process or several, each   *)
(* run one delivery at a time; the queue delivers an event until a handler *)
(* returned nil for it, and may deliver it again at any time.  Every MySQL *)
(* or ClickHouse call may fail, before or after it took effect.            *)
(***************************************************************************)
EXTENDS Integers, FiniteSets

CONSTANTS Event,      \* idempotency keys: tenant, project, source, event id
          Worker,     \* handler invocations that may run at once
          NoEvent,    \* the event of an idle worker
          MaxFaults   \* bound: failed calls, crashes and repeated deliveries

ASSUME EventAssumption ==
  NoEvent \notin Event /\ IsFiniteSet(Worker) /\ MaxFaults \in Nat

VARIABLES
  status,    \* ingestion_status.status of each event, or "absent"
  attempt,   \* ingestion_status.attempt
  rows,      \* rows of each event in its ClickHouse table
  pc,        \* the call each worker makes next
  event,     \* the event each worker writes
  acked,     \* events some handler invocation returned nil for
  faults,    \* faults so far
  windows    \* history: duplicate windows opened for each event

tableVars  == <<status, attempt, rows>>
workerVars == <<pc, event>>
eventVars  == <<tableVars, workerVars, acked, faults, windows>>

Init ==
  /\ status  = [e \in Event |-> "absent"]
  /\ attempt = [e \in Event |-> 0]
  /\ rows    = [e \in Event |-> 0]
  /\ pc      = [w \in Worker |-> "idle"]
  /\ event   = [w \in Worker |-> NoEvent]
  /\ acked = {} /\ faults = 0
  /\ windows = [e \in Event |-> 0]

-----------------------------------------------------------------------------
Goto(w, label) == pc' = [pc EXCEPT ![w] = label] /\ UNCHANGED event

(* WriteEvent returns an error: the delivery ends unacknowledged.          *)
Return(w) ==
  /\ pc'    = [pc EXCEPT ![w] = "idle"]
  /\ event' = [event EXCEPT ![w] = NoEvent]

Fault == faults < MaxFaults /\ faults' = faults + 1
NoFault == UNCHANGED <<faults, windows>>

(* A duplicate window opens: the event's row may be appended once more.    *)
OpenWindow(e) == windows' = [windows EXCEPT ![e] = @ + 1]

InProgress(e) == \E w \in Worker : event[w] = e

(* Processor.handle calls WriteEvent.  A delivery beside another one of    *)
(* the same event is a duplicate window; a repeated one counts as a fault. *)
Deliver(w, e) ==
  /\ pc[w] = "idle"
  /\ IF InProgress(e) \/ e \in acked THEN Fault ELSE UNCHANGED faults
  /\ IF InProgress(e) THEN OpenWindow(e) ELSE UNCHANGED windows
  /\ pc'    = [pc EXCEPT ![w] = "insert"]
  /\ event' = [event EXCEPT ![w] = e]
  /\ UNCHANGED <<tableVars, acked>>

-----------------------------------------------------------------------------
(* StartEventWrite.                                                        *)

(* Insert with OnConflict DoNothing: takes effect on an absent row only.   *)
InsertRow(e) ==
  IF status[e] = "absent"
  THEN /\ status'  = [status EXCEPT ![e] = "processing"]
       /\ attempt' = [attempt EXCEPT ![e] = 1]
  ELSE UNCHANGED <<status, attempt>>

InsertStatus(w) ==
  /\ pc[w] = "insert"
  /\ InsertRow(event[w])
  /\ Goto(w, IF status[event[w]] = "absent" THEN "append" ELSE "find")
  /\ NoFault /\ UNCHANGED <<rows, acked>>

(* Mutants of AlreadyInserted: any claim counts; no row ever counts.       *)
ClaimedOrInserted(s) == s \in {"processing", "inserted"}
NeverInserted(s) == FALSE

AlreadyInserted(s) == s = "inserted"

(* Mutant of Reclaimable: a stale processing status is not.                *)
FailedOnly(s) == s = "failed"

Reclaimable(s) == ~ AlreadyInserted(s)

FindStatus(w) ==
  LET found == status[event[w]]
  IN  /\ pc[w] = "find"
      /\ \/ AlreadyInserted(found) /\ Goto(w, "done")
         \/ Reclaimable(found) /\ Goto(w, "reclaim")
      /\ NoFault /\ UNCHANGED <<tableVars, acked>>

(* Mutant of ReclaimRow: the attempt is not counted.                       *)
ReclaimUncounted(e) ==
  /\ status' = [status EXCEPT ![e] = "processing"]
  /\ UNCHANGED attempt

(* An update by key alone: whatever the status has become meanwhile.       *)
ReclaimRow(e) ==
  /\ status'  = [status EXCEPT ![e] = "processing"]
  /\ attempt' = [attempt EXCEPT ![e] = @ + 1]

ReclaimStatus(w) ==
  /\ pc[w] = "reclaim"
  /\ ReclaimRow(event[w])
  /\ Goto(w, "append")
  /\ NoFault /\ UNCHANGED <<rows, acked>>

-----------------------------------------------------------------------------
(* writeClaimedEvent, Commit and Rollback.                                 *)

(* Route, PrepareBatch, marshal and Append: nothing reaches the server.    *)
AppendRow(w) ==
  /\ pc[w] = "append"
  /\ Goto(w, "send")
  /\ NoFault /\ UNCHANGED <<tableVars, acked>>

StoreRow(e) == rows' = [rows EXCEPT ![e] = @ + 1]

SendBatch(w) ==
  /\ pc[w] = "send"
  /\ StoreRow(event[w])
  /\ Goto(w, "commit")
  /\ NoFault /\ UNCHANGED <<status, attempt, acked>>

SetStatus(e, s) == status' = [status EXCEPT ![e] = s] /\ UNCHANGED attempt

CommitClaim(w) ==
  /\ pc[w] = "commit"
  /\ SetStatus(event[w], "inserted")
  /\ Goto(w, "done")
  /\ NoFault /\ UNCHANGED <<rows, acked>>

RollbackClaim(w) ==
  /\ pc[w] = "rollback"
  /\ SetStatus(event[w], "failed")
  /\ Return(w)
  /\ NoFault /\ UNCHANGED <<rows, acked>>

(* WriteEvent returned nil: the queue may acknowledge the delivery.        *)
Acknowledge(w) ==
  /\ pc[w] = "done"
  /\ acked' = acked \cup {event[w]}
  /\ Return(w)
  /\ NoFault /\ UNCHANGED tableVars

-----------------------------------------------------------------------------
(* Failures.                                                               *)

(* A status call reports an error, whether or not MySQL applied it.  After *)
(* Send, a commit that was not applied leaves a stored row uncommitted.    *)
StatusCallFails(w) ==
  LET e == event[w]
      lost == UNCHANGED <<status, attempt>>
  IN  /\ Fault /\ Return(w) /\ UNCHANGED <<rows, acked>>
      /\ \/ /\ pc[w] \in {"insert", "find", "reclaim", "rollback"}
            /\ \/ lost
               \/ pc[w] = "insert" /\ InsertRow(e)
               \/ pc[w] = "reclaim" /\ ReclaimRow(e)
               \/ pc[w] = "rollback" /\ SetStatus(e, "failed")
            /\ UNCHANGED windows
         \/ pc[w] = "commit" /\ lost /\ OpenWindow(e)
         \/ pc[w] = "commit" /\ SetStatus(e, "inserted") /\ UNCHANGED windows

AppendFails(w) ==
  /\ pc[w] = "append"
  /\ Fault /\ Goto(w, "rollback")
  /\ UNCHANGED <<tableVars, acked, windows>>

(* Send reports an error, whether or not the server stored the row.        *)
SendFails(w) ==
  /\ pc[w] = "send"
  /\ Fault /\ Goto(w, "rollback")
  /\ \/ UNCHANGED <<rows, windows>>
     \/ StoreRow(event[w]) /\ OpenWindow(event[w])
  /\ UNCHANGED <<status, attempt, acked>>

(* The process dies in the middle of a delivery.                           *)
Crash(w) ==
  /\ pc[w] # "idle"
  /\ Fault /\ Return(w)
  /\ IF pc[w] = "commit" THEN OpenWindow(event[w]) ELSE UNCHANGED windows
  /\ UNCHANGED <<tableVars, acked>>

-----------------------------------------------------------------------------
StartEventWrite(w) == InsertStatus(w) \/ FindStatus(w) \/ ReclaimStatus(w)

WriteClaimedEvent(w) ==
  AppendRow(w) \/ SendBatch(w) \/ CommitClaim(w) \/ RollbackClaim(w)

WriteFails(w) == StatusCallFails(w) \/ AppendFails(w) \/ SendFails(w)

WriteEvent(w) == StartEventWrite(w) \/ WriteClaimedEvent(w)

Next ==
  \E w \in Worker :
    \/ \E e \in Event : Deliver(w, e)
    \/ WriteEvent(w) \/ Acknowledge(w)
    \/ WriteFails(w) \/ Crash(w)

Spec == Init /\ [][Next]_eventVars

(* The queue delivers an unacknowledged event again, and workers run.      *)
Redelivery(e) ==
  WF_eventVars(e \notin acked /\ ~ InProgress(e) /\ \E w \in Worker : Deliver(w, e))

FairSpec ==
  /\ Spec
  /\ \A e \in Event : Redelivery(e)
  /\ \A w \in Worker : WF_eventVars(WriteEvent(w) \/ Acknowledge(w))

-----------------------------------------------------------------------------
Status == {"absent", "processing", "inserted", "failed"}
WriteCalls == {"insert", "find", "reclaim", "append", "send", "commit",
               "rollback", "done"}

(* The type of the state: a worker has an event exactly while it runs.     *)
TypeOK ==
  /\ status  \in [Event -> Status]
  /\ attempt \in [Event -> Nat]
  /\ rows    \in [Event -> Nat]
  /\ pc      \in [Worker -> WriteCalls \cup {"idle"}]
  /\ event   \in [Worker -> Event \cup {NoEvent}]
  /\ \A w \in Worker : pc[w] = "idle" <=> event[w] = NoEvent
  /\ acked \subseteq Event
  /\ faults \in 0 .. MaxFaults
  /\ windows \in [Event -> Nat]

(* WriteEvent returns nil only for a stored event, through its own append  *)
(* or through the committed status of another delivery: so an acknowledged *)
(* event is in ClickHouse (batch_writer.go, startEventWrite to Commit).    *)
AckedStored == \A e \in acked : rows[e] >= 1

(* The same, with what makes it inductive: a committed status and a worker *)
(* past Send both stand for a stored row.                                  *)
WriteInv ==
  /\ TypeOK
  /\ AckedStored
  /\ \A e \in Event : status[e] = "inserted" => rows[e] >= 1
  /\ \A w \in Worker : pc[w] \in {"commit", "done"} => rows[event[w]] >= 1

(* Every stored row, and every append in progress, belongs to a claim that *)
(* attempt has counted (reclaimStatus bumps it on each reclaim).           *)
AttemptsCoverRows ==
  \A e \in Event :
    rows[e] + Cardinality({w \in Worker :
                event[w] = e /\ pc[w] \in {"append", "send"}}) <= attempt[e]

(* A second row needs a cause the guard cannot see: a Send that failed     *)
(* after storing, a lost Commit, or two deliveries at once.  Failed        *)
(* appends, rollbacks, reclaims and replays of a stored event add no row.  *)
DuplicatesNeedAWindow == \A e \in Event : rows[e] <= 1 + windows[e]

(* Redelivery repairs every failure: each event is acknowledged in the end *)
(* (a stale processing status does not block its event).                   *)
EventuallyAcked == \A e \in Event : <>(e \in acked)

(* README.md:48: "at-least-once delivery does not create duplicate stored  *)
(* events"; batch_writer.go:104-105 says the same of queue replay.         *)
NoDuplicateRows == \A e \in Event : rows[e] <= 1
=============================================================================
