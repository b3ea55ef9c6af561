------------------------- MODULE EventWriterProofs -------------------------
(***************************************************************************)
(* For every set of events and workers and every bound on faults: a        *)
(* delivery is acknowledged only when its event is stored.  WriteInv is    *)
(* inductive as it stands: rows never decrease, and the only ways to       *)
(* "done" are a commit after the worker's own Send and a status that       *)
(* already stands for a stored row.  Then the counts: attempts cover rows, *)
(* and no row is appended that no duplicate window explains.               *)
(***************************************************************************)
EXTENDS EventWriter, FiniteSetTheorems, TLAPS

(* What a committed status says about stored rows.                         *)
StatusStored == \A e \in Event : status[e] = "inserted" => rows[e] >= 1

LEMMA InitWriteInv == Init => WriteInv
  BY EventAssumption DEF Init, WriteInv, TypeOK, AckedStored, Status, WriteCalls

(* Delivering and returning keep every row.                                *)
LEMMA DeliverInv ==
  ASSUME WriteInv, NEW w \in Worker, NEW e \in Event, Deliver(w, e)
  PROVE  WriteInv'
<1>1. TypeOK'
  BY EventAssumption DEF WriteInv, TypeOK, Deliver, Fault, OpenWindow, tableVars, WriteCalls
<1>2. QED
  BY <1>1, EventAssumption
  DEF WriteInv, TypeOK, AckedStored, Deliver, Fault, OpenWindow, tableVars

LEMMA StartInv ==
  ASSUME WriteInv, NEW w \in Worker, StartEventWrite(w)
  PROVE  WriteInv'
<1>0. pc[w] # "idle" /\ event[w] \in Event
  BY DEF WriteInv, TypeOK, StartEventWrite, InsertStatus, FindStatus, ReclaimStatus
<1>1. CASE InsertStatus(w)
  <2>1. TypeOK'
    BY <1>0, <1>1, EventAssumption
    DEF WriteInv, TypeOK, InsertStatus, InsertRow, Goto, NoFault, Status, WriteCalls
  <2>2. QED
    BY <1>0, <1>1, <2>1, EventAssumption
    DEF WriteInv, TypeOK, AckedStored, InsertStatus, InsertRow, Goto, NoFault, Status
<1>2. CASE FindStatus(w)
  <2>1. TypeOK'
    BY <1>0, <1>2, EventAssumption
    DEF WriteInv, TypeOK, FindStatus, Goto, Return, NoFault, tableVars, WriteCalls
  <2>2. QED
    BY <1>0, <1>2, <2>1, EventAssumption
    DEF WriteInv, TypeOK, AckedStored, FindStatus, AlreadyInserted, Goto, Return,
        NoFault, tableVars
<1>3. CASE ReclaimStatus(w)
  <2>1. TypeOK'
    BY <1>0, <1>3, EventAssumption
    DEF WriteInv, TypeOK, ReclaimStatus, ReclaimRow, Goto, NoFault, Status, WriteCalls
  <2>2. QED
    BY <1>0, <1>3, <2>1, EventAssumption
    DEF WriteInv, TypeOK, AckedStored, ReclaimStatus, ReclaimRow, Goto, NoFault
<1>4. QED
  BY <1>1, <1>2, <1>3 DEF StartEventWrite

LEMMA WriteClaimedInv ==
  ASSUME WriteInv, NEW w \in Worker, WriteClaimedEvent(w)
  PROVE  WriteInv'
<1>0. pc[w] # "idle" /\ event[w] \in Event
  BY DEF WriteInv, TypeOK, WriteClaimedEvent, AppendRow, SendBatch, CommitClaim,
         RollbackClaim
<1>1. CASE AppendRow(w)
  BY <1>0, <1>1, EventAssumption
  DEF WriteInv, TypeOK, AckedStored, AppendRow, Goto, NoFault, tableVars, WriteCalls
<1>2. CASE SendBatch(w)
  <2>1. TypeOK'
    BY <1>0, <1>2, EventAssumption
    DEF WriteInv, TypeOK, SendBatch, StoreRow, Goto, NoFault, WriteCalls
  <2>2. \A e \in Event : rows'[e] >= rows[e]
    BY <1>0, <1>2 DEF WriteInv, TypeOK, SendBatch, StoreRow
  <2>3. rows'[event[w]] >= 1
    BY <1>0, <1>2 DEF WriteInv, TypeOK, SendBatch, StoreRow
  <2>4. QED
    BY <1>0, <1>2, <2>1, <2>2, <2>3, EventAssumption
    DEF WriteInv, TypeOK, AckedStored, SendBatch, Goto, NoFault
<1>3. CASE CommitClaim(w)
  <2>1. TypeOK'
    BY <1>0, <1>3, EventAssumption
    DEF WriteInv, TypeOK, CommitClaim, SetStatus, Goto, NoFault, Status, WriteCalls
  <2>2. QED
    BY <1>0, <1>3, <2>1, EventAssumption
    DEF WriteInv, TypeOK, AckedStored, CommitClaim, SetStatus, Goto, NoFault
<1>4. CASE RollbackClaim(w)
  <2>1. TypeOK'
    BY <1>0, <1>4, EventAssumption
    DEF WriteInv, TypeOK, RollbackClaim, SetStatus, Return, NoFault, Status, WriteCalls
  <2>2. QED
    BY <1>0, <1>4, <2>1, EventAssumption
    DEF WriteInv, TypeOK, AckedStored, RollbackClaim, SetStatus, Return, NoFault
<1>5. QED
  BY <1>1, <1>2, <1>3, <1>4 DEF WriteClaimedEvent

LEMMA AcknowledgeInv ==
  ASSUME WriteInv, NEW w \in Worker, Acknowledge(w)
  PROVE  WriteInv'
<1>0. event[w] \in Event /\ rows[event[w]] >= 1
  BY DEF WriteInv, TypeOK, Acknowledge
<1>1. QED
  BY <1>0, EventAssumption
  DEF WriteInv, TypeOK, AckedStored, Acknowledge, Return, NoFault, tableVars, WriteCalls

LEMMA FailsInv ==
  ASSUME WriteInv, NEW w \in Worker, WriteFails(w)
  PROVE  WriteInv'
<1>0. pc[w] # "idle" /\ event[w] \in Event
  BY DEF WriteInv, TypeOK, WriteFails, StatusCallFails, AppendFails, SendFails
<1>1. CASE StatusCallFails(w)
  <2>1. rows' = rows /\ acked' = acked /\ faults' \in 0 .. MaxFaults
    BY <1>1, EventAssumption DEF StatusCallFails, Fault, WriteInv, TypeOK
  <2>2. windows' \in [Event -> Nat]
    BY <1>0, <1>1 DEF StatusCallFails, OpenWindow, WriteInv, TypeOK
  <2>3. attempt' \in [Event -> Nat]
    BY <1>0, <1>1 DEF StatusCallFails, InsertRow, ReclaimRow, SetStatus, WriteInv, TypeOK
  <2>4. status' \in [Event -> Status] /\ StatusStored'
    BY <1>0, <1>1, <2>1
    DEF StatusCallFails, InsertRow, ReclaimRow, SetStatus, WriteInv, TypeOK, Status,
        StatusStored
  <2>5. Return(w)
    BY <1>1 DEF StatusCallFails
  <2>6. QED
    BY <1>0, <2>1, <2>2, <2>3, <2>4, <2>5, EventAssumption
    DEF WriteInv, TypeOK, AckedStored, StatusStored, Return, WriteCalls
<1>2. CASE AppendFails(w)
  BY <1>0, <1>2, EventAssumption
  DEF WriteInv, TypeOK, AckedStored, AppendFails, Goto, Fault, tableVars, WriteCalls
<1>3. CASE SendFails(w)
  <2>1. rows' \in [Event -> Nat] /\ \A e \in Event : rows'[e] >= rows[e]
    BY <1>0, <1>3 DEF SendFails, StoreRow, WriteInv, TypeOK
  <2>2. windows' \in [Event -> Nat]
    BY <1>0, <1>3 DEF SendFails, OpenWindow, WriteInv, TypeOK
  <2>3. TypeOK'
    BY <1>0, <1>3, <2>1, <2>2, EventAssumption
    DEF WriteInv, TypeOK, SendFails, Goto, Fault, WriteCalls
  <2>4. QED
    BY <1>0, <1>3, <2>1, <2>3, EventAssumption
    DEF WriteInv, TypeOK, AckedStored, SendFails, Goto
<1>4. QED
  BY <1>1, <1>2, <1>3 DEF WriteFails

LEMMA CrashInv ==
  ASSUME WriteInv, NEW w \in Worker, Crash(w)
  PROVE  WriteInv'
<1>0. event[w] \in Event
  BY DEF WriteInv, TypeOK, Crash
<1>1. windows' \in [Event -> Nat]
  BY <1>0 DEF Crash, OpenWindow, WriteInv, TypeOK
<1>2. QED
  BY <1>0, <1>1, EventAssumption
  DEF WriteInv, TypeOK, AckedStored, Crash, Return, Fault, tableVars, WriteCalls

LEMMA StutterInv ==
  ASSUME WriteInv, UNCHANGED eventVars
  PROVE  WriteInv'
  BY DEF WriteInv, TypeOK, AckedStored, eventVars, tableVars, workerVars

LEMMA NextWriteInv == WriteInv /\ [Next]_eventVars => WriteInv'
<1> SUFFICES ASSUME WriteInv, [Next]_eventVars PROVE WriteInv'
  OBVIOUS
<1>1. CASE Next
  <2>1. PICK w \in Worker :
          \/ \E e \in Event : Deliver(w, e)
          \/ WriteEvent(w) \/ Acknowledge(w) \/ WriteFails(w) \/ Crash(w)
    BY <1>1 DEF Next
  <2>2. QED
    BY <2>1, DeliverInv, StartInv, WriteClaimedInv, AcknowledgeInv, FailsInv, CrashInv
    DEF WriteEvent
<1>2. CASE UNCHANGED eventVars
  BY <1>2, StutterInv
<1>3. QED
  BY <1>1, <1>2

(* The writer's invariant, for every instance.                             *)
THEOREM WriteInductive == Spec => []WriteInv
<1>1. QED
  BY InitWriteInv, NextWriteInv, PTL DEF Spec

(* An acknowledged event is stored, whatever fails, crashes or overlaps:   *)
(* BatchWriter.WriteEvent never reports success for an event that is not   *)
(* in ClickHouse.                                                          *)
THEOREM AcknowledgedIsStored == Spec => []AckedStored
<1>1. WriteInv => AckedStored
  BY DEF WriteInv
<1>2. QED
  BY <1>1, WriteInductive, PTL

-----------------------------------------------------------------------------
(* Counting deliveries.  A delivery still before its Send may add one row: *)
(* RowBudget says that there is room for it, or that the status row is     *)
(* committed and everyone there will find it so.                           *)

On(e, calls) == {w \in Worker : event[w] = e /\ pc[w] \in calls}

Appending == {"append", "send"}
Unsent == {"insert", "find", "reclaim", "append", "send", "rollback"}

AttemptBound(e) ==
  /\ rows[e] + Cardinality(On(e, Appending)) <= attempt[e]
  /\ status[e] = "absent" => attempt[e] = 0

(* Nobody is past the question whether the event is inserted: no reclaim.  *)
Recorded(e) ==
  /\ status[e] = "inserted"
  /\ \A w \in Worker : event[w] = e => pc[w] \in {"insert", "find", "commit", "done"}

RowBudget(e) ==
  /\ rows[e] <= 1 + windows[e]
  /\ \/ Recorded(e)
     \/ /\ rows[e] + Cardinality(On(e, Unsent)) <= 1 + windows[e]
        /\ \/ status[e] = "inserted" \/ rows[e] <= windows[e]
           \/ On(e, Unsent \cup {"commit"}) # {}

CountInv == \A e \in Event : AttemptBound(e) /\ RowBudget(e)

(* What a step of worker w leaves alone, and how it changes a count.       *)
OnlyMoves(w) ==
  \A v \in Worker : v # w => pc'[v] = pc[v] /\ event'[v] = event[v]

At(w, e, calls) == IF event[w] = e /\ pc[w] \in calls THEN 1 ELSE 0

LEMMA TakeOne ==
  ASSUME NEW S, IsFiniteSet(S), NEW x
  PROVE  /\ Cardinality(S \ {x}) \in Nat
         /\ x \in S => Cardinality(S) = Cardinality(S \ {x}) + 1
         /\ x \notin S => Cardinality(S) = Cardinality(S \ {x})
<1>1. IsFiniteSet(S \ {x}) /\ Cardinality(S) \in Nat /\ Cardinality(S \ {x}) \in Nat
  BY FS_RemoveElement, FS_CardinalityType, FS_Subset
<1>2. ASSUME x \in S PROVE Cardinality(S) = Cardinality(S \ {x}) + 1
  BY <1>1, <1>2, FS_RemoveElement
<1>3. ASSUME x \notin S PROVE S \ {x} = S
  BY <1>3
<1>4. QED
  BY <1>1, <1>2, <1>3

(* The others' part of a count is what it was.                             *)
LEMMA CountStep ==
  ASSUME NEW w \in Worker, OnlyMoves(w), NEW e, NEW calls
  PROVE  \E n \in Nat :
           /\ Cardinality(On(e, calls)) = n + At(w, e, calls)
           /\ Cardinality(On(e, calls)') = n + At(w, e, calls)'
<1> DEFINE before == On(e, calls)
           after  == On(e, calls)'
<1>1. IsFiniteSet(before) /\ IsFiniteSet(after)
  BY FS_Subset, EventAssumption DEF On
<1>2. after \ {w} = before \ {w}
  BY DEF On, OnlyMoves
<1>3. w \in before <=> event[w] = e /\ pc[w] \in calls
  BY DEF On
<1>4. w \in after <=> event'[w] = e /\ pc'[w] \in calls
  BY DEF On
<1> HIDE DEF before, after
<1>5. Cardinality(before) = Cardinality(before \ {w}) + At(w, e, calls)
  BY <1>1, <1>3, TakeOne DEF At
<1>6. Cardinality(after) = Cardinality(before \ {w}) + At(w, e, calls)'
  BY <1>1, <1>2, <1>4, TakeOne DEF At
<1>7. Cardinality(before \ {w}) \in Nat
  BY <1>1, TakeOne
<1>8. QED
  BY <1>5, <1>6, <1>7 DEF before, after

(* Whoever of the others is on an event stays where it is.                 *)
LEMMA OthersStay ==
  ASSUME NEW w \in Worker, OnlyMoves(w), NEW e, NEW calls
  PROVE  On(e, calls)' \ {w} = On(e, calls) \ {w}
  BY DEF On, OnlyMoves

(* A step of a worker elsewhere changes nothing about an event.            *)
Untouched(e) ==
  /\ status'[e] = status[e] /\ rows'[e] = rows[e]
  /\ attempt'[e] = attempt[e] /\ windows'[e] = windows[e]

LEMMA Elsewhere ==
  ASSUME NEW w \in Worker, OnlyMoves(w), NEW e \in Event, Untouched(e),
         event[w] # e, event'[w] # e, AttemptBound(e), RowBudget(e)
  PROVE  AttemptBound(e)' /\ RowBudget(e)'
<1>1. \A calls : On(e, calls)' = On(e, calls)
  BY DEF On, OnlyMoves
<1>2. Recorded(e) => Recorded(e)'
  BY DEF Recorded, Untouched, OnlyMoves
<1>3. AttemptBound(e)'
  BY <1>1 DEF AttemptBound, Untouched
<1>4. RowBudget(e)'
  BY <1>1, <1>2 DEF RowBudget, Untouched
<1>5. QED
  BY <1>3, <1>4

(* The counts of an event before and after a step of one of its workers,   *)
(* with what the others contribute to each.                                *)
Counted(w, e) ==
  /\ \E n \in Nat :
       /\ Cardinality(On(e, Appending)) = n + At(w, e, Appending)
       /\ Cardinality(On(e, Appending)') = n + At(w, e, Appending)'
  /\ \E n \in Nat :
       /\ Cardinality(On(e, Unsent)) = n + At(w, e, Unsent)
       /\ Cardinality(On(e, Unsent)') = n + At(w, e, Unsent)'

LEMMA CountedStep ==
  ASSUME NEW w \in Worker, OnlyMoves(w), NEW e
  PROVE  Counted(w, e)
  BY CountStep DEF Counted

(* Recorded stays while the status does and the worker moves as allowed.   *)
LEMMA RecordedStays ==
  ASSUME NEW w \in Worker, OnlyMoves(w), NEW e, Recorded(e),
         status'[e] = "inserted",
         event'[w] = e => pc'[w] \in {"insert", "find", "commit", "done"}
  PROVE  Recorded(e)'
  BY DEF Recorded, OnlyMoves

LEMMA DeliverCounts ==
  ASSUME TypeOK, NEW w \in Worker, NEW d \in Event, Deliver(w, d),
         NEW e \in Event, AttemptBound(e), RowBudget(e)
  PROVE  AttemptBound(e)' /\ RowBudget(e)'
<1>1. OnlyMoves(w)
  BY DEF OnlyMoves, Deliver, TypeOK
<1>2. event[w] = NoEvent /\ event[w] # e /\ pc'[w] = "insert" /\ event'[w] = d
  BY EventAssumption DEF Deliver, TypeOK
<1>3. status' = status /\ attempt' = attempt /\ rows' = rows
  BY DEF Deliver, tableVars
<1>4. CASE e # d
  <2>1. windows'[e] = windows[e]
    BY <1>4 DEF Deliver, OpenWindow, TypeOK
  <2>2. QED
    BY <1>1, <1>2, <1>3, <1>4, <2>1, Elsewhere DEF Untouched
<1>5. CASE e = d
  <2>1. Counted(w, e)
    BY <1>1, CountedStep
  <2>2. AttemptBound(e)'
    BY <1>2, <1>3, <2>1 DEF AttemptBound, Counted, At, Appending
  <2>3. On(e, Unsent \cup {"commit"})' # {}
    BY <1>2, <1>5 DEF On, Unsent
  <2>4. Recorded(e) => Recorded(e)'
    BY <1>1, <1>2, <1>3, RecordedStays DEF Recorded
  <2>5. CASE InProgress(e)
    <3>1. windows'[e] = windows[e] + 1
      BY <1>5, <2>5 DEF Deliver, OpenWindow, TypeOK
    <3>2. rows[e] \in Nat /\ windows[e] \in Nat
      BY DEF TypeOK
    <3>3. QED
      BY <1>2, <1>3, <1>5, <2>1, <2>2, <2>3, <2>4, <3>1, <3>2
      DEF RowBudget, Counted, At, Unsent
  <2>6. CASE ~ InProgress(e)
    <3>1. windows'[e] = windows[e]
      BY <1>5, <2>6 DEF Deliver
    <3>2. On(e, Unsent) = {} /\ On(e, Unsent \cup {"commit"}) = {}
      BY <2>6 DEF InProgress, On
    <3>3. status[e] = "inserted" => Recorded(e)
      BY <2>6 DEF InProgress, Recorded
    <3>4. Cardinality(On(e, Unsent)) = 0
      BY <3>2, FS_EmptySet
    <3>5. Cardinality(On(e, Unsent)') = 1
      BY <1>2, <1>5, <2>1, <3>4 DEF Counted, At, Unsent
    <3>6. rows[e] \in Nat /\ windows[e] \in Nat
      BY DEF TypeOK
    <3>7. Recorded(e) \/ rows[e] <= windows[e]
      BY <3>2, <3>3, <3>6 DEF RowBudget
    <3>8. RowBudget(e)'
      BY <1>3, <2>3, <2>4, <3>1, <3>5, <3>6, <3>7 DEF RowBudget
    <3>9. QED
      BY <2>2, <3>8
  <2>7. QED
    BY <2>5, <2>6
<1>6. QED
  BY <1>4, <1>5

LEMMA StartCounts ==
  ASSUME TypeOK, NEW w \in Worker, StartEventWrite(w),
         NEW e \in Event, AttemptBound(e), RowBudget(e)
  PROVE  AttemptBound(e)' /\ RowBudget(e)'
<1>1. OnlyMoves(w) /\ event'[w] = event[w] /\ event[w] \in Event
  BY DEF OnlyMoves, StartEventWrite, InsertStatus, FindStatus, ReclaimStatus, Goto, TypeOK
<1>2. rows' = rows /\ windows' = windows
  BY DEF StartEventWrite, InsertStatus, FindStatus, ReclaimStatus, NoFault, tableVars
<1>3. Counted(w, e)
  BY <1>1, CountedStep
<1>4. rows[e] \in Nat /\ windows[e] \in Nat /\ attempt[e] \in Nat
  BY DEF TypeOK
<1>5. CASE event[w] # e
  <2>1. status'[e] = status[e] /\ attempt'[e] = attempt[e]
    BY <1>1, <1>5 DEF StartEventWrite, InsertStatus, InsertRow, FindStatus, ReclaimStatus,
                      ReclaimRow, tableVars, TypeOK
  <2>2. QED
    BY <1>1, <1>2, <1>5, <2>1, Elsewhere DEF Untouched
<1>6. ASSUME event[w] = e, InsertStatus(w)
      PROVE  AttemptBound(e)' /\ RowBudget(e)'
  <2>1. pc[w] = "insert" /\ pc'[w] \in {"append", "find"}
    BY <1>6 DEF InsertStatus, Goto, TypeOK
  <2>2. CASE status[e] = "absent"
    <3>1. status'[e] = "processing" /\ attempt'[e] = 1 /\ pc'[w] = "append"
      BY <1>6, <2>2 DEF InsertStatus, InsertRow, Goto, TypeOK
    <3>2. ~ Recorded(e)
      BY <2>2 DEF Recorded
    <3>3. On(e, Unsent \cup {"commit"})' # {}
      BY <1>1, <1>6, <3>1 DEF On, Unsent
    <3>4. AttemptBound(e)'
      BY <1>1, <1>2, <1>3, <1>4, <1>6, <2>1, <2>2, <3>1
      DEF AttemptBound, Counted, At, Appending
    <3>5. RowBudget(e)'
      BY <1>1, <1>2, <1>3, <1>4, <1>6, <2>1, <3>1, <3>2, <3>3
      DEF RowBudget, Counted, At, Unsent
    <3>6. QED
      BY <3>4, <3>5
  <2>3. CASE status[e] # "absent"
    <3>1. status'[e] = status[e] /\ attempt'[e] = attempt[e] /\ pc'[w] = "find"
      BY <1>6, <2>3 DEF InsertStatus, InsertRow, Goto, TypeOK
    <3>2. Recorded(e) => Recorded(e)'
      BY <1>1, <3>1, RecordedStays DEF Recorded
    <3>3. On(e, Unsent \cup {"commit"})' # {}
      BY <1>1, <1>6, <3>1 DEF On, Unsent
    <3>4. AttemptBound(e)'
      BY <1>1, <1>2, <1>3, <1>4, <1>6, <2>1, <2>3, <3>1
      DEF AttemptBound, Counted, At, Appending
    <3>5. RowBudget(e)'
      BY <1>1, <1>2, <1>3, <1>4, <1>6, <2>1, <3>1, <3>2, <3>3
      DEF RowBudget, Counted, At, Unsent
    <3>6. QED
      BY <3>4, <3>5
  <2>4. QED
    BY <2>2, <2>3
<1>7. ASSUME event[w] = e, FindStatus(w)
      PROVE  AttemptBound(e)' /\ RowBudget(e)'
  <2>1. /\ pc[w] = "find" /\ status'[e] = status[e] /\ attempt'[e] = attempt[e]
        /\ pc'[w] = IF status[e] = "inserted" THEN "done" ELSE "reclaim"
    BY <1>7 DEF FindStatus, AlreadyInserted, Reclaimable, Goto, tableVars, TypeOK
  <2>2. Recorded(e) => Recorded(e)'
    BY <1>1, <2>1, RecordedStays DEF Recorded
  <2>3. status[e] = "inserted" \/ On(e, Unsent \cup {"commit"})' # {}
    BY <1>1, <1>7, <2>1 DEF On, Unsent
  <2>4. AttemptBound(e)'
    BY <1>1, <1>2, <1>3, <1>4, <1>7, <2>1 DEF AttemptBound, Counted, At, Appending
  <2>5. RowBudget(e)'
    BY <1>1, <1>2, <1>3, <1>4, <1>7, <2>1, <2>2, <2>3
    DEF RowBudget, Counted, At, Unsent
  <2>6. QED
    BY <2>4, <2>5
<1>8. ASSUME event[w] = e, ReclaimStatus(w)
      PROVE  AttemptBound(e)' /\ RowBudget(e)'
  <2>1. /\ pc[w] = "reclaim" /\ status'[e] = "processing"
        /\ attempt'[e] = attempt[e] + 1 /\ pc'[w] = "append"
    BY <1>8 DEF ReclaimStatus, ReclaimRow, Goto, TypeOK
  <2>2. ~ Recorded(e)
    BY <1>8, <2>1 DEF Recorded
  <2>3. On(e, Unsent \cup {"commit"})' # {}
    BY <1>1, <1>8, <2>1 DEF On, Unsent
  <2>4. AttemptBound(e)'
    BY <1>1, <1>2, <1>3, <1>4, <1>8, <2>1 DEF AttemptBound, Counted, At, Appending
  <2>5. RowBudget(e)'
    BY <1>1, <1>2, <1>3, <1>4, <1>8, <2>1, <2>2, <2>3
    DEF RowBudget, Counted, At, Unsent
  <2>6. QED
    BY <2>4, <2>5
<1>9. QED
  BY <1>5, <1>6, <1>7, <1>8 DEF StartEventWrite

(* Send uses the room its delivery had; a commit makes room unnecessary.   *)
LEMMA WriteClaimedCounts ==
  ASSUME TypeOK, NEW w \in Worker, WriteClaimedEvent(w),
         NEW e \in Event, AttemptBound(e), RowBudget(e)
  PROVE  AttemptBound(e)' /\ RowBudget(e)'
<1>1. OnlyMoves(w) /\ event[w] \in Event /\ event'[w] \in {event[w], NoEvent}
  BY DEF OnlyMoves, WriteClaimedEvent, AppendRow, SendBatch, CommitClaim, RollbackClaim,
         Goto, Return, TypeOK
<1>2. attempt' = attempt /\ windows' = windows
  BY DEF WriteClaimedEvent, AppendRow, SendBatch, CommitClaim, RollbackClaim, SetStatus,
         NoFault, tableVars
<1>3. Counted(w, e)
  BY <1>1, CountedStep
<1>4. event[w] # e => event'[w] # e
  BY <1>1, EventAssumption DEF TypeOK
<1>5. CASE event[w] # e
  <2>1. status'[e] = status[e] /\ rows'[e] = rows[e]
    BY <1>1, <1>5 DEF WriteClaimedEvent, AppendRow, SendBatch, StoreRow, CommitClaim,
                      RollbackClaim, SetStatus, tableVars, TypeOK
  <2>2. QED
    BY <1>1, <1>2, <1>4, <1>5, <2>1, Elsewhere DEF Untouched
<1>6. rows[e] \in Nat /\ windows[e] \in Nat /\ attempt[e] \in Nat
  BY DEF TypeOK
<1>7. ASSUME event[w] = e, AppendRow(w)
      PROVE  AttemptBound(e)' /\ RowBudget(e)'
  <2>1. /\ pc[w] = "append" /\ pc'[w] = "send" /\ event'[w] = e
        /\ status' = status /\ rows' = rows
    BY <1>7 DEF AppendRow, Goto, tableVars, TypeOK
  <2>2. ~ Recorded(e)
    BY <1>7, <2>1 DEF Recorded
  <2>3. On(e, Unsent \cup {"commit"})' # {}
    BY <1>7, <2>1 DEF On, Unsent
  <2>4. AttemptBound(e)'
    BY <1>2, <1>3, <1>7, <2>1 DEF AttemptBound, Counted, At, Appending
  <2>5. RowBudget(e)'
    BY <1>2, <1>3, <1>6, <1>7, <2>1, <2>2, <2>3 DEF RowBudget, Counted, At, Unsent
  <2>6. QED
    BY <2>4, <2>5
<1>8. ASSUME event[w] = e, SendBatch(w)
      PROVE  AttemptBound(e)' /\ RowBudget(e)'
  <2>1. /\ pc[w] = "send" /\ pc'[w] = "commit" /\ event'[w] = e
        /\ status' = status /\ rows'[e] = rows[e] + 1
    BY <1>8 DEF SendBatch, StoreRow, Goto, TypeOK
  <2>2. ~ Recorded(e)
    BY <1>8, <2>1 DEF Recorded
  <2>3. On(e, Unsent \cup {"commit"})' # {}
    BY <1>8, <2>1 DEF On, Unsent
  <2>4. AttemptBound(e)'
    BY <1>2, <1>3, <1>6, <1>8, <2>1 DEF AttemptBound, Counted, At, Appending
  <2>5. RowBudget(e)'
    BY <1>2, <1>3, <1>6, <1>8, <2>1, <2>2, <2>3 DEF RowBudget, Counted, At, Unsent
  <2>6. QED
    BY <2>4, <2>5
<1>9. ASSUME event[w] = e, CommitClaim(w)
      PROVE  AttemptBound(e)' /\ RowBudget(e)'
  <2>1. /\ pc[w] = "commit" /\ pc'[w] = "done" /\ event'[w] = e
        /\ status'[e] = "inserted" /\ rows' = rows
    BY <1>9 DEF CommitClaim, SetStatus, Goto, TypeOK
  <2>2. Recorded(e) => Recorded(e)'
    BY <1>1, <2>1, RecordedStays
  <2>3. AttemptBound(e)'
    BY <1>2, <1>3, <1>6, <1>9, <2>1 DEF AttemptBound, Counted, At, Appending
  <2>4. RowBudget(e)'
    BY <1>2, <1>3, <1>6, <1>9, <2>1, <2>2 DEF RowBudget, Counted, At, Unsent
  <2>5. QED
    BY <2>3, <2>4
<1>10. ASSUME event[w] = e, RollbackClaim(w)
       PROVE  AttemptBound(e)' /\ RowBudget(e)'
  <2>1. /\ pc[w] = "rollback" /\ event'[w] = NoEvent /\ event'[w] # e
        /\ status'[e] = "failed" /\ rows' = rows
    BY <1>10, EventAssumption DEF RollbackClaim, SetStatus, Return, TypeOK
  <2>2. ~ Recorded(e)
    BY <1>10, <2>1 DEF Recorded
  <2>3. AttemptBound(e)'
    BY <1>2, <1>3, <1>6, <1>10, <2>1 DEF AttemptBound, Counted, At, Appending
  <2>4. RowBudget(e)'
    BY <1>2, <1>3, <1>6, <1>10, <2>1, <2>2 DEF RowBudget, Counted, At, Unsent
  <2>5. QED
    BY <2>3, <2>4
<1>11. QED
  BY <1>5, <1>7, <1>8, <1>9, <1>10 DEF WriteClaimedEvent

(* An acknowledged delivery leaves, and was past its Send.                 *)
LEMMA AcknowledgeCounts ==
  ASSUME TypeOK, NEW w \in Worker, Acknowledge(w),
         NEW e \in Event, AttemptBound(e), RowBudget(e)
  PROVE  AttemptBound(e)' /\ RowBudget(e)'
<1>1. OnlyMoves(w) /\ event'[w] = NoEvent /\ event'[w] # e /\ pc[w] = "done"
  BY EventAssumption DEF OnlyMoves, Acknowledge, Return, TypeOK
<1>2. status' = status /\ rows' = rows /\ attempt' = attempt /\ windows' = windows
  BY DEF Acknowledge, NoFault, tableVars
<1>3. Counted(w, e)
  BY <1>1, CountedStep
<1>4. Recorded(e) => Recorded(e)'
  BY <1>1, <1>2, RecordedStays DEF Recorded
<1>5. On(e, Unsent \cup {"commit"})' = On(e, Unsent \cup {"commit"})
  BY <1>1 DEF On, OnlyMoves, Unsent
<1>6. QED
  BY <1>1, <1>2, <1>3, <1>4, <1>5 DEF AttemptBound, RowBudget, Counted, At, Unsent, Appending

(* A failed status call sends the delivery away; only the loss of a commit *)
(* leaves a row behind that the status does not tell of.                   *)
LEMMA StatusFailsCounts ==
  ASSUME TypeOK, NEW w \in Worker, StatusCallFails(w),
         NEW e \in Event, AttemptBound(e), RowBudget(e)
  PROVE  AttemptBound(e)' /\ RowBudget(e)'
<1>1. /\ OnlyMoves(w) /\ event[w] \in Event
      /\ event'[w] = NoEvent /\ event'[w] # e
  BY EventAssumption DEF OnlyMoves, StatusCallFails, Return, TypeOK
<1>2. rows' = rows
  BY DEF StatusCallFails
<1>3. Counted(w, e)
  BY <1>1, CountedStep
<1>4. rows[e] \in Nat /\ windows[e] \in Nat /\ attempt[e] \in Nat
  BY DEF TypeOK
<1>5. CASE event[w] # e
  <2>1. status'[e] = status[e] /\ attempt'[e] = attempt[e] /\ windows'[e] = windows[e]
    BY <1>1, <1>5 DEF StatusCallFails, InsertRow, ReclaimRow, SetStatus, OpenWindow, TypeOK
  <2>2. QED
    BY <1>1, <1>2, <1>5, <2>1, Elsewhere DEF Untouched
<1>6. ASSUME event[w] = e, pc[w] \in {"insert", "find", "reclaim", "rollback"}
      PROVE  AttemptBound(e)' /\ RowBudget(e)'
  <2>1. windows' = windows
    BY <1>6 DEF StatusCallFails
  <2>2. /\ attempt'[e] \in Nat /\ attempt'[e] >= attempt[e]
        /\ status'[e] = "absent" => status[e] = "absent" /\ attempt'[e] = attempt[e]
    BY <1>1, <1>4, <1>6 DEF StatusCallFails, InsertRow, ReclaimRow, SetStatus, AttemptBound, TypeOK
  <2>3. Recorded(e) => status'[e] = "inserted"
    BY <1>6 DEF Recorded, StatusCallFails, InsertRow
  <2>4. Recorded(e) => Recorded(e)'
    BY <1>1, <2>3, RecordedStays
  <2>5. AttemptBound(e)'
    BY <1>1, <1>2, <1>3, <1>4, <1>6, <2>2 DEF AttemptBound, Counted, At, Appending
  <2>6. RowBudget(e)'
    BY <1>1, <1>2, <1>3, <1>4, <1>6, <2>1, <2>4 DEF RowBudget, Counted, At, Unsent
  <2>7. QED
    BY <2>5, <2>6
<1>7. ASSUME event[w] = e, pc[w] = "commit"
      PROVE  AttemptBound(e)' /\ RowBudget(e)'
  <2>1. attempt' = attempt
    BY <1>7 DEF StatusCallFails, SetStatus
  <2>2. \/ status' = status /\ windows'[e] = windows[e] + 1
        \/ status'[e] = "inserted" /\ windows' = windows
    BY <1>7 DEF StatusCallFails, SetStatus, OpenWindow, TypeOK
  <2>3. Recorded(e) => Recorded(e)'
    BY <1>1, <2>2, RecordedStays DEF Recorded
  <2>4. AttemptBound(e)'
    BY <1>1, <1>2, <1>3, <1>4, <1>7, <2>1, <2>2 DEF AttemptBound, Counted, At, Appending
  <2>5. RowBudget(e)'
    BY <1>1, <1>2, <1>3, <1>4, <1>7, <2>2, <2>3 DEF RowBudget, Counted, At, Unsent
  <2>6. QED
    BY <2>4, <2>5
<1>8. QED
  BY <1>5, <1>6, <1>7 DEF StatusCallFails

LEMMA FailsCounts ==
  ASSUME TypeOK, NEW w \in Worker, WriteFails(w),
         NEW e \in Event, AttemptBound(e), RowBudget(e)
  PROVE  AttemptBound(e)' /\ RowBudget(e)'
<1>1. CASE StatusCallFails(w)
  BY <1>1, StatusFailsCounts
<1>2. ASSUME AppendFails(w) \/ SendFails(w)
      PROVE  AttemptBound(e)' /\ RowBudget(e)'
  <2>1. /\ OnlyMoves(w) /\ event[w] \in Event /\ event'[w] = event[w]
        /\ pc[w] \in {"append", "send"} /\ pc'[w] = "rollback"
        /\ status' = status /\ attempt' = attempt
    BY <1>2 DEF OnlyMoves, AppendFails, SendFails, Goto, tableVars, TypeOK
  <2>2. Counted(w, e)
    BY <2>1, CountedStep
  <2>3. rows[e] \in Nat /\ windows[e] \in Nat /\ attempt[e] \in Nat
    BY DEF TypeOK
  <2>4. CASE event[w] # e
    <3>1. rows'[e] = rows[e] /\ windows'[e] = windows[e]
      BY <1>2, <2>1, <2>4 DEF AppendFails, SendFails, StoreRow, OpenWindow, tableVars, TypeOK
    <3>2. QED
      BY <2>1, <2>4, <3>1, Elsewhere DEF Untouched
  <2>5. CASE event[w] = e
    <3>1. \/ rows'[e] = rows[e] /\ windows'[e] = windows[e]
          \/ /\ pc[w] = "send"
             /\ rows'[e] = rows[e] + 1 /\ windows'[e] = windows[e] + 1
      BY <1>2, <2>5 DEF AppendFails, SendFails, StoreRow, OpenWindow, tableVars, TypeOK
    <3>2. ~ Recorded(e)
      BY <2>1, <2>5 DEF Recorded
    <3>3. On(e, Unsent \cup {"commit"})' # {}
      BY <2>1, <2>5 DEF On, Unsent
    <3>4. AttemptBound(e)'
      BY <2>1, <2>2, <2>3, <2>5, <3>1 DEF AttemptBound, Counted, At, Appending
    <3>5. Cardinality(On(e, Unsent)) \in Nat
          /\ Cardinality(On(e, Unsent)') = Cardinality(On(e, Unsent))
      <4>1. At(w, e, Unsent) = 1 /\ At(w, e, Unsent)' = 1
        BY <2>1, <2>5 DEF At, Unsent
      <4>2. QED
        BY <2>2, <4>1 DEF Counted
    <3>6. RowBudget(e)'
      <4>1. /\ rows[e] <= 1 + windows[e]
            /\ rows[e] + Cardinality(On(e, Unsent)) <= 1 + windows[e]
        BY <3>2 DEF RowBudget
      <4>2. /\ rows'[e] <= 1 + windows'[e]
            /\ rows'[e] + Cardinality(On(e, Unsent)') <= 1 + windows'[e]
        BY <2>3, <3>1, <3>5, <4>1
      <4>3. QED
        BY <3>3, <4>2 DEF RowBudget
    <3>7. QED
      BY <3>4, <3>6
  <2>6. QED
    BY <2>4, <2>5
<1>3. QED
  BY <1>1, <1>2 DEF WriteFails

(* A crash between Send and Commit opens a window; any other frees a room. *)
LEMMA CrashCounts ==
  ASSUME TypeOK, NEW w \in Worker, Crash(w),
         NEW e \in Event, AttemptBound(e), RowBudget(e)
  PROVE  AttemptBound(e)' /\ RowBudget(e)'
<1>1. /\ OnlyMoves(w) /\ event[w] \in Event
      /\ event'[w] = NoEvent /\ event'[w] # e
  BY EventAssumption DEF OnlyMoves, Crash, Return, TypeOK
<1>2. status' = status /\ rows' = rows /\ attempt' = attempt
  BY DEF Crash, tableVars
<1>3. windows'[e] = IF event[w] = e /\ pc[w] = "commit" THEN windows[e] + 1 ELSE windows[e]
  BY <1>1 DEF Crash, OpenWindow, TypeOK
<1>4. rows[e] \in Nat /\ windows[e] \in Nat /\ attempt[e] \in Nat
  BY DEF TypeOK
<1>5. CASE event[w] # e
  BY <1>1, <1>2, <1>3, <1>5, Elsewhere DEF Untouched
<1>6. CASE event[w] = e
  <2>1. Counted(w, e)
    BY <1>1, CountedStep
  <2>2. Recorded(e) => Recorded(e)'
    BY <1>1, <1>2, RecordedStays DEF Recorded
  <2>3. AttemptBound(e)'
    BY <1>1, <1>2, <1>4, <2>1 DEF AttemptBound, Counted, At, Appending
  <2>4. pc[w] \notin Unsent \cup {"commit"} =>
          On(e, Unsent \cup {"commit"})' = On(e, Unsent \cup {"commit"})
    BY <1>1 DEF On, OnlyMoves
  <2>5. ASSUME pc[w] \in Unsent PROVE RowBudget(e)'
    <3>1. At(w, e, Unsent) = 1 /\ At(w, e, Unsent)' = 0
      BY <1>1, <1>6, <2>5 DEF At
    <3>2. PICK n \in Nat : Cardinality(On(e, Unsent)) = n + 1 /\ Cardinality(On(e, Unsent)') = n
      BY <2>1, <3>1 DEF Counted
    <3>3. windows'[e] = windows[e]
      BY <1>3, <2>5 DEF Unsent
    <3>4. Recorded(e)' \/ rows[e] <= windows[e]
      BY <1>4, <2>2, <3>2 DEF RowBudget
    <3>5. QED
      BY <1>2, <1>4, <2>2, <3>2, <3>3, <3>4 DEF RowBudget
  <2>6. ASSUME pc[w] \notin Unsent PROVE RowBudget(e)'
    <3>1. Cardinality(On(e, Unsent)) \in Nat
          /\ Cardinality(On(e, Unsent)') = Cardinality(On(e, Unsent))
      BY <1>1, <2>1, <2>6 DEF Counted, At
    <3>2. CASE pc[w] = "commit"
      BY <1>2, <1>3, <1>4, <1>6, <2>2, <3>1, <3>2 DEF RowBudget
    <3>3. CASE pc[w] # "commit"
      BY <1>2, <1>3, <1>4, <2>2, <2>4, <2>6, <3>1, <3>3 DEF RowBudget
    <3>4. QED
      BY <3>2, <3>3
  <2>7. QED
    BY <2>3, <2>5, <2>6
<1>7. QED
  BY <1>5, <1>6

LEMMA InitCountInv == Init => CountInv
<1> SUFFICES ASSUME Init, NEW e \in Event PROVE AttemptBound(e) /\ RowBudget(e)
  BY DEF CountInv
<1>1. \A calls : On(e, calls) = {}
  BY EventAssumption DEF Init, On
<1>2. Cardinality(On(e, Appending)) = 0 /\ Cardinality(On(e, Unsent)) = 0
  BY <1>1, FS_EmptySet
<1>3. QED
  BY <1>2 DEF Init, AttemptBound, RowBudget

LEMMA NextCountInv == WriteInv /\ CountInv /\ [Next]_eventVars => CountInv'
<1> SUFFICES ASSUME WriteInv, CountInv, [Next]_eventVars, NEW e \in Event
             PROVE  AttemptBound(e)' /\ RowBudget(e)'
  BY DEF CountInv
<1>1. TypeOK /\ AttemptBound(e) /\ RowBudget(e)
  BY DEF WriteInv, CountInv
<1>2. CASE Next
  <2>1. PICK w \in Worker :
          \/ \E d \in Event : Deliver(w, d)
          \/ WriteEvent(w) \/ Acknowledge(w) \/ WriteFails(w) \/ Crash(w)
    BY <1>2 DEF Next
  <2>2. QED
    BY <1>1, <2>1, DeliverCounts, StartCounts, WriteClaimedCounts, AcknowledgeCounts,
       FailsCounts, CrashCounts
    DEF WriteEvent
<1>3. CASE UNCHANGED eventVars
  BY <1>1, <1>3
  DEF AttemptBound, RowBudget, Recorded, On, eventVars, tableVars, workerVars
<1>4. QED
  BY <1>2, <1>3

THEOREM CountInductive == Spec => []CountInv
<1>1. QED
  BY InitCountInv, NextCountInv, WriteInductive, PTL DEF Spec

(* attempt counts every claim, so it bounds the rows that were or may yet  *)
(* be appended: reclaimStatus never takes a row over without counting it.  *)
THEOREM AttemptsAreEnough == Spec => []AttemptsCoverRows
<1>1. CountInv => AttemptsCoverRows
  BY DEF CountInv, AttemptBound, AttemptsCoverRows, On, Appending
<1>2. QED
  BY <1>1, CountInductive, PTL

(* Every row of an event beyond its first is explained by a window that    *)
(* the guard could not see, whatever fails, overlaps or is delivered again.*)
THEOREM DuplicatesExplained == Spec => []DuplicatesNeedAWindow
<1>1. CountInv => DuplicatesNeedAWindow
  BY DEF CountInv, RowBudget, DuplicatesNeedAWindow
<1>2. QED
  BY <1>1, CountInductive, PTL
=============================================================================
