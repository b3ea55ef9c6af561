------------------------ MODULE IndexingWriterProofs ------------------------
(***************************************************************************)
(* For every set of events and workers: the claim on an event's property   *)
(* rows is exclusive, the rows are duplicated only by a Send that failed   *)
(* having stored them, and an acknowledged event is written completely.    *)
(* IndexInv is inductive; each lemma takes the steps of one group.         *)
(***************************************************************************)
EXTENDS IndexingWriter, TLAPS

(* The parts of IndexInv that only the event writer's variables decide.    *)
EventPart ==
  /\ status  \in [Event -> Events!Status]
  /\ attempt \in [Event -> Nat]
  /\ rows    \in [Event -> Nat]
  /\ pc      \in [Worker -> Events!WriteCalls \cup PropertyCalls \cup {"idle"}]
  /\ event   \in [Worker -> Event \cup {NoEvent}]
  /\ \A w \in Worker : pc[w] = "idle" <=> event[w] = NoEvent
  /\ faults \in 0 .. MaxFaults
  /\ windows \in [Event -> Nat]
  /\ EventStored

(* A step of worker w that writes no property row and leaves it outside a  *)
(* property claim, and every other worker where it was.                    *)
Aside(w) ==
  /\ UNCHANGED <<propertyVars, acked>>
  /\ \A e \in Event : rows'[e] >= rows[e]
  /\ \A v \in Worker \ {w} : pc'[v] = pc[v] /\ event'[v] = event[v]
  /\ pc'[w] \notin PropertyCalls

LEMMA InitIndexInv == Init => IndexInv
  BY IndexingAssumption
  DEF Init, Events!Init, IndexInv, TypeOK, EventStored, PropertyStored, PropertySpare,
      OnePropertyClaim, AckedComplete, PropertiesFollowEvent, HoldsClaim, PropertyCalls,
      PropertyDuplicatesNeedAFailedSend, Events!Status, Events!WriteCalls

(* A step aside keeps everything said of properties.                       *)
LEMMA AsideInv ==
  ASSUME IndexInv, NEW w \in Worker, Aside(w), EventPart'
  PROVE  IndexInv'
<1>1. TypeOK'
  BY DEF IndexInv, TypeOK, EventPart, Aside, propertyVars
<1>2. PropertyStored' /\ PropertySpare' /\ OnePropertyClaim'
  BY DEF IndexInv, TypeOK, Aside, propertyVars, PropertyStored, PropertySpare,
         OnePropertyClaim, HoldsClaim, PropertyCalls
<1>3. AckedComplete' /\ PropertiesFollowEvent' /\ PropertyDuplicatesNeedAFailedSend'
  <2>1. rows \in [Event -> Nat] /\ rows' \in [Event -> Nat]
    BY DEF IndexInv, TypeOK, EventPart
  <2>2. QED
    BY <2>1 DEF IndexInv, TypeOK, Aside, propertyVars, AckedComplete,
           PropertiesFollowEvent, PropertyDuplicatesNeedAFailedSend
<1>4. QED
  BY <1>1, <1>2, <1>3 DEF IndexInv, EventPart

LEMMA DeliverAside ==
  ASSUME IndexInv, NEW w \in Worker, NEW e \in Event, Events!Deliver(w, e),
         UNCHANGED propertyVars
  PROVE  Aside(w) /\ EventPart'
  BY IndexingAssumption
  DEF IndexInv, TypeOK, EventPart, EventStored, Aside, Events!Deliver, Events!Fault,
      Events!OpenWindow, Events!tableVars, Events!WriteCalls, PropertyCalls

LEMMA WriteAside ==
  ASSUME IndexInv, NEW w \in Worker, Events!WriteEvent(w), UNCHANGED propertyVars
  PROVE  Aside(w) /\ EventPart'
<1>0. /\ event[w] \in Event
      /\ pc[w] \in {"insert", "find", "reclaim", "append", "send", "commit", "rollback"}
  BY DEF IndexInv, TypeOK, Events!WriteEvent, Events!StartEventWrite,
         Events!WriteClaimedEvent, Events!InsertStatus, Events!FindStatus,
         Events!ReclaimStatus, Events!AppendRow, Events!SendBatch, Events!CommitClaim,
         Events!RollbackClaim
<1> USE IndexingAssumption DEF Events!Status, Events!WriteCalls, PropertyCalls
<1>1. CASE Events!InsertStatus(w)
  BY <1>0, <1>1
  DEF IndexInv, TypeOK, EventPart, EventStored, Aside, Events!InsertStatus,
      Events!InsertRow, Events!Goto, Events!NoFault
<1>2. CASE Events!FindStatus(w)
  BY <1>0, <1>2
  DEF IndexInv, TypeOK, EventPart, EventStored, Aside, Events!FindStatus,
      Events!AlreadyInserted, Events!Goto, Events!Return, Events!NoFault, Events!tableVars
<1>3. CASE Events!ReclaimStatus(w)
  BY <1>0, <1>3
  DEF IndexInv, TypeOK, EventPart, EventStored, Aside, Events!ReclaimStatus,
      Events!ReclaimRow, Events!Goto, Events!NoFault
<1>4. CASE Events!AppendRow(w)
  BY <1>0, <1>4
  DEF IndexInv, TypeOK, EventPart, EventStored, Aside, Events!AppendRow,
      Events!Goto, Events!NoFault, Events!tableVars
<1>5. CASE Events!SendBatch(w)
  <2>1. rows' \in [Event -> Nat] /\ \A e \in Event : rows'[e] >= rows[e]
    BY <1>0, <1>5 DEF IndexInv, TypeOK, Events!SendBatch, Events!StoreRow
  <2>2. rows'[event[w]] >= 1
    BY <1>0, <1>5 DEF IndexInv, TypeOK, Events!SendBatch, Events!StoreRow
  <2>3. QED
    BY <1>0, <1>5, <2>1, <2>2
    DEF IndexInv, TypeOK, EventPart, EventStored, Aside, Events!SendBatch,
        Events!Goto, Events!NoFault
<1>6. CASE Events!CommitClaim(w)
  BY <1>0, <1>6
  DEF IndexInv, TypeOK, EventPart, EventStored, Aside, Events!CommitClaim,
      Events!SetStatus, Events!Goto, Events!NoFault
<1>7. CASE Events!RollbackClaim(w)
  BY <1>0, <1>7
  DEF IndexInv, TypeOK, EventPart, EventStored, Aside, Events!RollbackClaim,
      Events!SetStatus, Events!Return, Events!NoFault
<1>8. QED
  BY <1>1, <1>2, <1>3, <1>4, <1>5, <1>6, <1>7
  DEF Events!WriteEvent, Events!StartEventWrite, Events!WriteClaimedEvent

LEMMA FailsAside ==
  ASSUME IndexInv, NEW w \in Worker, Events!WriteFails(w), UNCHANGED propertyVars
  PROVE  Aside(w) /\ EventPart'
<1>0. /\ event[w] \in Event
      /\ pc[w] \in Events!WriteCalls
  BY DEF IndexInv, TypeOK, Events!WriteFails, Events!StatusCallFails, Events!AppendFails,
         Events!SendFails, Events!WriteCalls
<1> USE IndexingAssumption DEF Events!Status, Events!WriteCalls, PropertyCalls
<1>1. CASE Events!StatusCallFails(w)
  <2>1. rows' = rows /\ acked' = acked /\ faults' \in 0 .. MaxFaults
    BY <1>1 DEF Events!StatusCallFails, Events!Fault, IndexInv, TypeOK
  <2>2. windows' \in [Event -> Nat]
    BY <1>0, <1>1 DEF Events!StatusCallFails, Events!OpenWindow, IndexInv, TypeOK
  <2>3. attempt' \in [Event -> Nat]
    BY <1>0, <1>1
    DEF Events!StatusCallFails, Events!InsertRow, Events!ReclaimRow, Events!SetStatus,
        IndexInv, TypeOK
  <2>4. /\ status' \in [Event -> Events!Status]
        /\ \A e \in Event : status'[e] = "inserted" => rows[e] >= 1
    BY <1>0, <1>1
    DEF Events!StatusCallFails, Events!InsertRow, Events!ReclaimRow, Events!SetStatus,
        IndexInv, TypeOK, EventStored
  <2>5. Events!Return(w)
    BY <1>1 DEF Events!StatusCallFails
  <2>6. QED
    BY <1>0, <2>1, <2>2, <2>3, <2>4, <2>5
    DEF IndexInv, TypeOK, EventPart, EventStored, Aside, Events!Return
<1>2. CASE Events!AppendFails(w)
  BY <1>0, <1>2
  DEF IndexInv, TypeOK, EventPart, EventStored, Aside, Events!AppendFails, Events!Goto,
      Events!Fault, Events!tableVars
<1>3. CASE Events!SendFails(w)
  <2>1. rows' \in [Event -> Nat] /\ \A e \in Event : rows'[e] >= rows[e]
    BY <1>0, <1>3 DEF Events!SendFails, Events!StoreRow, IndexInv, TypeOK
  <2>2. windows' \in [Event -> Nat]
    BY <1>0, <1>3 DEF Events!SendFails, Events!OpenWindow, IndexInv, TypeOK
  <2>3. QED
    BY <1>0, <1>3, <2>1, <2>2
    DEF IndexInv, TypeOK, EventPart, EventStored, Aside, Events!SendFails, Events!Goto,
        Events!Fault
<1>4. QED
  BY <1>1, <1>2, <1>3 DEF Events!WriteFails

LEMMA CrashAside ==
  ASSUME IndexInv, NEW w \in Worker, Events!Crash(w), UNCHANGED propertyVars
  PROVE  Aside(w) /\ EventPart'
<1>0. event[w] \in Event
  BY DEF IndexInv, TypeOK, Events!Crash
<1>1. windows' \in [Event -> Nat]
  BY <1>0 DEF Events!Crash, Events!OpenWindow, IndexInv, TypeOK
<1>2. QED
  BY <1>0, <1>1, IndexingAssumption
  DEF IndexInv, TypeOK, EventPart, EventStored, Aside, Events!Crash, Events!Return,
      Events!Fault, Events!tableVars, Events!WriteCalls, PropertyCalls

LEMMA WriteEventsInv ==
  ASSUME IndexInv, NEW w \in Worker, WriteEvents(w)
  PROVE  IndexInv'
  BY DeliverAside, WriteAside, FailsAside, CrashAside, AsideInv DEF WriteEvents

-----------------------------------------------------------------------------
(* Steps of the decorators: the event writer's tables stay as they are.    *)

LEMMA StartIndexingInv ==
  ASSUME IndexInv, NEW w \in Worker, StartIndexing(w)
  PROVE  IndexInv'
<1>1. TypeOK'
  BY DEF IndexInv, TypeOK, StartIndexing, Goto, Events!Goto, Events!NoFault, propertyVars,
         tableVars, PropertyCalls, Events!WriteCalls
<1>2. QED
  BY <1>1 DEF IndexInv, TypeOK, StartIndexing, Goto, Events!Goto, Events!NoFault,
         propertyVars, tableVars, EventStored, PropertyStored, PropertySpare,
         OnePropertyClaim, HoldsClaim, AckedComplete, PropertiesFollowEvent,
         PropertyDuplicatesNeedAFailedSend

LEMMA FinishBareInv ==
  ASSUME IndexInv, NEW w \in Worker, FinishBare(w)
  PROVE  IndexInv'
<1>0. event[w] \in Bare /\ rows[event[w]] >= 1
  BY IndexingAssumption
  DEF IndexInv, EventStored, FinishBare, Events!Acknowledge, TypeOK
<1>1. TypeOK'
  BY <1>0, IndexingAssumption
  DEF IndexInv, TypeOK, FinishBare, Events!Acknowledge, Events!Return, Events!NoFault,
      propertyVars, Events!tableVars, Events!WriteCalls
<1>2. QED
  BY <1>0, <1>1, IndexingAssumption
  DEF IndexInv, TypeOK, FinishBare, Events!Acknowledge, Events!Return, Events!NoFault,
      propertyVars, Events!tableVars, EventStored, PropertyStored, PropertySpare,
      OnePropertyClaim, HoldsClaim, AckedComplete, PropertiesFollowEvent,
      PropertyDuplicatesNeedAFailedSend, PropertyCalls

(* A claim taken by inserting: nobody held one while the row was absent.   *)
LEMMA ClaimPropertyInv ==
  ASSUME IndexInv, NEW w \in Worker, ClaimProperty(w)
  PROVE  IndexInv'
<1>0. event[w] \in Event
  BY DEF IndexInv, TypeOK, ClaimProperty
<1>1. TypeOK'
  BY <1>0, IndexingAssumption
  DEF IndexInv, TypeOK, ClaimProperty, SetStatus, Goto, Events!Goto, Events!NoFault,
      propertyVars, tableVars, PropertyCalls, Events!WriteCalls, Events!Status
<1>2. QED
  BY <1>0, <1>1, IndexingAssumption
  DEF IndexInv, TypeOK, ClaimProperty, SetStatus, Goto, Events!Goto, Events!NoFault,
      propertyVars, tableVars, EventStored, PropertyStored, PropertySpare,
      OnePropertyClaim, HoldsClaim, AckedComplete, PropertiesFollowEvent,
      PropertyDuplicatesNeedAFailedSend, PropertyCalls

LEMMA FindPropertyInv ==
  ASSUME IndexInv, NEW w \in Worker, FindProperty(w)
  PROVE  IndexInv'
<1>0. event[w] \in Event
  BY DEF IndexInv, TypeOK, FindProperty
<1>1. TypeOK'
  BY <1>0, IndexingAssumption
  DEF IndexInv, TypeOK, FindProperty, PropertyReclaimable, Goto, Events!Goto, Events!NoFault, Leave, Events!Return,
      propertyVars, tableVars, PropertyCalls, Events!WriteCalls, Events!Status
<1>2. QED
  BY <1>0, <1>1, IndexingAssumption
  DEF IndexInv, TypeOK, FindProperty, PropertyReclaimable, Goto, Events!Goto, Events!NoFault, Leave, Events!Return,
      propertyVars, tableVars, EventStored, PropertyStored, PropertySpare,
      OnePropertyClaim, HoldsClaim, AckedComplete, PropertiesFollowEvent,
      PropertyDuplicatesNeedAFailedSend, PropertyCalls

(* A claim taken from a failed row: nobody held one while it was failed.   *)
LEMMA ReclaimFailedStatusInv ==
  ASSUME IndexInv, NEW w \in Worker, ReclaimFailedStatus(w)
  PROVE  IndexInv'
<1>0. event[w] \in Event
  BY DEF IndexInv, TypeOK, ReclaimFailedStatus
<1>1. TypeOK'
  BY <1>0, IndexingAssumption
  DEF IndexInv, TypeOK, ReclaimFailedStatus, MayRetake, SetStatus, Goto, Events!Goto, Events!NoFault, Leave, Events!Return,
      propertyVars, tableVars, PropertyCalls, Events!WriteCalls, Events!Status
<1>2. QED
  BY <1>0, <1>1, IndexingAssumption
  DEF IndexInv, TypeOK, ReclaimFailedStatus, MayRetake, SetStatus, Goto, Events!Goto, Events!NoFault, Leave, Events!Return,
      propertyVars, tableVars, EventStored, PropertyStored, PropertySpare,
      OnePropertyClaim, HoldsClaim, AckedComplete, PropertiesFollowEvent,
      PropertyDuplicatesNeedAFailedSend, PropertyCalls

LEMMA IndexPropertiesInv ==
  ASSUME IndexInv, NEW w \in Worker, IndexProperties(w)
  PROVE  IndexInv'
<1>0. event[w] \in Event
  BY DEF IndexInv, TypeOK, IndexProperties
<1>1. TypeOK'
  BY <1>0, IndexingAssumption
  DEF IndexInv, TypeOK, IndexProperties, StoreBatch, Goto, Events!Goto, Events!NoFault,
      propertyVars, tableVars, PropertyCalls, Events!WriteCalls, Events!Status
<1>2. QED
  BY <1>0, <1>1, IndexingAssumption
  DEF IndexInv, TypeOK, IndexProperties, StoreBatch, Goto, Events!Goto, Events!NoFault,
      propertyVars, tableVars, EventStored, PropertyStored, PropertySpare,
      OnePropertyClaim, HoldsClaim, AckedComplete, PropertiesFollowEvent,
      PropertyDuplicatesNeedAFailedSend, PropertyCalls

(* The holder gives its claim up, so no other may hold it afterwards.      *)
LEMMA CommitPropertyInv ==
  ASSUME IndexInv, NEW w \in Worker, CommitProperty(w)
  PROVE  IndexInv'
<1>0. event[w] \in Event
  BY DEF IndexInv, TypeOK, CommitProperty
<1>1. TypeOK'
  BY <1>0, IndexingAssumption
  DEF IndexInv, TypeOK, CommitProperty, SetStatus, Goto, Events!Goto, Events!NoFault,
      propertyVars, tableVars, PropertyCalls, Events!WriteCalls, Events!Status
<1>2. QED
  BY <1>0, <1>1, IndexingAssumption
  DEF IndexInv, TypeOK, CommitProperty, SetStatus, Goto, Events!Goto, Events!NoFault,
      propertyVars, tableVars, EventStored, PropertyStored, PropertySpare,
      OnePropertyClaim, HoldsClaim, AckedComplete, PropertiesFollowEvent,
      PropertyDuplicatesNeedAFailedSend, PropertyCalls

LEMMA RollbackPropertyInv ==
  ASSUME IndexInv, NEW w \in Worker, RollbackProperty(w)
  PROVE  IndexInv'
<1>0. event[w] \in Event
  BY DEF IndexInv, TypeOK, RollbackProperty
<1>1. TypeOK'
  BY <1>0, IndexingAssumption
  DEF IndexInv, TypeOK, RollbackProperty, SetStatus, Leave, Events!Return, Events!NoFault,
      propertyVars, tableVars, PropertyCalls, Events!WriteCalls, Events!Status
<1>2. QED
  BY <1>0, <1>1, IndexingAssumption
  DEF IndexInv, TypeOK, RollbackProperty, SetStatus, Leave, Events!Return, Events!NoFault,
      propertyVars, tableVars, EventStored, PropertyStored, PropertySpare,
      OnePropertyClaim, HoldsClaim, AckedComplete, PropertiesFollowEvent,
      PropertyDuplicatesNeedAFailedSend, PropertyCalls

LEMMA UpsertCatalogInv ==
  ASSUME IndexInv, NEW w \in Worker, UpsertCatalog(w)
  PROVE  IndexInv'
<1>0. event[w] \in Event
  BY DEF IndexInv, TypeOK, UpsertCatalog
<1>1. TypeOK'
  BY <1>0, IndexingAssumption
  DEF IndexInv, TypeOK, UpsertCatalog, Leave, Events!Return, Events!NoFault,
      propertyVars, tableVars, PropertyCalls, Events!WriteCalls, Events!Status
<1>2. QED
  BY <1>0, <1>1, IndexingAssumption
  DEF IndexInv, TypeOK, UpsertCatalog, Leave, Events!Return, Events!NoFault,
      propertyVars, tableVars, EventStored, PropertyStored, PropertySpare,
      OnePropertyClaim, HoldsClaim, AckedComplete, PropertiesFollowEvent,
      PropertyDuplicatesNeedAFailedSend, PropertyCalls

LEMMA PropertyStatusFailsInv ==
  ASSUME IndexInv, NEW w \in Worker, PropertyStatusFails(w)
  PROVE  IndexInv'
<1>0. event[w] \in Event
  BY DEF IndexInv, TypeOK, PropertyStatusFails
<1>1. TypeOK'
  BY <1>0, IndexingAssumption
  DEF IndexInv, TypeOK, PropertyStatusFails, MayRetake, SetStatus, ReturnError,
      Events!Return, Events!Fault,
      propertyVars, tableVars, PropertyCalls, Events!WriteCalls, Events!Status
<1>2. QED
  BY <1>0, <1>1, IndexingAssumption
  DEF IndexInv, TypeOK, PropertyStatusFails, MayRetake, SetStatus, ReturnError,
      Events!Return, Events!Fault,
      propertyVars, tableVars, EventStored, PropertyStored, PropertySpare,
      OnePropertyClaim, HoldsClaim, AckedComplete, PropertiesFollowEvent,
      PropertyDuplicatesNeedAFailedSend, PropertyCalls

LEMMA IndexFailsInv ==
  ASSUME IndexInv, NEW w \in Worker, IndexFails(w)
  PROVE  IndexInv'
<1>0. event[w] \in Event
  BY DEF IndexInv, TypeOK, IndexFails
<1>1. TypeOK'
  BY <1>0, IndexingAssumption
  DEF IndexInv, TypeOK, IndexFails, StoreBatch, Events!Goto, Events!Fault,
      propertyVars, tableVars, PropertyCalls, Events!WriteCalls, Events!Status
<1>2. QED
  BY <1>0, <1>1, IndexingAssumption
  DEF IndexInv, TypeOK, IndexFails, StoreBatch, Events!Goto, Events!Fault,
      propertyVars, tableVars, EventStored, PropertyStored, PropertySpare,
      OnePropertyClaim, HoldsClaim, AckedComplete, PropertiesFollowEvent,
      PropertyDuplicatesNeedAFailedSend, PropertyCalls

LEMMA CatalogFailsInv ==
  ASSUME IndexInv, NEW w \in Worker, CatalogFails(w)
  PROVE  IndexInv'
<1>0. event[w] \in Event
  BY DEF IndexInv, TypeOK, CatalogFails
<1>1. TypeOK'
  BY <1>0, IndexingAssumption
  DEF IndexInv, TypeOK, CatalogFails, ReturnError, Events!Return, Events!Fault,
      propertyVars, tableVars, PropertyCalls, Events!WriteCalls, Events!Status
<1>2. QED
  BY <1>0, <1>1, IndexingAssumption
  DEF IndexInv, TypeOK, CatalogFails, ReturnError, Events!Return, Events!Fault,
      propertyVars, tableVars, EventStored, PropertyStored, PropertySpare,
      OnePropertyClaim, HoldsClaim, AckedComplete, PropertiesFollowEvent,
      PropertyDuplicatesNeedAFailedSend, PropertyCalls

LEMMA StutterInv ==
  ASSUME IndexInv, UNCHANGED vars
  PROVE  IndexInv'
  BY DEF IndexInv, TypeOK, vars, Events!eventVars, Events!tableVars, Events!workerVars,
         propertyVars, EventStored, PropertyStored, PropertySpare,
      OnePropertyClaim, HoldsClaim, AckedComplete, PropertiesFollowEvent,
      PropertyDuplicatesNeedAFailedSend, PropertyCalls

LEMMA NextIndexInv == IndexInv /\ [Next]_vars => IndexInv'
<1> SUFFICES ASSUME IndexInv, [Next]_vars PROVE IndexInv'
  OBVIOUS
<1>1. CASE Next
  <2>1. PICK w \in Worker : WriteEvents(w) \/ WriteProperties(w) \/ PropertyFails(w)
    BY <1>1 DEF Next
  <2>2. CASE WriteEvents(w)
    BY <2>2, WriteEventsInv
  <2>3. CASE WriteProperties(w)
    BY <2>3, StartIndexingInv, FinishBareInv, ClaimPropertyInv, FindPropertyInv,
       ReclaimFailedStatusInv, IndexPropertiesInv, CommitPropertyInv,
       RollbackPropertyInv, UpsertCatalogInv
    DEF WriteProperties
  <2>4. CASE PropertyFails(w)
    BY <2>4, PropertyStatusFailsInv, IndexFailsInv, CatalogFailsInv DEF PropertyFails
  <2>5. QED
    BY <2>1, <2>2, <2>3, <2>4
<1>2. CASE UNCHANGED vars
  BY <1>2, StutterInv
<1>3. QED
  BY <1>1, <1>2

-----------------------------------------------------------------------------
(* The composed writer's invariant, for every instance.                    *)
THEOREM IndexInductive == Spec => []IndexInv
<1>1. QED
  BY InitIndexInv, NextIndexInv, PTL DEF Spec

(* An acknowledged event is stored, indexed and catalogued, whichever of   *)
(* its deliveries did each part.                                           *)
THEOREM AcknowledgedIsComplete == Spec => []AckedComplete
<1>1. IndexInv => AckedComplete
  BY DEF IndexInv
<1>2. QED
  BY <1>1, IndexInductive, PTL

(* Two deliveries never hold the claim on the same property rows.          *)
THEOREM PropertyClaimIsExclusive == Spec => []OnePropertyClaim
<1>1. IndexInv => OnePropertyClaim
  BY DEF IndexInv
<1>2. QED
  BY <1>1, IndexInductive, PTL

(* Property rows are duplicated only by a Send that failed having stored   *)
(* them.                                                                   *)
THEOREM PropertyDuplicatesExplained == Spec => []PropertyDuplicatesNeedAFailedSend
<1>1. IndexInv => PropertyDuplicatesNeedAFailedSend
  BY DEF IndexInv
<1>2. QED
  BY <1>1, IndexInductive, PTL
-----------------------------------------------------------------------------
(* What the refinement of Visibility needs beside IndexInv: only an event  *)
(* with properties gets to the property steps.                             *)
WithProperties == \A w \in Worker : pc[w] \in PropertyCalls => event[w] \notin Bare

LEMMA WritesAside ==
  ASSUME IndexInv, NEW w \in Worker, WriteEvents(w)
  PROVE  Aside(w) /\ EventPart'
  BY DeliverAside, WriteAside, FailsAside, CrashAside DEF WriteEvents

LEMMA NextWithProperties == IndexInv /\ WithProperties /\ [Next]_vars => WithProperties'
<1> SUFFICES ASSUME IndexInv, WithProperties, [Next]_vars PROVE WithProperties'
  OBVIOUS
<1>1. ASSUME NEW w \in Worker, WriteEvents(w) PROVE WithProperties'
  BY <1>1, WritesAside DEF Aside, WithProperties
<1>2. ASSUME NEW w \in Worker, StartIndexing(w) PROVE WithProperties'
  BY <1>2 DEF IndexInv, TypeOK, WithProperties, StartIndexing, Goto, Events!Goto
<1>3. ASSUME NEW w \in Worker, FinishBare(w) PROVE WithProperties'
  BY <1>3 DEF IndexInv, TypeOK, WithProperties, FinishBare, Events!Acknowledge,
     Events!Return, PropertyCalls
<1>4. ASSUME NEW w \in Worker,
             WriteProperties(w), ~ StartIndexing(w), ~ FinishBare(w)
      PROVE  WithProperties'
  BY <1>4 DEF IndexInv, TypeOK, WithProperties, WriteProperties, ClaimProperty,
     FindProperty, ReclaimFailedStatus, IndexProperties, CommitProperty,
     RollbackProperty, UpsertCatalog, Goto, Leave, Events!Goto, Events!Return,
     PropertyCalls
<1>5. ASSUME NEW w \in Worker, PropertyFails(w) PROVE WithProperties'
  BY <1>5 DEF IndexInv, TypeOK, WithProperties, PropertyFails, PropertyStatusFails,
     IndexFails, CatalogFails, ReturnError, Events!Goto, Events!Return, PropertyCalls
<1>6. CASE UNCHANGED vars
  BY <1>6 DEF WithProperties, vars, Events!eventVars, Events!workerVars
<1>7. QED
  BY <1>1, <1>2, <1>3, <1>4, <1>5, <1>6 DEF Next

-----------------------------------------------------------------------------
(* Each step is one of Visibility or shows readers nothing new.            *)
VisibleStep == [Visible!Next]_(Visible!visibleVars)

LEMMA RowsShow ==
  ASSUME NEW e \in Event
  PROVE  /\ rows[e] >= 1 => Visible!Stored(e)
         /\ propertyRows[e] >= 1 => Visible!Indexed(e)
  BY DEF Visible!Stored, Visible!Indexed

LEMMA NothingVisible ==
  ASSUME UNCHANGED <<rows, propertyRows, catalog, acked>>
  PROVE  VisibleStep
  BY DEF VisibleStep, Visible!visibleVars

LEMMA StoreVisible ==
  ASSUME NEW e \in Event, Events!StoreRow(e), UNCHANGED <<propertyRows, catalog, acked>>
  PROVE  VisibleStep
  BY DEF VisibleStep, Visible!Next, Visible!StoreEvent, Events!StoreRow

LEMMA WriteEventsVisible ==
  ASSUME IndexInv, NEW w \in Worker, WriteEvents(w)
  PROVE  VisibleStep
<1>1. UNCHANGED <<propertyRows, catalog, acked>>
  BY WritesAside DEF Aside, propertyVars
<1>2. CASE Events!SendBatch(w) \/ Events!SendFails(w)
  <2>1. event[w] \in Event
    BY <1>2 DEF IndexInv, TypeOK, Events!SendBatch, Events!SendFails
  <2>2. UNCHANGED rows \/ Events!StoreRow(event[w])
    BY <1>2 DEF Events!SendBatch, Events!SendFails
  <2>3. QED
    BY <1>1, <2>1, <2>2, NothingVisible, StoreVisible
<1>3. CASE ~ (Events!SendBatch(w) \/ Events!SendFails(w))
  <2>1. UNCHANGED rows
    BY <1>3 DEF WriteEvents, Events!Deliver, Events!WriteEvent, Events!WriteFails,
       Events!Crash, Events!StartEventWrite, Events!WriteClaimedEvent,
       Events!InsertStatus, Events!FindStatus, Events!ReclaimStatus, Events!AppendRow,
       Events!CommitClaim, Events!RollbackClaim, Events!StatusCallFails,
       Events!AppendFails, Events!tableVars
  <2>2. QED
    BY <1>1, <2>1, NothingVisible
<1>4. QED
  BY <1>2, <1>3

LEMMA PropertiesVisible ==
  ASSUME IndexInv, WithProperties, NEW w \in Worker, IndexProperties(w) \/ IndexFails(w)
  PROVE  VisibleStep
<1>1. event[w] \in Event /\ event[w] \notin Bare /\ rows[event[w]] >= 1
  BY DEF IndexInv, TypeOK, EventStored, WithProperties, PropertyCalls, IndexProperties,
     IndexFails
<1>2. UNCHANGED <<rows, catalog, acked>>
  BY DEF IndexProperties, IndexFails, tableVars
<1>3. UNCHANGED propertyRows \/ StoreBatch(event[w])
  BY DEF IndexProperties, IndexFails
<1>4. CASE StoreBatch(event[w])
  <2>1. Visible!StoreProperties(event[w])
    BY <1>1, <1>2, <1>4, RowsShow DEF StoreBatch, Visible!StoreProperties
  <2>2. QED
    BY <1>1, <2>1 DEF VisibleStep, Visible!Next
<1>5. QED
  BY <1>2, <1>3, <1>4, NothingVisible

LEMMA CatalogVisible ==
  ASSUME IndexInv, WithProperties, NEW w \in Worker, UpsertCatalog(w) \/ CatalogFails(w)
  PROVE  VisibleStep
<1>1. /\ event[w] \in Event /\ event[w] \notin Bare
      /\ rows[event[w]] >= 1 /\ propertyRows[event[w]] >= 1
  BY DEF IndexInv, TypeOK, EventStored, PropertyStored, WithProperties, PropertyCalls,
     UpsertCatalog, CatalogFails
<1>2. UNCHANGED <<rows, propertyRows>>
  BY DEF UpsertCatalog, CatalogFails, tableVars
<1>3. CASE UpsertCatalog(w)
  <2>1. Visible!UpsertEntries(event[w])
    BY <1>1, <1>2, <1>3, RowsShow DEF UpsertCatalog, Visible!UpsertEntries
  <2>2. QED
    BY <1>1, <2>1 DEF VisibleStep, Visible!Next
<1>4. CASE CatalogFails(w) /\ catalog' = catalog \cup {event[w]}
  <2>1. Visible!UpsertEntries(event[w])
    BY <1>1, <1>2, <1>4, RowsShow DEF CatalogFails, Visible!UpsertEntries
  <2>2. QED
    BY <1>1, <2>1 DEF VisibleStep, Visible!Next
<1>5. CASE CatalogFails(w) /\ UNCHANGED catalog
  BY <1>2, <1>5, NothingVisible DEF CatalogFails
<1>6. QED
  BY <1>3, <1>4, <1>5 DEF CatalogFails

LEMMA FinishVisible ==
  ASSUME IndexInv, NEW w \in Worker, FinishBare(w)
  PROVE  VisibleStep
<1>1. event[w] \in Event /\ event[w] \in Bare /\ rows[event[w]] >= 1
  BY IndexingAssumption DEF IndexInv, EventStored, FinishBare, Events!Acknowledge
<1>2. Visible!AcknowledgeBare(event[w])
  BY <1>1, RowsShow DEF FinishBare, Events!Acknowledge, Events!tableVars, propertyVars,
     Visible!AcknowledgeBare
<1>3. QED
  BY <1>1, <1>2 DEF VisibleStep, Visible!Next

LEMMA NextVisible == IndexInv /\ WithProperties /\ [Next]_vars => VisibleStep
<1> SUFFICES ASSUME IndexInv, WithProperties, [Next]_vars PROVE VisibleStep
  OBVIOUS
<1>1. ASSUME NEW w \in Worker, WriteEvents(w) PROVE VisibleStep
  BY <1>1, WriteEventsVisible
<1>2. ASSUME NEW w \in Worker, IndexProperties(w) \/ IndexFails(w) PROVE VisibleStep
  BY <1>2, PropertiesVisible
<1>3. ASSUME NEW w \in Worker, UpsertCatalog(w) \/ CatalogFails(w) PROVE VisibleStep
  BY <1>3, CatalogVisible
<1>4. ASSUME NEW w \in Worker, FinishBare(w) PROVE VisibleStep
  BY <1>4, FinishVisible
<1>5. ASSUME NEW w \in Worker,
             \/ StartIndexing(w) \/ ClaimProperty(w) \/ FindProperty(w)
             \/ ReclaimFailedStatus(w) \/ CommitProperty(w) \/ RollbackProperty(w)
             \/ PropertyStatusFails(w)
      PROVE  VisibleStep
  <2>1. UNCHANGED <<rows, propertyRows, catalog, acked>>
    BY <1>5 DEF StartIndexing, ClaimProperty, FindProperty, ReclaimFailedStatus,
       CommitProperty, RollbackProperty, PropertyStatusFails, tableVars, propertyVars
  <2>2. QED
    BY <2>1, NothingVisible
<1>6. CASE UNCHANGED vars
  BY <1>6, NothingVisible
  DEF vars, Events!eventVars, Events!tableVars, propertyVars
<1>7. QED
  BY <1>1, <1>2, <1>3, <1>4, <1>5, <1>6 DEF Next, WriteProperties, PropertyFails

(* Readers see an event's row before its properties, these before the      *)
(* catalog entries that name them, and all of it before an acknowledgement, *)
(* whatever fails and whoever repairs it.                                  *)
THEOREM OrderOfVisibility == Spec => ImplementsVisibility
<1>1. Init => Visible!Init
  BY DEF Init, Events!Init, Visible!Init
<1>2. Init => WithProperties
  BY DEF Init, Events!Init, WithProperties, PropertyCalls
<1>3. IndexInv /\ WithProperties /\ [Next]_vars => [Visible!Next]_(Visible!visibleVars)
  BY NextVisible DEF VisibleStep
<1>4. QED
  BY <1>1, <1>2, <1>3, NextWithProperties, IndexInductive, PTL
  DEF Spec, ImplementsVisibility, Visible!Spec

-----------------------------------------------------------------------------
(* A checkpoint is ambiguous for good: claims begin with an absent or a    *)
(* failed one, and only their holders settle it.                           *)
LEMMA AmbiguousStays ==
  ASSUME IndexInv, [Next]_vars, NEW e \in Event, Ambiguous(e)
  PROVE  Ambiguous(e)'
<1>0. /\ propertyStatus[e] = "processing" /\ propertyStatus \in [Event -> Events!Status]
      /\ \A w \in Worker : event[w] = e => ~ HoldsClaim(w)
      /\ pc \in [Worker -> Events!WriteCalls \cup PropertyCalls \cup {"idle"}]
      /\ event \in [Worker -> Event \cup {NoEvent}]
  BY DEF IndexInv, TypeOK, Ambiguous
<1> SUFFICES /\ propertyStatus'[e] = "processing"
             /\ \A w \in Worker : event'[w] = e => ~ HoldsClaim(w)'
  BY DEF Ambiguous
<1> USE <1>0 DEF HoldsClaim, SetStatus, Goto, Leave, Events!Goto, Events!Return
<1>1. ASSUME NEW w \in Worker, WriteEvents(w)
      PROVE  /\ propertyStatus'[e] = "processing"
             /\ \A v \in Worker : event'[v] = e => ~ HoldsClaim(v)'
  BY <1>1, WritesAside DEF Aside, propertyVars, PropertyCalls
<1>2. ASSUME NEW w \in Worker, StartIndexing(w) \/ FinishBare(w) \/ FindProperty(w)
      PROVE  /\ propertyStatus'[e] = "processing"
             /\ \A v \in Worker : event'[v] = e => ~ HoldsClaim(v)'
  BY <1>2 DEF StartIndexing, FinishBare, FindProperty, Events!Acknowledge, propertyVars
<1>3. ASSUME NEW w \in Worker, ClaimProperty(w) \/ ReclaimFailedStatus(w)
      PROVE  /\ propertyStatus'[e] = "processing"
             /\ \A v \in Worker : event'[v] = e => ~ HoldsClaim(v)'
  BY <1>3 DEF ClaimProperty, ReclaimFailedStatus, MayRetake
<1>4. ASSUME NEW w \in Worker,
             \/ IndexProperties(w) \/ CommitProperty(w) \/ RollbackProperty(w)
             \/ UpsertCatalog(w)
      PROVE  /\ propertyStatus'[e] = "processing"
             /\ \A v \in Worker : event'[v] = e => ~ HoldsClaim(v)'
  BY <1>4 DEF IndexProperties, CommitProperty, RollbackProperty, UpsertCatalog
<1>5. ASSUME NEW w \in Worker, PropertyFails(w)
      PROVE  /\ propertyStatus'[e] = "processing"
             /\ \A v \in Worker : event'[v] = e => ~ HoldsClaim(v)'
  BY <1>5 DEF PropertyFails, PropertyStatusFails, IndexFails, CatalogFails, ReturnError,
     MayRetake
<1>6. CASE UNCHANGED vars
  BY <1>6 DEF vars, Events!eventVars, Events!workerVars, propertyVars
<1>7. QED
  BY <1>1, <1>2, <1>3, <1>4, <1>5, <1>6 DEF Next, WriteProperties

(* No retry takes a checkpoint that nobody holds and that says processing. *)
THEOREM AmbiguityIsFinal == Spec => AmbiguousForGood
<1>1. IndexInv /\ [Next]_vars => [\A e \in Event : Ambiguous(e) => Ambiguous(e)']_vars
  BY AmbiguousStays
<1>2. QED
  BY <1>1, IndexInductive, PTL DEF Spec, AmbiguousForGood
=============================================================================
