----------------------------- MODULE Visibility -----------------------------
(***************************************************************************)
(* What ingestion makes visible to readers, and in which order: the event  *)
(* row, then the property rows of its key, then the catalog entries, then  *)
(* the acknowledgement.  Any part may be written again.  Messages carry    *)
(* envelopes; those with one key (tenant, project, source, event id) are   *)
(* publications of one event.  IndexingWriter implements this promise, and *)
(* ReadModel reads what it shows.                                          *)
(***************************************************************************)
EXTENDS Naturals

CONSTANTS Message,  \* envelopes that were published
          KeyOf,    \* the idempotency key of each
          Bare      \* those without properties

VARIABLES
  rows,          \* event rows of each message in ClickHouse
  propertyRows,  \* batches of its property rows
  catalog,       \* messages whose entries were upserted
  acked          \* messages whose delivery was acknowledged

visibleVars == <<rows, propertyRows, catalog, acked>>

Init ==
  /\ rows = [m \in Message |-> 0]
  /\ propertyRows = [m \in Message |-> 0]
  /\ catalog = {} /\ acked = {}

Stored(m)  == \E n \in Message : KeyOf[n] = KeyOf[m] /\ rows[n] >= 1
Indexed(m) == \E n \in Message : KeyOf[n] = KeyOf[m] /\ propertyRows[n] >= 1

StoreEvent(m) ==
  /\ rows' = [rows EXCEPT ![m] = @ + 1]
  /\ UNCHANGED <<propertyRows, catalog, acked>>

(* The event row may be another publication's: then this one's properties  *)
(* are indexed under it all the same.                                      *)
StoreProperties(m) ==
  /\ m \notin Bare /\ Stored(m)
  /\ propertyRows' = [propertyRows EXCEPT ![m] = @ + 1]
  /\ UNCHANGED <<rows, catalog, acked>>

(* The upsert takes effect, and the delivery is acknowledged unless its    *)
(* answer is lost.                                                         *)
UpsertEntries(m) ==
  /\ m \notin Bare /\ Stored(m) /\ Indexed(m)
  /\ catalog' = catalog \cup {m}
  /\ acked' \in {acked, acked \cup {m}}
  /\ UNCHANGED <<rows, propertyRows>>

AcknowledgeBare(m) ==
  /\ m \in Bare /\ Stored(m)
  /\ acked' = acked \cup {m}
  /\ UNCHANGED <<rows, propertyRows, catalog>>

Next ==
  \E m \in Message :
    StoreEvent(m) \/ StoreProperties(m) \/ UpsertEntries(m) \/ AcknowledgeBare(m)

Spec == Init /\ [][Next]_visibleVars
=============================================================================
