-------------------------- MODULE PropertyCatalog --------------------------
(***************************************************************************)
(* storage.FlattenEventProperties, storage.BuildPropertyCatalogEntries and *)
(* mysql.PropertyCatalog.  A property is a scope, a name, a value type and *)
(* a value; the catalog has one row per source, scope, name and type, with *)
(* the first and last time it was seen (Unseen: no row).                   *)
(***************************************************************************)
EXTENDS Integers, FiniteSets

CONSTANTS Message, Envelope

ScalarTypes == {"null", "string", "number", "bool"}

(* Nested values and numbers that are not finite make the writers fail     *)
(* before the event row.                                                   *)
Flattens(m) == \A p \in Envelope[m].properties : p.type \in ScalarTypes

(* FlattenEventProperties: the envelope's keys, copied to each property.   *)
Flatten(m) ==
  { [id |-> Envelope[m].id, source |-> Envelope[m].source,
     event_time |-> Envelope[m].event_time, received_at |-> Envelope[m].received_at,
     scope |-> p.scope, name |-> p.name, type |-> p.type, value |-> p.value] :
    p \in Envelope[m].properties }

(* Event time, or the time of arrival when the source left it out.         *)
ObservedAt(record) ==
  IF record.event_time # 0 THEN record.event_time ELSE record.received_at

Definition(record) ==
  [source |-> record.source, scope |-> record.scope, name |-> record.name,
   type |-> record.type]

Definitions == UNION { {Definition(r) : r \in Flatten(m)} : m \in Message }

Unseen == [first |-> 0, last |-> 0]

(* One batch's observations of a definition, condensed to one entry.       *)
Times(records, d) == {ObservedAt(r) : r \in {s \in records : Definition(s) = d}}

Entry(records, d) ==
  LET times == Times(records, d)
  IN  [first |-> CHOOSE t \in times : \A u \in times : t <= u,
       last  |-> CHOOSE t \in times : \A u \in times : t >= u]

(* Mutant of Merge: the latest upsert wins.                                *)
Overwrite(row, entry) == entry

(* INSERT ... ON DUPLICATE KEY UPDATE with LEAST and GREATEST.             *)
Merge(row, entry) ==
  IF row = Unseen THEN entry
  ELSE [first |-> IF entry.first < row.first THEN entry.first ELSE row.first,
        last  |-> IF entry.last > row.last THEN entry.last ELSE row.last]

(* BuildPropertyCatalogEntries and one statement for all its entries.      *)
Upsert(table, records) ==
  LET built == {Definition(r) : r \in records}
  IN  [d \in DOMAIN table |->
         IF d \in built THEN Merge(table[d], Entry(records, d)) ELSE table[d]]

(* ListPropertyCatalogEntries of one source, without scope or limit.       *)
ListEntries(table, source) ==
  {d \in DOMAIN table : table[d] # Unseen /\ d.source = source}
=============================================================================
