----------------------------- MODULE ReadModel -----------------------------
(***************************************************************************)
(* The read side beside ingestion: a reader counts and pages through the   *)
(* events of a source with clickhouse.EventReader while Visibility's steps *)
(* add event rows, property rows and catalog entries, and tables appear.   *)
(***************************************************************************)
EXTENDS EventQuery, FiniteSets

CONSTANTS Queries,     \* Events queries a reader may begin
          Realtime,    \* arguments of Realtime queries: source, since, limit
          MaxCopies    \* bound: rows of each message

(* A publisher's events are timed, and TableRouter.RouteKey refuses those  *)
(* without a source.  A reader asks from the first page on.                *)
ASSUME ReadAssumption ==
  /\ IsFiniteSet(Message)
  /\ \A m \in Message :
       /\ Envelope[m].event_time \in Nat \ {0}
       /\ {Envelope[m].received_at, Envelope[m].event_name} \subseteq Nat
       /\ Source(m) \in DOMAIN Table \ {None}
  /\ MaxCopies \in [Message -> Nat]
  /\ Queries \subseteq EventListQuery
  /\ \A q \in Queries : q.offset <= 0
  /\ Realtime \subseteq [source : Nat, since : Nat, limit : Int]

Bare == {m \in Message : Envelope[m].properties = {}}

VARIABLES
  rows, propertyRows, catalog, acked,   \* as in Visibility
  created,       \* physical tables that exist, with their kind
  definitions,   \* property_catalog in MySQL
  reader         \* the reader's progress

Writes  == INSTANCE Visibility
Catalog == INSTANCE PropertyCatalog

writeVars == <<rows, propertyRows, catalog, acked>>
vars == <<writeVars, created, definitions, reader>>

Idle == [phase |-> "idle"]

Init ==
  /\ Writes!Init
  /\ created = {}
  /\ definitions = [d \in Catalog!Definitions |-> Catalog!Unseen]
  /\ reader = Idle

-----------------------------------------------------------------------------
(* Ingestion, in the order Visibility allows.                              *)

EventTable(source)    == <<Table[source], "events">>
PropertyTable(source) == <<Table[source], "properties">>

(* The runtime executes the CREATE TABLE statements of schema.go.          *)
CreateTable(source) ==
  /\ \E t \in {EventTable(source), PropertyTable(source)} : created' = created \cup {t}
  /\ UNCHANGED <<writeVars, definitions, reader>>

StoreEvent(m) ==
  /\ Catalog!Flattens(m)
  /\ EventTable(Source(m)) \in created
  /\ rows[m] < MaxCopies[m]
  /\ Writes!StoreEvent(m)
  /\ UNCHANGED <<created, definitions, reader>>

StoreProperties(m) ==
  /\ Catalog!Flattens(m)
  /\ PropertyTable(Source(m)) \in created
  /\ propertyRows[m] = 0
  /\ Writes!StoreProperties(m)
  /\ UNCHANGED <<created, definitions, reader>>

UpsertEntries(m) ==
  /\ Catalog!Flattens(m)
  /\ Writes!UpsertEntries(m)
  /\ definitions' = Catalog!Upsert(definitions, Catalog!Flatten(m))
  /\ UNCHANGED <<created, reader>>

AcknowledgeBare(m) ==
  /\ Writes!AcknowledgeBare(m)
  /\ UNCHANGED <<created, definitions, reader>>

-----------------------------------------------------------------------------
(* What a plan selects now.  A table that does not exist is an empty one.  *)

Missing(q) ==
  \/ EventTable(q.source) \notin created
  \/ q.properties # <<>> /\ PropertyTable(q.source) \notin created

Shares(m, source) == Table[Source(m)] = Table[source]

PropertyContent(source) ==
  UNION { Catalog!Flatten(n) :
            n \in {m \in Message : propertyRows[m] >= 1 /\ Shares(m, source)} }

Selected(q) ==
  LET P == PropertyContent(q.source)
  IN  IF Missing(q) THEN {}
      ELSE UNION { {m} \X (1 .. rows[m]) :
                     m \in {n \in Message : Shares(n, q.source) /\ Matches(q, n, P)} }

Count(q) == Cardinality(Selected(CountScope(q)))

(* Every publication of m's key would be selected by its own content.      *)
SelectsAll(q, m) ==
  \A n \in Message :
    KeyOf[n] = KeyOf[m] => Matches(q, n, Catalog!Flatten(n))

(* What the reader's caller may hold the listing against: the count, the   *)
(* rows there were, and the acknowledged events that it asks for.          *)
Began(q, phase) ==
  [phase |-> phase, query |-> q, listed |-> <<>>, count |-> Count(q),
   before |-> Selected(q), acked |-> {m \in acked : SelectsAll(q, m)}]

-----------------------------------------------------------------------------
(* The reader: CountEvents, then ListEvents page by page, each offset the  *)
(* one before plus the evidence's limit, until a page is not full.         *)

CountEvents(q) ==
  /\ reader = Idle
  /\ reader' = IF ValidScope(CountScope(q)) THEN Began(q, "listing")
               ELSE [phase |-> "rejected"]
  /\ UNCHANGED <<writeVars, created, definitions>>

NextPage(page) ==
  LET limit == Evidence(reader.query).effectiveLimit
  IN  reader' = [reader EXCEPT
                   !.phase = IF Len(page) < limit THEN "listed" ELSE "listing",
                   !.listed = @ \o page,
                   !.query.offset = @ + limit]

ListEvents ==
  /\ reader.phase = "listing"
  /\ IF ValidQuery(reader.query)
     THEN \E page \in Pages(reader.query, Selected(reader.query)) : NextPage(page)
     ELSE reader' = [phase |-> "rejected"]
  /\ UNCHANGED <<writeVars, created, definitions>>

ListRealtime(source, since, limit) ==
  LET q == RealtimeScope(source, since, limit)
  IN  /\ reader = Idle
      /\ ValidQuery(q)
      /\ \E page \in Pages(q, Selected(q)) :
           reader' = [Began(q, "realtime") EXCEPT !.listed = page]
      /\ UNCHANGED <<writeVars, created, definitions>>

(* Mutant of ReadError: any error reads as an empty table.                 *)
ErrorAsEmpty == reader' = [reader EXCEPT !.phase = "listed"]

(* Only a missing table is swallowed: other errors end the listing.        *)
ReadError == reader' = [phase |-> "failed"]

ReadFails ==
  /\ reader.phase = "listing" /\ ReadError
  /\ UNCHANGED <<writeVars, created, definitions>>

Ingest(m) ==
  StoreEvent(m) \/ StoreProperties(m) \/ UpsertEntries(m) \/ AcknowledgeBare(m)

Read ==
  \/ \E q \in Queries : CountEvents(q)
  \/ ListEvents \/ ReadFails
  \/ \E r \in Realtime : ListRealtime(r.source, r.since, r.limit)

(* Bound: a behaviour ends when its reader has finished.                   *)
Reading == reader.phase \in {"idle", "listing"}

Next ==
  \/ Reading /\ \E m \in Message : Ingest(m)
  \/ Reading /\ \E source \in DOMAIN Table : CreateTable(source)
  \/ Read

Spec == Init /\ [][Next]_vars

-----------------------------------------------------------------------------
Listed == reader.phase = "listed"

Times(m) == Cardinality({i \in DOMAIN reader.listed : reader.listed[i] = m})

CopiesBefore(m) == Cardinality({r \in reader.before : r[1] = m})

(* Every row there was when the listing began is shown.                    *)
NothingSkipped == \A m \in Message : Times(m) >= CopiesBefore(m)

(* No two messages that the query may select share both of their times.    *)
TimesDiffer(q) ==
  LET candidates == {m \in Message : MatchesColumns(q, m)}
  IN  \A m, n \in candidates :
        m # n => \/ Envelope[m].event_time # Envelope[n].event_time
                 \/ Envelope[m].received_at # Envelope[n].received_at

(* The comment in applyEventsOrder: the tie-breakers keep Events           *)
(* pagination stable.  They do when every sort field's order is total:     *)
(* rows that arrive between two pages, at any place, only shift the others *)
(* to later pages, and no row of the beginning is skipped, whatever limit  *)
(* was asked for.  Rows that tie may be skipped even while nothing arrives.*)
NoRowSkipped == Listed /\ TimesDiffer(reader.query) => NothingSkipped

(* Ties or not, a listing has as many rows as its last page counted, so    *)
(* between the count before it and any count after it: ListEvents and      *)
(* CountEvents ask with one predicate (eventCountQueryAsListQuery).        *)
CountsBracketListing ==
  Listed => /\ reader.count <= Len(reader.listed)
            /\ Len(reader.listed) <= Count(reader.query)

(* A publication of m's key satisfies the filter with a property row.      *)
OwnProperty(m, f) ==
  \E n \in Message :
    /\ KeyOf[n] = KeyOf[m] /\ propertyRows[n] >= 1
    /\ HasProperty(n, f, Catalog!Flatten(n))

(* Sources whose hashed names fall together share tables, and event ids    *)
(* may coincide: still every row listed is its source's, selected by a     *)
(* property of its own event.                                              *)
SourcesApart ==
  reader.phase \in {"listing", "listed", "realtime"} =>
    \A m \in ToSet(reader.listed) :
      /\ Source(m) = reader.query.source
      /\ \A f \in ToSet(reader.query.properties) : OwnProperty(m, f)

(* An event acknowledged before a listing began is listed, with property   *)
(* filters too: acknowledgement comes after the property rows, a missing   *)
(* table reads as empty only while nothing can be in it, and an error is   *)
(* never an empty page.                                                    *)
AcknowledgedIsListed ==
  Listed /\ TimesDiffer(reader.query) =>
    \A m \in reader.acked : \E n \in ToSet(reader.listed) : KeyOf[n] = KeyOf[m]

(* Observations of a definition that reached the catalog.                  *)
Observers(d) == {m \in catalog : \E r \in Catalog!Flatten(m) : Catalog!Definition(r) = d}

(* However often and in whatever order messages are delivered, a catalog   *)
(* row spans exactly the times its observers carry (LEAST, GREATEST).      *)
CatalogExact ==
  \A d \in DOMAIN definitions :
    LET seen == {Envelope[m].event_time : m \in Observers(d)}
    IN  IF seen = {} THEN definitions[d] = Catalog!Unseen
        ELSE /\ {definitions[d].first, definitions[d].last} \subseteq seen
             /\ \A t \in seen : definitions[d].first <= t /\ t <= definitions[d].last

(* A filter made from a catalog entry: the selector, a value, and the      *)
(* widest window that begins or ends at the time the entry gives.          *)
Suggested(d, value, from) ==
  [source |-> d.source, from |-> from, to |-> from + MaxPropertyFilterWindow,
   event_name |-> None, distinct_id |-> None, limit |-> None, offset |-> 0,
   sort |-> "", direction |-> "", filters |-> <<>>,
   properties |-> <<[scope |-> d.scope, name |-> d.name, type |-> d.type,
                     op |-> "eq", value |-> value]>>,
   allowed |-> {[scope |-> d.scope, name |-> d.name]}]

PublishedOnce(m) == \A n \in Message : KeyOf[n] = KeyOf[m] => n = m

(* What the catalog suggests can be asked, and finds the event whose time  *)
(* the entry gives: entries come after property rows and event row, and    *)
(* the windows meet.  Unless the event id was published twice: then the    *)
(* row may be one publication's and the catalog entry another's.           *)
SuggestionsFindRows ==
  \A source \in DOMAIN Table : \A d \in Catalog!ListEntries(definitions, source) :
    \A from \in {definitions[d].first, definitions[d].last} :
      \A m \in Observers(d) :
        PublishedOnce(m) /\ Envelope[m].event_time = from =>
          \E p \in Envelope[m].properties :
            LET q == [Suggested(d, p.value, from) EXCEPT !.source = source]
            IN  ValidQuery(q) /\ \E r \in Selected(q) : r[1] = m
=============================================================================
