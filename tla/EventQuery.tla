----------------------------- MODULE EventQuery -----------------------------
(***************************************************************************)
(* clickhouse.EventQueryBuilder: what a query may ask, which rows its plan *)
(* selects, their order, the page, and the evidence it reports.  Times and *)
(* column values are positive numbers; None stands for a zero time, an     *)
(* empty string, and an absent limit.  Names and selectors are those that  *)
(* normalisation leaves.                                                   *)
(***************************************************************************)
EXTENDS Integers, Sequences, SequencesExt

CONSTANTS Message,              \* published envelopes
          Envelope,             \* the columns and properties of each
          Table,                \* physical table of each source (hashed)
          AllowedProperties,    \* selectors the builder allows to everyone
          DefaultEventsLimit, DefaultRealtimeLimit,
          MaxQueryLimit, MaxFilters, MaxPropertyFilterWindow

ASSUME PolicyAssumption ==
  /\ {MaxQueryLimit, MaxFilters, MaxPropertyFilterWindow} \subseteq Nat \ {0}
  /\ {DefaultEventsLimit, DefaultRealtimeLimit} \subseteq Nat \ {0}

None == 0

SortFields   == {"event_time", "received_at", "event_name"}
FilterFields == {"event_name", "distinct_id", "session_id", "visit_id", "source_type"}
Operators    == {"eq", "neq"}
ValueTypes   == {"string", "number", "bool", "null"}

Source(m) == Envelope[m].source
KeyOf == [m \in Message |-> <<Envelope[m].source, Envelope[m].id>>]

EventFilter == [field : STRING, op : STRING, value : Nat]
EventPropertyFilter ==
  [scope : STRING, name : STRING, type : STRING, op : STRING, value : Nat]
EventListQuery ==
  [source : Nat, from : Nat, to : Nat, event_name : Nat, distinct_id : Nat,
   limit : Int, offset : Int, sort : {""} \cup STRING, direction : {""} \cup STRING,
   filters : Seq(EventFilter), properties : Seq(EventPropertyFilter),
   allowed : SUBSET [scope : STRING, name : STRING]]

-----------------------------------------------------------------------------
(* Which queries are built.                                                *)

Selector(f) == [scope |-> f.scope, name |-> f.name]

(* Mutant of WindowAllowed: the widest window is refused.                  *)
WindowBelowMax(q) ==
  q.from # None /\ q.to # None /\ q.to - q.from < MaxPropertyFilterWindow

WindowAllowed(q) ==
  q.from # None /\ q.to # None /\ q.to - q.from <= MaxPropertyFilterWindow

ValidFilter(f) == f.field \in FilterFields /\ f.op \in Operators /\ f.value # None

ValidPropertyFilter(q, f) ==
  /\ Selector(f) \in AllowedProperties \cup q.allowed
  /\ f.op \in Operators /\ f.type \in ValueTypes
  /\ f.type = "null" => f.op = "eq"

ValidScope(q) ==
  /\ q.offset >= 0
  /\ q.from # None /\ q.to # None => q.from < q.to
  /\ Len(q.filters) + Len(q.properties) <= MaxFilters
  /\ q.properties # <<>> => WindowAllowed(q)
  /\ q.source # None
  /\ \A f \in ToSet(q.filters) : ValidFilter(f)
  /\ \A f \in ToSet(q.properties) : ValidPropertyFilter(q, f)

Sort(q)      == IF q.sort = "" THEN "event_time" ELSE q.sort
Direction(q) == IF q.direction = "" THEN "desc" ELSE q.direction

ValidQuery(q) ==
  /\ ValidScope(q)
  /\ Sort(q) \in SortFields
  /\ Direction(q) \in {"asc", "desc"}

-----------------------------------------------------------------------------
(* Which rows it selects.  P is the content of the property table.         *)

Compare(op, a, b) == IF op = "eq" THEN a = b ELSE a # b

(* Mutant of SameEvent: the event id alone joins the two tables.           *)
SameEventId(m, p) == p.id = Envelope[m].id

SameEvent(m, p) == p.id = Envelope[m].id /\ p.source = Source(m)

(* One row of the property table with the filter's scope, name and type    *)
(* has a value that compares as asked: "neq" too needs such a row.         *)
HasProperty(m, f, P) ==
  \E p \in P :
    /\ SameEvent(m, p)
    /\ p.scope = f.scope /\ p.name = f.name /\ p.type = f.type
    /\ f.type = "null" \/ Compare(f.op, p.value, f.value)

MatchesColumns(q, m) ==
  LET row == Envelope[m]
  IN  /\ row.source = q.source
      /\ q.from # None => row.event_time >= q.from
      /\ q.to # None => row.event_time < q.to
      /\ q.event_name # None => row.event_name = q.event_name
      /\ q.distinct_id # None => row.distinct_id = q.distinct_id
      /\ \A f \in ToSet(q.filters) : Compare(f.op, row[f.field], f.value)

MatchesProperties(q, m, P) == \A f \in ToSet(q.properties) : HasProperty(m, f, P)

Matches(q, m, P) == MatchesColumns(q, m) /\ MatchesProperties(q, m, P)

-----------------------------------------------------------------------------
(* Order and page.                                                         *)

(* Mutant of TieBreakers: none.                                            *)
NoTieBreakers(column) == <<>>

TieBreakers(column) ==
  (IF column # "event_time" THEN <<<<"event_time", "desc">>>> ELSE <<>>)
  \o (IF column # "received_at" THEN <<<<"received_at", "desc">>>> ELSE <<>>)

OrderBy(q) == <<<<Sort(q), Direction(q)>>>> \o TieBreakers(Sort(q))

(* ORDER BY puts row m before row n; rows that tie come in any order.      *)
Precedes(q, m, n) ==
  LET order == OrderBy(q)
      a(i) == Envelope[m][order[i][1]]
      b(i) == Envelope[n][order[i][1]]
  IN  \E i \in DOMAIN order :
        /\ IF order[i][2] = "asc" THEN a(i) < b(i) ELSE a(i) > b(i)
        /\ \A j \in 1 .. i - 1 : a(j) = b(j)

NormalizeLimit(limit, fallback) ==
  LET asked == IF limit <= 0 THEN fallback ELSE limit
  IN  IF asked > MaxQueryLimit THEN MaxQueryLimit ELSE asked

PageLimit(q) == NormalizeLimit(q.limit, DefaultEventsLimit)

(* The pages ClickHouse may answer with: its rows are pairs of a message   *)
(* and a copy, and the reader sees the message.                            *)
Pages(q, selected) ==
  LET Sorted(s) == \A i, j \in DOMAIN s : i < j => ~ Precedes(q, s[j][1], s[i][1])
      last == Min({q.offset + PageLimit(q), Cardinality(selected)})
  IN  { [i \in 1 .. last - q.offset |-> s[q.offset + i][1]] :
          s \in { t \in SetToSeqs(selected) : Sorted(t) } }

(* Mutant of EffectiveLimit: the evidence repeats what was asked for.      *)
AskedLimit(q) == IF q.limit <= 0 THEN DefaultEventsLimit ELSE q.limit

EffectiveLimit(q) == PageLimit(q)

Evidence(q) ==
  [effectiveLimit |-> EffectiveLimit(q), offset |-> q.offset,
   usesPropertyTable |-> q.properties # <<>>]

-----------------------------------------------------------------------------
(* The other two families.                                                 *)

(* Mutant of CountScope: the property filters are left behind.             *)
CountScopeBare(q) == [q EXCEPT !.limit = None, !.offset = 0, !.sort = "",
                               !.direction = "", !.properties = <<>>]

(* eventCountQueryAsListQuery: every predicate, no order, no page.         *)
CountScope(q) ==
  [q EXCEPT !.limit = None, !.offset = 0, !.sort = "", !.direction = ""]

RealtimeScope(source, since, limit) ==
  [source |-> source, from |-> since, to |-> None,
   event_name |-> None, distinct_id |-> None,
   limit |-> NormalizeLimit(limit, DefaultRealtimeLimit), offset |-> 0,
   sort |-> "", direction |-> "", filters |-> <<>>, properties |-> <<>>,
   allowed |-> {}]
=============================================================================
