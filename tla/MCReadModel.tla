---------------------------- MODULE MCReadModel ----------------------------
(***************************************************************************)
(* ReadModel for two sources whose tables fall together.  m1 and m2 are    *)
(* publications of one event, m2 without properties; m3 ties with m2 in    *)
(* both times; m4 is an event of the other source under m1's id.           *)
(***************************************************************************)
EXTENDS ReadModel

CONSTANTS m1, m2, m3, m4

Property(scope, name, type, value) ==
  [scope |-> scope, name |-> name, type |-> type, value |-> value]

Plan(value) == Property("event", "plan", "string", value)

Published(source, id, time, received, name, visitor, properties) ==
  [source |-> source, id |-> id, event_time |-> time, received_at |-> received,
   event_name |-> name, distinct_id |-> visitor, session_id |-> visitor,
   visit_id |-> visitor, source_type |-> 1, properties |-> properties]

Envelopes ==
  m1 :> Published(1, 1, 2, 3, 1, 1, {Plan(1)})
  @@ m2 :> Published(1, 1, 4, 5, 1, 1, {})
  @@ m3 :> Published(1, 2, 4, 5, 2, 2, {Plan(2), Property("user", "coupon", "null", 0)})
  @@ m4 :> Published(2, 1, 3, 4, 1, 1, {Plan(1)})

(* Of m1, a second row as a duplicate window leaves it.                    *)
Copies == m1 :> 2 @@ m2 :> 1 @@ m3 :> 1 @@ m4 :> 1

OneTable == 1 :> 1 @@ 2 :> 1

Everything ==
  [source |-> 1, from |-> None, to |-> None, event_name |-> None,
   distinct_id |-> None, limit |-> None, offset |-> 0, sort |-> "",
   direction |-> "", filters |-> <<>>, properties |-> <<>>, allowed |-> {}]

PlanFilter(op, value) ==
  [scope |-> "event", name |-> "plan", type |-> "string", op |-> op, value |-> value]

(* Its window is the widest allowed.                                       *)
PlanNot(value) ==
  [Everything EXCEPT !.from = 2, !.to = 5, !.properties = <<PlanFilter("neq", value)>>,
                     !.sort = "received_at", !.direction = "asc", !.limit = 1,
                     !.distinct_id = 1]

ByName ==
  [Everything EXCEPT !.sort = "event_name", !.direction = "asc", !.limit = 5,
        !.filters = <<[field |-> "visit_id", op |-> "eq", value |-> 1]>>]

QuerySet ==
  { Everything, ByName, PlanNot(2),
    [Everything EXCEPT !.offset = -1],
    [Everything EXCEPT !.sort = "properties"],
    [PlanNot(2) EXCEPT !.to = 6] }

Recent == {[source |-> 1, since |-> 2, limit |-> 0]}

PlanAllowed == {[scope |-> "event", name |-> "plan"]}
=============================================================================
