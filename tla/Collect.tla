------------------------------ MODULE Collect ------------------------------
(***************************************************************************)
(* collect/handler.go and collect/httpapi/fiber.go on the direct bus: a    *)
(* client posts an event, and posts it again when it is not accepted or    *)
(* got no answer in time; each request normalizes the body, runs the       *)
(* stages, publishes the envelope and answers.  A Publisher is a request   *)
(* in progress.                                                            *)
(***************************************************************************)
EXTENDS CollectStages, DirectBus

CONSTANTS
  Body, Client,   \* see CollectStages; bodies differ in their id
  StageOrders,    \* the stage lists a handler may be built with
  MaxRequests,    \* bound: requests in all
  MaxTime         \* bound: the clock

ASSUME BodyAssumption ==
  /\ StageOrders \subseteq Seq({"session", "visit", "enrich", "filter"})
  /\ \A body \in Body : IsFiniteSet(DOMAIN body.props)
  /\ \A a, b \in Body : a.id = b.id => a = b

VARIABLES
  stages,       \* Handler.stages
  now,          \* the clock
  requests,     \* how many were received
  response,     \* what each request answered, or where it stands
  envelope,     \* the envelope it publishes
  \* history:
  published,    \* <<envelope, client>> of every Publish
  handled       \* the events each subscriber's handler returned nil for

collectVars == <<stages, now, requests, response, envelope, published, handled>>
vars == <<directVars, collectVars>>

NoEnvelope == [id |-> ""]

Init ==
  /\ DirectInit
  /\ stages \in StageOrders
  /\ now = 1 /\ requests = 0
  /\ response = [p \in Publisher |-> "none"]
  /\ envelope = [p \in Publisher |-> NoEnvelope]
  /\ published = {} /\ handled = [s \in Subscriber |-> {}]

Tick == /\ now < MaxTime /\ now' = now + 1
        /\ UNCHANGED <<directVars, stages, requests, response, envelope, published, handled>>

-----------------------------------------------------------------------------
Answer(p, status) == response' = [response EXCEPT ![p] = status]

(* A request arrives while p is free: NewCollectHandler decodes it and     *)
(* calls Handle, which ends with an error or goes on to Publish.           *)
Receive(p, body, client) ==
  /\ response[p] \notin {"staged", "publishing"} /\ requests < MaxRequests
  /\ requests' = requests + 1
  /\ \/ /\ ~ Valid(body, now)
        /\ Answer(p, "bad request")
        /\ UNCHANGED envelope
     \/ /\ Valid(body, now) /\ Rejects(stages, client)
        /\ Answer(p, "filtered")
        /\ UNCHANGED envelope
     \/ /\ Valid(body, now) /\ ~ Rejects(stages, client)
        /\ Answer(p, "staged")
        /\ envelope' = [envelope EXCEPT ![p] =
                          [of |-> Staged(stages, Normalize(body, now), client),
                           from |-> client]]
  /\ UNCHANGED <<directVars, stages, now, published, handled>>

PublishEnvelope(p) ==
  /\ response[p] = "staged"
  /\ Publish(p)
  /\ Answer(p, "publishing")
  /\ published' = published \cup {envelope[p]}
  /\ UNCHANGED <<stages, now, requests, envelope, handled>>

(* Publish goes on; a handler that returns nil has handled the event.      *)
Deliver(p) ==
  /\ NumberDelivery(p) \/ CallHandler(p)
  /\ UNCHANGED collectVars

HandleEnvelope(p) ==
  /\ HandlerReturns(p)
  /\ handled' = IF pc'[p] = "failed" THEN handled
                ELSE [handled EXCEPT ![Last(called[p])] = @ \cup {envelope[p].of.id}]
  /\ UNCHANGED <<stages, now, requests, response, envelope, published>>

Respond(p) ==
  /\ response[p] = "publishing" /\ pc[p] \in {"published", "failed"}
  /\ Answer(p, IF pc[p] = "published" THEN "accepted" ELSE "server error")
  /\ UNCHANGED <<directVars, stages, now, requests, envelope, published, handled>>

Serve(p) ==
  \/ PublishEnvelope(p) \/ Deliver(p) \/ HandleEnvelope(p) \/ Respond(p)
  \/ PublishReturns(p) /\ UNCHANGED collectVars

Next ==
  \/ Tick
  \/ Subscribers /\ UNCHANGED collectVars
  \/ \E p \in Publisher :
       Serve(p) \/ \E body \in Body, client \in Client : Receive(p, body, client)

Spec == Init /\ [][Next]_vars

-----------------------------------------------------------------------------
(* An accepted event has been handled by every subscriber that was there   *)
(* when its publishing began, whoever came or left meanwhile and whichever *)
(* other requests were served (handler.go:81-84, fiber.go:90-93).          *)
AcceptedHandled ==
  \A p \in Publisher : response[p] = "accepted" =>
    \A s \in owed[p] : envelope[p].of.id \in handled[s]

(* The body an envelope was made from.                                     *)
BodyOf(e) == CHOOSE body \in Body : body.id = e.id
SameClient(x, y) == x.from.agent = y.from.agent /\ x.from.ip = y.from.ip

(* A retry of an event that carries its time gets the same session and     *)
(* visit whenever it arrives (session.go:51-52, 115-116); with the client  *)
(* fingerprint, also the same client is needed.                            *)
TimedEventsKeepIdentity ==
  \A x, y \in published :
    /\ x.of.id = y.of.id /\ BodyOf(x.of).time # NoTime
    /\ IncludeClientFingerprint => SameClient(x, y)
    => x.of.session = y.of.session /\ x.of.visit = y.of.visit

Derived(identity) == identity.given = ""

(* Some stage is b, and an a comes before every b.                         *)
Before(a, b) ==
  /\ b \in Range(stages)
  /\ \E i \in DOMAIN stages : stages[i] = a /\ \A j \in 1 .. i : stages[j] # b

(* When sessions are resolved before visits, a derived visit lies inside   *)
(* one session, however the two windows overlap (session.go:115-125).      *)
VisitInsideSession ==
  Before("session", "visit") =>
    \A x, y \in published :
      Derived(x.of.visit) /\ x.of.visit = y.of.visit => x.of.session = y.of.session

(* Enrichment keeps the client's own properties and never grows the bag    *)
(* beyond the limit that validation imposed (enrichment.go:63-65, 137).    *)
ClientPropertiesKept ==
  \A x \in published :
    LET props == BodyOf(x.of).props
    IN  /\ Cardinality(DOMAIN x.of.props) <= MaxPropertyCount
        /\ \A k \in DOMAIN props : x.of.props[k] = props[k]

=============================================================================
