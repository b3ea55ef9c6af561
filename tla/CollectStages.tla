--------------------------- MODULE CollectStages ---------------------------
(***************************************************************************)
(* collect/request.go, session.go, enrichment.go, traffic_filter.go and    *)
(* client.go: how a request becomes an event envelope.  Everything here is *)
(* a function of the request, the time it was received and the options.    *)
(*                                                                         *)
(* A body is what the client sends again when it retries:                  *)
(*   id, visitor (distinct ID), session and visit ("" when absent), time   *)
(*   (NoTime when absent), props (property keys to values), wellFormed     *)
(* A client is what the transport saw of one request:                      *)
(*   agent (the substrings of its user agent, {} when it sent none), ip,   *)
(*   referrer                                                              *)
(***************************************************************************)
EXTENDS Integers, Sequences, FiniteSets, SequencesExt

CONSTANTS
  MaxClockSkew, MaxPropertyCount,
  SessionWindow, VisitWindow,
  IncludeClientFingerprint,  \* SessionResolverConfig
  Included,                  \* the generated properties the options ask for
  Location,                  \* GeoResolver: address to country, region, city
  InternalIPs,               \* the addresses of InternalIPs and InternalCIDRs
  NoTime, NoIP

ASSUME CollectAssumption ==
  /\ {MaxClockSkew, MaxPropertyCount} \subseteq Nat
  /\ {SessionWindow, VisitWindow} \subseteq Nat \ {0}
  /\ IncludeClientFingerprint \in BOOLEAN
  /\ NoTime \notin Nat

-----------------------------------------------------------------------------
(* Normalize                                                               *)

EventTime(body, now) == IF body.time = NoTime THEN now ELSE body.time

(* The validators; body.wellFormed stands for the character, length and    *)
(* type rules of identifiers, names, property keys and values.             *)
WellFormed(body) ==
  body.wellFormed /\ Cardinality(DOMAIN body.props) <= MaxPropertyCount

Valid(body, now) ==
  WellFormed(body) /\ EventTime(body, now) <= now + MaxClockSkew

(* An identity: given by the client, or a salted digest of what it stands  *)
(* for.  A digest is its material: different materials, different digests. *)
Given(id) == [given |-> id, digestOf |-> <<>>]
Digest(material) == [given |-> "", digestOf |-> material]
NoIdentity == Given("")

Normalize(body, now) ==
  [id |-> body.id, visitor |-> body.visitor,
   session |-> Given(body.session), visit |-> Given(body.visit),
   time |-> EventTime(body, now), receivedAt |-> now, props |-> body.props]

-----------------------------------------------------------------------------
(* The session and visit resolvers                                         *)

(* Truncate(Window)                                                        *)
Bucket(time, window) == time - (time % window)

(* Mutant of SessionMaterial: the bucket is taken from the wall clock.     *)
SessionOfArrival(e, client) ==
  <<e.visitor, Bucket(e.receivedAt, SessionWindow)>>
    \o IF IncludeClientFingerprint THEN <<client.agent, client.ip>> ELSE <<>>

SessionMaterial(e, client) ==
  <<e.visitor, Bucket(e.time, SessionWindow)>>
    \o IF IncludeClientFingerprint THEN <<client.agent, client.ip>> ELSE <<>>

ResolveSession(e, client) ==
  IF e.session # NoIdentity THEN e
  ELSE [e EXCEPT !.session = Digest(SessionMaterial(e, client))]

(* Mutant of VisitMaterial: the session is left out.                       *)
VisitOfVisitor(e) == <<e.visitor, NoIdentity, Bucket(e.time, VisitWindow)>>

VisitMaterial(e) == <<e.visitor, e.session, Bucket(e.time, VisitWindow)>>

ResolveVisit(e) ==
  IF e.visit # NoIdentity THEN e ELSE [e EXCEPT !.visit = Digest(VisitMaterial(e))]

-----------------------------------------------------------------------------
(* Client enrichment                                                       *)

(* The first family that has one of its tokens in the user agent.          *)
FirstFamily(rules, agent) ==
  LET Matching == SelectSeq(rules, LAMBDA r : r.tokens \cap agent # {})
  IN  IF Matching = <<>> THEN "" ELSE Head(Matching).family
Rule(family, tokens) == [family |-> family, tokens |-> tokens]

BrowserFamily(agent) == FirstFamily(
  <<Rule("Edge",    {"edgios", "edga/", "edg/", "edge/"}),
    Rule("Opera",   {"opios", "opr/", "opera"}),
    Rule("Firefox", {"fxios", "firefox/"}),
    Rule("Chrome",  {"crios", "chrome/", "chromium/"}),
    Rule("Safari",  {"safari/"})>>, agent)
OSFamily(agent) == FirstFamily(
  <<Rule("iOS",      {"iphone", "ipad"}),
    Rule("Android",  {"android"}),
    Rule("Windows",  {"windows nt"}),
    Rule("macOS",    {"mac os x", "macintosh"}),
    Rule("ChromeOS", {"cros"}),
    Rule("Linux",    {"linux"})>>, agent)
DeviceFamily(agent) == FirstFamily(
  <<Rule("tablet",  {"ipad", "tablet"}),
    Rule("mobile",  {"mobi", "iphone", "android"}),
    Rule("desktop", {"mozilla/"})>>, agent)

Property(key, value) == [key |-> key, value |-> value]

(* The generated properties in the order Apply puts them, "" for a value   *)
(* the request does not yield; raw values are never stored but digested.   *)
FromAgent(agent) ==
  <<Property("client.browser", BrowserFamily(agent)),
    Property("client.os", OSFamily(agent)),
    Property("client.device", DeviceFamily(agent))>>
FromIP(ip) ==
  <<Property("geo.country", Location[ip].country),
    Property("geo.region", Location[ip].region),
    Property("geo.city", Location[ip].city)>>
Generated(client) ==
  <<Property("client.user_agent", IF client.agent = {} THEN "" ELSE "agent"),
    Property("client.referrer", client.referrer),
    Property("client.ip_hash", IF client.ip = NoIP THEN "" ELSE "hash")>>
    \o FromAgent(client.agent) \o FromIP(client.ip)

(* Mutant of PutGenerated: a generated value replaces the client's.        *)
PutOver(props, p) ==
  IF p.value = "" \/ p.key \notin Included
     \/ Cardinality(DOMAIN props) >= MaxPropertyCount
  THEN props
  ELSE [k \in DOMAIN props \cup {p.key} |-> IF k = p.key THEN p.value ELSE props[k]]

PutGenerated(props, p) ==
  IF p.value = "" \/ p.key \notin Included \/ p.key \in DOMAIN props
     \/ Cardinality(DOMAIN props) >= MaxPropertyCount
  THEN props
  ELSE [k \in DOMAIN props \cup {p.key} |-> IF k = p.key THEN p.value ELSE props[k]]

Enrich(e, client) ==
  [e EXCEPT !.props = FoldLeft(PutGenerated, e.props, Generated(client))]

-----------------------------------------------------------------------------
(* The traffic filter                                                      *)

BotTokens == {"bot", "crawler", "headlesschrome", "spider"}

Filtered(client) == client.agent \cap BotTokens # {} \/ client.ip \in InternalIPs

-----------------------------------------------------------------------------
(* Handle's loop over the stages: the first that fails ends it.            *)
Apply(stage, e, client) ==
  CASE stage = "session" -> ResolveSession(e, client)
    [] stage = "visit"   -> ResolveVisit(e)
    [] stage = "enrich"  -> Enrich(e, client)
    [] stage = "filter"  -> e

Staged(stages, e, client) ==
  FoldLeft(LAMBDA acc, stage : Apply(stage, acc, client), e, stages)

Rejects(stages, client) == "filter" \in Range(stages) /\ Filtered(client)
=============================================================================
