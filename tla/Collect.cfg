SPECIFICATION Spec
SYMMETRY Symmetry
CONSTANTS
  NoTime = NoTime
  NoIP = "none"
  Subscriber = {s1, s2}
  Publisher = {p1, p2}
  Body <- Bodies
  Client <- Clients
  StageOrders <- FilteringOrders
  Location <- Locations
  InternalIPs = {"office"}
  Included = {"client.browser", "client.device", "geo.country"}
  IncludeClientFingerprint = TRUE
  MaxClockSkew = 1
  MaxPropertyCount = 2
  SessionWindow = 2
  VisitWindow = 4
  MaxHandlers = 2
  MaxRequests = 2
  MaxTime = 3
INVARIANTS
  AcceptedHandled
  TimedEventsKeepIdentity
  VisitInsideSession
  ClientPropertiesKept
CHECK_DEADLOCK FALSE
