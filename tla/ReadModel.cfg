SPECIFICATION Spec
CONSTANTS
  m1 = m1
  m2 = m2
  m3 = m3
  m4 = m4
  Message = {m1, m2, m3, m4}
  Envelope <- Envelopes
  Table <- OneTable
  AllowedProperties <- PlanAllowed
  DefaultEventsLimit = 1
  DefaultRealtimeLimit = 1
  MaxQueryLimit = 2
  MaxFilters = 2
  MaxPropertyFilterWindow = 3
  Queries <- QuerySet
  Realtime <- Recent
  MaxCopies <- Copies
INVARIANTS
  NoRowSkipped
  CountsBracketListing
  SourcesApart
  AcknowledgedIsListed
  CatalogExact
  
CHECK_DEADLOCK FALSE
