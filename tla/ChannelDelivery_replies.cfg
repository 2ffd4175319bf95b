SPECIFICATION Spec
CONSTANTS
  Events = {"e1", "e2"}
  Messages <- TwoEvents
  Keyed = {"slack", "thread"}
  Segments <- Replies
  MaxAttempts = 2
  MaxIncidents <- Incidents
INVARIANTS PostedOnce DeliveredMeansAnswered
PROPERTY EveryEventSettles
CHECK_DEADLOCK FALSE
