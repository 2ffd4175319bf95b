SPECIFICATION Spec
CONSTANTS
  Block = 2
  RingCount = 2
  Emits = {"echo", "delta", "tool", "result", "other"}
  Faults = {"reservation", "floor", "contention", "content"}
  MaxEvents = 4
  MaxBoots = 2
INVARIANTS TypeOK OnlyUncoveredReissued AnchorHonest ReplayHasNoHole
PROPERTIES StampsAboveAnchors
