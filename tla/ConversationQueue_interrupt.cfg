SPECIFICATION FairSpec
CONSTANTS
  m1 = m1
  m2 = m2
  m3 = m3
  m4 = m4
  Msgs = {m1, m2, m3}
  Chains = {c1, c2}
  NoOne = NoOne
  Sender <- AllDistinct
  Slash = {m2}
  Hidden = {m1}
  Size <- Sizes
  MaxBytes = 5
  Interrupts = TRUE
  InterruptOnSend = TRUE
  SendsFail = FALSE
  DrainsThrow = TRUE
INVARIANTS ClientRowsMatch BytesMatchQueue NothingStranded
PROPERTIES KeepsPromises EveryMessageEnds
CHECK_DEADLOCK FALSE
