SPECIFICATION Spec
CONSTANTS
  m1 = m1
  m2 = m2
  m3 = m3
  m4 = m4
  Msgs = {m1, m2, m3, m4}
  Chains = {c1, c2}
  NoOne = NoOne
  Sender <- TwoSenders
  Slash = {}
  Hidden = {m3}
  Size <- Sizes
  MaxBytes = 5
  Interrupts = FALSE
  InterruptOnSend = FALSE
  SendsFail = TRUE
  DrainsThrow = TRUE
INVARIANTS TypeOK NothingLost HeldOnce
PROPERTIES StartsInOrder KeepsPromises
SYMMETRY Symmetry
CHECK_DEADLOCK FALSE
