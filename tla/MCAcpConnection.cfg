SPECIFICATION WireSpec
CONSTANTS
  Outbound = {r1, r2}
  Note = {n1, e1}
  ByReader = {e1}
  FrameSize = 2
  MaxReplies = 2
  NoFrame = NoFrame
INVARIANTS
  WireIInv
PROPERTIES
  LeftUnseen
  KeepsPromise
CHECK_DEADLOCK FALSE
