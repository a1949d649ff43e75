SPECIFICATION Spec
CONSTANTS
  c1 = c1  c2 = c2
  Conn = {c1, c2}
  NumThreads = 2
  MaxFrames <- OneEach
INVARIANT ServesOn
CHECK_DEADLOCK FALSE
