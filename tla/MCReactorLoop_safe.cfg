SPECIFICATION Spec
CONSTANTS
  c1 = c1  c2 = c2
  Conn = {c1, c2}
  NumThreads = 2
  MaxFrames <- OneEach
SYMMETRY Symmetric
INVARIANTS
  TypeOK
  NoFrameStranded
  TasksWakeSelector
\* The peers send MaxFrames frames at most.
CHECK_DEADLOCK FALSE
