SPECIFICATION FairSpec
CONSTANTS
  c1 = c1  c2 = c2
  Conn = {c1}
  NumThreads = 1
  MaxFrames <- ThreeEach
PROPERTIES
  FramesWritten
  GoneAreClosed
\* The peers send MaxFrames frames at most.
CHECK_DEADLOCK FALSE
