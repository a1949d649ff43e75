SPECIFICATION FairSpec
CONSTANTS
  Conn = {c1, c2}
  Channel = {fire, flood}
  Nobody = Nobody
  Window = 1
  MaxFrames = 2
INVARIANTS
  TypeOK
  
PROPERTIES
  OthersServed
  ThreadsEnd
\* The clients send MaxFrames frames at most.
CHECK_DEADLOCK FALSE
