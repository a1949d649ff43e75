SPECIFICATION SerialSpec
CONSTANTS
  Conn = {c1, c2}
  NoConn = NoConn
  Login = {ann}
  Passcode = {p, q}
  Channel = {1, 2}
  SubId = {i1}
  NoId = NoId
  Ref = {r1, r2, r3, r4, r5, r6}
  NoRef = NoRef
  ServerType = "tpc"
  MaxOverlap = 2
  MaxFrames = 3
SYMMETRY Symmetric
INVARIANTS
  TypeOK
  CleanLogout
  TopicsHaveMaps
  OnlineHasOwner
PROPERTY HandlersAreMethods
\* A client sends MaxFrames frames at most.
CHECK_DEADLOCK FALSE
