SPECIFICATION SerialSpec
CONSTANTS
  Conn = {c1, c2}
  NoConn = NoConn
  Login = {ann}
  Passcode = {p}
  Channel = {}
  SubId = {}
  Ref = {r1, r2, r3, r4, r5, r6, r7}
  NoId = NoId
  NoRef = NoRef
  ServerType = "tpc"
  MaxOverlap = 2
  MaxFrames = 2
INVARIANT LoginsExclusive
CHECK_DEADLOCK FALSE
