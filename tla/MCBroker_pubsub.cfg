SPECIFICATION Spec
CONSTANTS
  c1 = c1  c2 = c2  c3 = c3
  i1 = i1  i2 = i2
  plain = plain  slash = slash
  Conn = {c1, c2, c3}
  NoConn = NoConn
  Login = {}
  Passcode = {}
  Destination = {plain, slash}
  SubId = {i1, i2}
  NoId = NoId
  IdsOf <- PrivateIds
  Stripped <- WithSlash
  ServerType = "tpc"
  MaxMessageId = 4
INVARIANTS
  SubscribersAgree

  
\* Finitely many connections: nothing happens once each of them is closed.
CHECK_DEADLOCK FALSE
