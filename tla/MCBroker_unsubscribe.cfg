SPECIFICATION Spec
CONSTANTS
  c1 = c1  c2 = c2  c3 = c3
  i1 = i1  i2 = i2
  plain = plain  slash = slash
  Conn = {c1, c2}
  NoConn = NoConn
  Login = {}
  Passcode = {p}
  Destination = {plain}
  SubId = {i1, i2}
  NoId = NoId
  IdsOf <- SharedIds
  Stripped <- NoSlash
  ServerType = "tpc"
  MaxMessageId = 2
PROPERTY UnsubscribeOnlyOwn
CHECK_DEADLOCK FALSE
