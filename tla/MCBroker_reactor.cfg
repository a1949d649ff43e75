SPECIFICATION Spec
CONSTANTS
  c1 = c1  c2 = c2  c3 = c3
  i1 = i1  i2 = i2
  plain = plain  slash = slash
  Conn = {c1, c2}
  NoConn = NoConn
  Login = {ann, bob}
  Passcode = {p, q}
  Destination = {plain}
  SubId = {i1, i2}
  NoId = NoId
  IdsOf <- SharedIds
  Stripped <- NoSlash
  ServerType = "reactor"
  MaxMessageId = 6
SYMMETRY Symmetric
INVARIANTS
  TypeOK
  KeysAgree
  OneAnswer
  SessionsExclusive
PROPERTIES
  SilentAfterError
  MessageIdsFresh
\* Finitely many connections: nothing happens once each of them is closed.
CHECK_DEADLOCK FALSE
