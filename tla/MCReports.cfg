SPECIFICATION Spec
CONSTANTS
  User = {"ann", "u umlaut"}
  File = {"two", "foreign", "elsewhere", "two lines", "incomplete", "no date", "null"}
  Content <- MCContent
  Subscribed <- MCSubscribed
  ReadSize = {17, 61}
  MaxReports = 2
  Char <- MCChar
  Number = {"7", "8", "9"}
  NonAscii = {"u umlaut"}
INVARIANTS
  TypeOK
  NothingLost
  NothingInvented
  ReceiverSurvives
  SummaryCounts
\* The users report MaxReports files at most.
CHECK_DEADLOCK FALSE
