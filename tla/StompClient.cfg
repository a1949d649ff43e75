SPECIFICATION FairSpec
CONSTANTS
  Channel = {news, sport}
  Handler = {h1, h2}
  NoHandler = NoHandler
  MaxCommands = 4
  MaxEvents = 1
  MaxMessages = 1
INVARIANTS
  TypeOK
  ReceiptsAgree
PROPERTIES
  LogoutEnds
\* The user enters MaxCommands commands at most.
CHECK_DEADLOCK FALSE
