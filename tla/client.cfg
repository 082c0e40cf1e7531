SPECIFICATION FairSpec
CONSTANTS
  Peers = {"p", "q"}
  Scripts <- ShortScripts
  Longest = 3
INVARIANTS
  TypeOK
  CommandsInOrder
PROPERTIES
  ImplementsOrderedReplies
  ReadCommandsAreSent
  QueriesAnswered
CHECK_DEADLOCK FALSE
