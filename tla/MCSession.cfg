SPECIFICATION SessionSpec
CONSTANTS
  UpCapacity = 1
  DownCapacity = 1
  MaxWindow = 4
  MaxScript = 4
  Scripts <- AllScripts
CHECK_DEADLOCK FALSE
INVARIANTS
  AnswersFollowTheMessages
  OnlyGreedyClientsGetStuck
PROPERTIES
  ModestClientsAreServed
