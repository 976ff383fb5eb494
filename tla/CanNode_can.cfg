CONSTANTS
  Configured = {0, 42}
  OwnId = 42
  OtherId = 7
  Parts = 3
  FailLimit = 2
  RxLimit = 2
  QueueCap = 2
  InboxCap = 2
SPECIFICATION FairSpec
INVARIANTS
  OwnIdOnly
PROPERTIES
  GetsAnId
  QueueDrains
