SPECIFICATION FairSpec
CONSTANTS
  Image = {good, other, foreign}
  None = None
  N = 3
  Capacity = 5
  Foreign = {foreign}
  Bare = {}
  Signed = {good, foreign}
  Wanted = good
  good = good
  other = other
  foreign = foreign
  Settings <- MCSettings
  MaxFaults = 2
  MaxOthers = 1
INVARIANTS
  TypeOK
  AnswerIsRight
  FilesSettled
PROPERTIES
  RetryInstalls
  InstallsAtOnce
