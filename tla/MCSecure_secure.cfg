SPECIFICATION FairSpec
CONSTANTS
  Client = {"ann", "bob"}
  KeyOf <- MCKeyOf
  Wishes <- MCWishes
  Changes <- MCChanges
  Parameters = {"UAS_TYPE", "UAS_ID"}
  Silent = {}
  StoredKeys = {1, 2}
  ReleaseKeys = {1}
  MaxLost = 1
  MaxLate = 1
  MaxRestarts = 1
  MaxResets = 1
INVARIANTS
  AcceptedStays
  DeniedWasSuperseded
PROPERTIES
  EveryClientEnds
CHECK_DEADLOCK FALSE
