CONSTANTS
  zero = zero
  field = field
  strip = strip
  kite = kite
  wren = wren
  NoId = NoId
  ZeroPos = zero
  Texts = {"SELF_ID"}
  Lists = {"AIRPORT"}
  Positions <- MCPositions
  Zones <- MCZones
  UasIds <- MCUasIds
  MaxAgeLocation = 0
  FailAge = 0
  MaxAgeOther = 0
  AgeCap = 1
  Messages <- LastingMessages
  Configs <- LastingConfigs
  Mounts = {TRUE}
  OtherFaults = {FALSE}
SPECIFICATION FairSpec
ACTION_CONSTRAINT OneQuestion
PROPERTIES
  EvidenceArms
  SilenceIsReported
  NeedIsAnswered
