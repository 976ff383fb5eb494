SPECIFICATION Spec
CONSTANTS
  Packs <- MCPacks
  Enabled = {"beacon", "bt5", "bt4"}
  CounterSize = 2
  MaxAge = 1
  MaxDrops = 1
INVARIANTS
  LocationHasItsTurn
  BeaconLeads
PROPERTIES
  EveryMessageAdvertised
  BeaconRecovers
