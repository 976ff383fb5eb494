CONSTANTS
  kite = kite
  kiteLong = kiteLong
  blank = blank
  MacName = kite
  UasIds <- MCUasIds
  NoId = NoId
  DefaultId = blank
  Field <- MCField
  Absent = Absent
  Sets <- StoreSets
  Commands <- StoreCommands
  MaxFlown = 3
SPECIFICATION Spec
INVARIANTS
  TypeOK
  SurvivesRestart
  FlightTimeNotTwice
  ResetCompletes
PROPERTIES
  IdentityKept
  FlightTimeKept
