CONSTANTS
  Table <- MCTable
  Default <- MCDefault
  Numbers = {3, 510}
  Strings = {text, pw}
  TooShort = {pw}
  Empty = Empty
  MaxLists = 2
  MaxLost = 1
SPECIFICATION Spec
INVARIANTS
  ListComplete
  EnumerationComplete
PROPERTIES
  EveryIndexKnown
  LockHolds
