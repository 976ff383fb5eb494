CONSTANTS
  Table <- KeyTable
  Default <- KeyDefault
  Numbers = {4}
  Strings = {text, pw}
  TooShort = {}
  Empty = Empty
  MaxLists = 1
  MaxLost = 0
SPECIFICATION Spec
PROPERTY SetTouchesOne
