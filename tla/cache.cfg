SPECIFICATION Spec
CONSTANTS
  Size = 4
  Share = 2
  Signs <- Five
  Inserted <- SomeValues
  Sought <- Two
  Removed <- Other
  Values = {1, 2}
  NoSign = NoSign
  NoValue = NoValue
INVARIANTS ListsWhole ChainsWhole
PROPERTY ImplementsLruMap
