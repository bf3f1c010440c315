SPECIFICATION Spec
CONSTANTS
  Size = 4
  Share = 10
  Signs <- Five
  Inserted <- SomeValues
  Sought <- Two
  Removed <- Other
  Values = {1, 2}
  NoSign = NoSign
  NoValue = NoValue
INVARIANT NeverOutOfSlots
