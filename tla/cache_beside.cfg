SPECIFICATION SavedSpec
CONSTANTS
  Size = 2
  Share = 2
  Signs <- Two
  Inserted <- TwoValues
  Sought = {}
  Removed = {}
  Values = {1}
  NoSign = NoSign
  NoValue = NoValue
INVARIANT LoadedWhole
