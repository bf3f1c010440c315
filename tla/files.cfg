SPECIFICATION FilesSpec
CONSTANTS
  Signs = {s1, s2}
  NoFile = NoFile
  MaxID = 3
  MaxFreq = 2
  Indexes <- SomeIndexes
  NoIndex = NoIndex
  Headless = Headless
  Junk = Junk
  MaxItems = 2
  Count = 4
  FSize = 1
  MaxLines = 9
  MaxDays = 3
  MaxCrashes = 2
  Absent = Absent
  NoSign = NoSign
  NoValue = NoValue
CHECK_DEADLOCK FALSE
INVARIANTS IdsDense NoGap HistoryKept 
PROPERTIES LoadsWhole ArraysAsDumped RestartRestores
