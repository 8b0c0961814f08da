SPECIFICATION LibrarySpec
CONSTANTS
  Elements <- MCElements
  IsRoot <- MCIsRoot
  MaxCalls = 60
  Projects <- MCProjects
  Edits <- MCEdits
  Platform = "mac"
  MaxGen <- MCMaxGen
  FileNames <- MCFileNames
  Lists <- MCLists
  PlainOrder <- MCPlainOrder
  SearchOrder <- MCSearchOrder
  Clip <- MCClip
  Garbled = {"b"}
  Passwords = {"", "pw"}
  IntRange = 4
  Sizes = {0, 1, 2, 5}
  MaxChanges = 2
  Lines <- MCLines
  Addresses <- MCAddresses
  MaxLines = 5
  Level = 1
  Behind = 1
  QueueSize = 2
  MaxPackets = 5
  MaxEvents = 5
  EmptyNumbers = {4}
  Threads = {1, 2}
INVARIANTS
  NewerFirst
  MenuItemsOnce
  MistakenOnlyForOuter
  MeasuredByOwn
  SameNameOnlyNested
  AlignedToEarlier
  FoundWhenOrdered
  IndexedIsWritten
  CountryIsOfTheRange
  OneRawPerThread
  WakesForQueue
PROPERTY
  BuiltWhole
  ExtractedInFull
  GapMeansLoss
  QuietAfterRelease
CHECK_DEADLOCK FALSE
