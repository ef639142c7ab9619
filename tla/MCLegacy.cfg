SPECIFICATION MCSpec
CONSTANTS
  Part = {"device", "journal", "blocks", "input", "entry", "probe"}
  MaxUnlockAttempts = 2
  Methods = 2
  Value = {"p", "q"}
  MaxTransitions = 16
  MaxVaults = 3
  MaxRecords = 9
  MaxFaults = 2
  MaxPasskeys = 1
  Cable = {"none", "C", "both"}
  Card <- MCCard
  PagesPerBlock = 2
  MaxSequence = 7
  MaxMishaps = 3
  Sector = {1, 2}
  Image <- MCImage
  MaxCommits = 4
  MaxCuts = 3
  ButtonCount = 2
  Map <- MCMap
  MaxScreens = 3
  Wheels = 2
  WheelValues = 3
  MinTurns = 2
  MaxTurns = 3
  MinPin = 1
  MaxPin = 2
  Words = 2
  WordWays = 2
  Programs = {"a", "b"}
  ProbeChannels = 2
  QueueSize = 2
  Pieces = 2
  MaxReports = 7
  MaxDetaches = 1
CHECK_DEADLOCK FALSE
INVARIANTS GuessBound HeaderKept NothingServedLocked JournalNeverGoesBack AnchoredImageKept HeldNotCarried WordsSound ServesOwnRequests
