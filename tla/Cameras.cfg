SPECIFICATION CamerasSpec
CONSTANTS
  ring = ring
  night = night
  theRing = theRing
  Jobs = {x1, x2}
  Fragments = {ring, night}
  CallOf <- OneCall
  NoCall = NoCall
  Retries = 2
  MaxFiles = 1
  MaxRuns = 2
  MaxReloads = 1
  Controls = {x1, x2}
  Archives <- SomeArchives
  Durations = {2, 4}
  Steps = {3}
  Positions = {7}
  MaxFetches = 3
  DayLength = 4
  MaxSecond = 7
  Jitter = 1
  CardArchives <- SomeCardArchives
  CardStep = 3
  CardLength = 1
  Lead = 1
  EventTimes = {2}
  Seconds = {2}
  MaxWork = 2
  MaxClicks = 2
  Doors = {x1, x2}
  MaxImageCalls = 2
  MaxSetUps = 2
  ImageFailures = 2
  Cameras = {x1, x2}
  MaxEvents = 2
  MaxChanges = 2
  MaxCloses = 1
  FirstPage = 1
  PageSize = 2
  MaxPages = 3
  MaxListed = 5
  SplitDepth = 2
  TimeWindows <- SomeWindows
  MaxMotion = 3
  MaxArrivals = 1
SYMMETRY Symmetric
CONSTRAINT FewChangesOfTwo
INVARIANTS
  CamerasInv OnlyWholeFilesStay CardShowsWhatPlays
  DaysShowTheArchive PlaysTheSelected MotionIsPublishedOnce TargetsAreCurrent ReadsAreComplete
PROPERTIES LimitIsKept OnlyTheLatestIsShown ShiftsSkipOnlyGaps
CHECK_DEADLOCK FALSE
