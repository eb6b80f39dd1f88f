SPECIFICATION FairSpec
CONSTANTS
  WatchDogInterval = 2
  MaxForks = 2
  MaxLate = 1
  MaxRequests = 1
  MaxCrashes = 1
INVARIANTS
  OneDaemon
  StopStops
  SleepsSoundly
PROPERTIES
  PunctualIsSpared
  HungIsEnded
  StopCompletes
  DeadIsReplaced
