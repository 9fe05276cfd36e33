SPECIFICATION Spec
CONSTANTS
  MaxProcesses = 3
  QueueCount = 2
  DeviceCount = 2
  JobDuration <- MCJobDuration
  RetQueue <- MCRetQueue
  SwapDevice = 0
  TimeSlice = 3
  FrameCount = 8
  MaxWorkingSet = 2
  Pages = {0, 1}
  MaxTime = 9
CONSTRAINT TimeBound
CHECK_DEADLOCK FALSE
INVARIANTS
  BoundedWait
  SliceNotOverrun
  DeviceService
  FramesExclusive
  FramesAccounted
  LocksInFlight
  RunsOnResidentPage
PROPERTIES
  LivesUndisturbed
