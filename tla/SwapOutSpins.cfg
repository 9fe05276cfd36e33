SPECIFICATION FairSpec
CONSTANTS
  MaxProcesses = 3
  QueueCount = 2
  DeviceCount = 2
  JobDuration <- MCJobDuration
  RetQueue <- MCRetQueue
  SwapDevice = 0
  TimeSlice = 2
  FrameCount = 7
  MaxWorkingSet = 2
  Pages = {0, 1}
  MaxTime = 6
CONSTRAINT TimeBound
CHECK_DEADLOCK FALSE
PROPERTIES
  SwapOutEnds
