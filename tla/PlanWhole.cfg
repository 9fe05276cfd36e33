SPECIFICATION MCSpec
CONSTANTS
  MaxProcesses = 3
  QueueCount = 2
  DeviceCount = 4
  JobDuration <- MCJobDuration
  RetQueue <- MCRetQueue
  SwapDevice = 0
  TimeSlice = 2
  FrameCount = 11
  MaxWorkingSet = 2
  Pages = {0, 1}
  UnsetTimes = {0}
  Plans <- NoPlans
  MaxTimeSlice = 10
  MaxDevices = 10
  MaxSupportedFrames = 1024
  MaxWorkingSetSize = 64
CHECK_DEADLOCK FALSE
INVARIANTS
  PlanWhole
