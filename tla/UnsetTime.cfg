SPECIFICATION SimSpec
CONSTANTS
  MaxProcesses = 3
  QueueCount = 2
  DeviceCount = 3
  JobDuration <- MCJobDuration
  RetQueue <- MCRetQueue
  SwapDevice = 0
  TimeSlice = 2
  FrameCount = 11
  MaxWorkingSet = 2
  Pages = {0, 1}
  Plans <- MCPlans
  UnsetTimes = {0, 2}
CHECK_DEADLOCK FALSE
INVARIANTS
  UntouchedBeforeStart
