CONSTANTS
  low = low
  high = high
  arm = arm
  SubMinds = {low, high}
  Resources = {arm}
  ResolverResources <- SharedArm
  SignalPriorities <- LowAndHigh
  TaskPriorities <- OneTier
  Hysteresis = 5
  Workers = 2
  MaxAttempts = 1
  None = None
  MaxSignals = 2
  MaxTasks = 1
SPECIFICATION FairSpec
CHECK_DEADLOCK FALSE
INVARIANTS Accounts ParkedWillBeResumed 
PROPERTIES ParkedIsResumed PreemptOnlyOnContention
