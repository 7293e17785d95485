CONSTANTS
  w1 = w1
  w2 = w2
  Worker <- MCWorker
  Workload <- RebootLoads
  MaxRun = 2
  MaxBoot = 2
SPECIFICATION Spec
CHECK_DEADLOCK FALSE
INVARIANT AbortedRunNeverReboots
