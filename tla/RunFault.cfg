CONSTANTS
  w1 = w1
  w2 = w2
  Worker <- MCWorker
  Workload <- MCWorkload
  MaxRun = 1
  MaxBoot = 1
SPECIFICATION Spec
CHECK_DEADLOCK FALSE
INVARIANT FailureReportsFault
