CONSTANTS
  w1 = w1
  w2 = w2
  Worker <- MCWorker
  Workload <- MCWorkload
  MaxRun = 2
  MaxBoot = 2
SPECIFICATION FairSpec
CHECK_DEADLOCK FALSE
INVARIANTS TypeOK OwnRun RunInv AbortHonoured PreviousRunTruthful
PROPERTIES RunStateOrder OutcomeFinal RunTerminates RunsKept
