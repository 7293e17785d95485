CONSTANTS
  MaxRun = 2
  MaxBoot = 3
  AP_START_TIMEOUT = 2
  MaxUptime = 6
  MaxWait = 3
  MaxBaseline = 2
  Endpoint <- Endpoints
  STALE = 2
  PollEvery = 2
  MaxRounds = 2
SPECIFICATION FairSpec
CHECK_DEADLOCK FALSE
INVARIANTS TypeOK ServesOnItsAp ExportCoherent RecoveryGenuine LiveIsFresh
PROPERTIES BootSettles
