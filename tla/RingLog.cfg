CONSTANTS
  app_main = app_main
  worker = worker
  Emitter <- TwoEmitters
  DB_EVENT_CAPACITY = 2
  MaxEvents = 3
SPECIFICATION FairSpec
CHECK_DEADLOCK FALSE
INVARIANTS TypeOK SeqConsecutive
PROPERTIES LogSpec EmitterNeverStalls
