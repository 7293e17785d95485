CONSTANTS
  app_main = app_main
  worker = worker
  Emitter <- OneEmitter
  DB_EVENT_CAPACITY = 2
  MaxEvents = 2
SPECIFICATION Spec
CHECK_DEADLOCK FALSE
INVARIANT LinesAreJson
