SPECIFICATION Spec
CHECK_DEADLOCK FALSE
CONSTANTS
  Blocks = {1, 2, 3, 4, 5, 6, 7, 8, 9}
  Null = Null
  Uris = {{}, {"ws", "host"}, {"wss", "host", "path", "port"},
          {"wss", "host", "user_info", "username", "password"}}
  FieldSets = {{}, {"port"}, {"host", "username"}, {"host", "port", "username", "password", "path"}}
  MaxFailures = 2
  MaxCalls = 2
INVARIANTS
  TypeOK
  StringsOwned
  CrashHasACause
  LeakHasACause
  ReadyIsComplete
