SPECIFICATION FairSpec
CONSTANTS
  Chargers = {c1, c2}
  Stored = {c1}
  Settings = {1}
  Targeted <- MCTargeted
  Default = 1
  MaxTries = 2
  MaxReadings = 1
  MaxCommands = 4
CONSTRAINT Bounded
INVARIANTS TypeOK WindowCatchesUp OneTaskPerCharger NoCommandOutlivesDisconnect
PROPERTIES CommandsInOrderOnce BackendSpec DisconnectCloses
CHECK_DEADLOCK FALSE
