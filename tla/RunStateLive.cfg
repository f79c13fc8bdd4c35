SPECIFICATION LiveSpec
CONSTANTS
  NumZones = 3
  Stations = {0, 1}
  RFStations = {1}
  ActiveStations = {0, 1}
  MyStations = {0}
  StartZoneOf <- MCStartZoneOf
  NumZoneChannels <- MCNumZoneChannels
  MAX_SCHEDULES = 2
  MINUTE = 2
  DELAY_BETWEEN_ZONES = 1
  ZONE_STATE_TIMEOUT = 1
  MILLIS = 64
  INT = 64
  BYTE = 256
  DayMinutes = 6
  Days = 1
  ScheduleDefs = {}
  InitialSlots <- Disjoint
  QuickDefs = {}
  RunMinutes = {1}
  PauseMinutes = {}
  Scales = {100}
  EditZones = FALSE
  EditRunningZones = FALSE
  ClockSteps = FALSE
  Reboots = TRUE
  MaxLag = 1
  MaxLate = 1
  MaxCommands = 2
PROPERTIES
  EveryValveCloses
  TransitionsResolve
  EveryZoneGetsItsTurn
