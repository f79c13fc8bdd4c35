SPECIFICATION Spec
CONSTANTS
  NumZones = 3
  Stations = {0, 1}
  RFStations = {1}
  ActiveStations = {0, 1}
  MyStations = {0}
  StartZoneOf <- MCStartZoneOf
  NumZoneChannels <- MCNumZoneChannels
  MAX_SCHEDULES = 2
  MINUTE = 2
  DELAY_BETWEEN_ZONES = 1
  ZONE_STATE_TIMEOUT = 1
  MILLIS = 64
  INT = 64
  BYTE = 256
  DayMinutes = 2
  Days = 1
  ScheduleDefs = {}
  InitialSlots <- TwoSchedules
  QuickDefs <- BothLocal
  RunMinutes = {0, 1}
  PauseMinutes = {}
  Scales = {0, 200}
  EditZones = FALSE
  EditRunningZones = FALSE
  ClockSteps = TRUE
  Reboots = TRUE
  MaxLag = 1
  MaxLate = 1
INVARIANTS
  TypeOK
  NoStateCorruption
  NoOverrun
  ValveFollowsTimer
  CacheShowsValves
  DisabledMeansIdle
