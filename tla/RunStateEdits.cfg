SPECIFICATION Spec
CONSTANTS
  NumZones = 2
  Stations = {0, 1}
  RFStations = {}
  ActiveStations = {0, 1}
  MyStations = {0}
  StartZoneOf <- TwoStartZoneOf
  NumZoneChannels <- TwoNumZoneChannels
  MAX_SCHEDULES = 1
  MINUTE = 2
  DELAY_BETWEEN_ZONES = 1
  ZONE_STATE_TIMEOUT = 1
  MILLIS = 6
  INT = 6
  BYTE = 256
  DayMinutes = 2
  Days = 1
  ScheduleDefs <- EditDefs
  InitialSlots <- OneSlot
  QuickDefs = {}
  RunMinutes = {1}
  PauseMinutes = {0, 2}
  Scales = {100}
  EditZones = TRUE
  EditRunningZones = FALSE
  ClockSteps = FALSE
  Reboots = FALSE
  MaxLag = 1
  MaxLate = 1
INVARIANTS
  OneValve

PROPERTIES
  PauseHolds
