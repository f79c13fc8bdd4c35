SPECIFICATION Spec
CONSTANTS
  NumZones = 2
  Stations = {0, 1}
  RFStations = {1}
  ActiveStations = {0, 1}
  MyStations = {0}
  StartZoneOf <- TwoStartZoneOf
  NumZoneChannels <- TwoNumZoneChannels
  MAX_SCHEDULES = 2
  MINUTE = 2
  DELAY_BETWEEN_ZONES = 1
  ZONE_STATE_TIMEOUT = 2
  MILLIS = 16
  INT = 6
  BYTE = 256
  DayMinutes = 3
  Days = 1
  ScheduleDefs = {}
  InitialSlots <- NoSchedules
  QuickDefs = {}
  RunMinutes = {1}
  PauseMinutes = {1}
  Scales = {100}
  EditZones = FALSE
  EditRunningZones = FALSE
  ClockSteps = FALSE
  Reboots = FALSE
  MaxLag = 1
  MaxLate = 1
PROPERTIES
  PauseNeverGrows
