SPECIFICATION ServicesSpec
CONSTANTS
  m = m
  r = r
  q = q
  Master = m
  Remotes = {r, q}
  Unknown = Unknown
  Everyone = Everyone
  MaxAir = 2
  BOARDS = 2
  WIDTH = 2
  RING_DELAY = 3
  MULT = 3
  DIV = 2
  WORD = 8
  MaxEdges = 12
  MaxPolls = 3
  SensorMaster = m
  SensorRemotes = {r, q}
  SensorsOf <- SomeSensors
  ChannelsOf <- SomeChannels
  Order <- SomeOrder
  REPEAT <- SomeRepeats
  Registered = {r}
  READINGS = 8
  ValuesOf <- SomeValues
  Silent <- SomeSilent
  Unsure <- SomeUnsure
  Garbage <- SomeGarbage
  XBeeRemotes = {r, q}
  NoRadio = NoRadio
  MaxFlight = 1
  MaxTrouble = 1
  WEEK = 2
  Dates = {0, 1, 2, 3}
  GALLON = 2
  CELL = 2
  Uses = {1}
  MaxUsed = 4
  MaxFolds = 2
  MaxCuts = 1
  TENTHS = 3
  Blocks = {0, 2}
  WDT_TICK = 2
  WDT_MAX = 3
  MAX_AGE = 30
  CHAR = 8
  Lengths = {1, 4}
  MaxTransfers = 3
  MaxSends = 6
  MaxQueue = 2
  Listeners = {1}
  OFFLINE = 10
  BROADCAST = 2
  MILLIS = 21
  HOUR = 3
  INT = 8
  WAIT = 1
  LATE = 1
  Leads = {5}
  Offsets = {1, 3}
  MaxTicks = 8
  MaxMissed = 1
  HOURS = 2
  DAY = 1
  DAYS = 2
  MONTHS = 2
  YEARS = 2
  Readings = {1, 4}
  INTS = 8
  MaxRecords = 3
  Runs = {1, 2}
  Durations = {1, 3}
  MaxLines = 2
  MAX_STATIONS = 3
  MAX_SENSORS = 3
  MAX_CHANNELS = 2
  ErasedByte = 9
  IniFiles <- SomeFiles
  DefaultIDs = {0, 2}
  DefaultChannels = 1
  DefaultSensors <- SomeDefaults
  None = None
  MaxLoads = 2
  LASTBOARD = 2
  BoardTables <- SomeBoards
  DefaultBoard <- OneBoard
  BYTE = 4
  DEBOUNCE = 1
  HOLD = 2
  REPEAT_INTERVAL = 1
  MAX_MINUTES = 2
  MAX_ID = 2
  MaxPresses = 3
  Parts = {"network", "board", "meter", "sensors", "water", "loop", "tftp", "time", "readings", "watering", "load", "panel"}
INVARIANTS
  ServicesTypeOK
  RemotesKnowMaster
  OutputsAreRecorded
  NoPulseForgotten
  MeterCounts
  ReadingsAreAttributed
  FlowIsCurrent
  NoSensorStarves
  WaterConserved
  CounterIsOfItsDate
  HangsEnd
  NoBlockStarves
  TransfersAreExact
  ClockIsRight
  RemotesHearInTime
  SeriesAreComplete
  TablesAreComplete
  RunsAreGrouped
  EepromIsWhole
  RunsAreMeant
PROPERTIES
  StaysSettled
  OneChannelAtATime
  SlowPassSpared
CHECK_DEADLOCK FALSE
