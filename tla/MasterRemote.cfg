SPECIFICATION Spec
CONSTANTS
  NumZones = 2
  MINUTE = 2
  DELAY_BETWEEN_ZONES = 1
  ZONE_STATE_TIMEOUT = 1
  RunMinutes = {1}
  QuickDefs <- BothZones
  MaxLag = 1
  MaxLate = 1
  MaxEvents = 3
INVARIANTS
  RemoteFollowsMaster
  BackstopEndsRun
  CacheShowsRemote
