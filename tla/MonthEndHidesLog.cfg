SPECIFICATION WaterLogSpec
CONSTANTS
  HOURS = 2
  DAY = 1
  DAYS = 3
  MONTHS = 2
  YEARS = 2
  Runs = {1, 2}
  Durations = {1, 3}
  MaxLines = 2
INVARIANTS
  EveryRunIsShown
CHECK_DEADLOCK FALSE
