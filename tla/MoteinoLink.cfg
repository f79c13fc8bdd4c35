SPECIFICATION FairSpec
CONSTANTS
  m = m
  r = r
  q = q
  Stations = {m, r, q}
  Links <- Chain
  RETRY_COUNT = 2
  LastNumber = 1
  MaxPackets = 3
  Masters = {m}
  Resetting = {q}
INVARIANTS
  OnlyDuplicatesSkipped
PROPERTIES
  InOrderAtMostOnce
  EverySendEnds
CHECK_DEADLOCK FALSE
