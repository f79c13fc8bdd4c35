SPECIFICATION NetSpec
CONSTANTS
  Master = m
  Remotes = {r, q}
  Unknown = Unknown
  Everyone = Everyone
  MaxAir = 2
INVARIANTS
  ArpTruthful
