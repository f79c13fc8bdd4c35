SPECIFICATION TftpSpec
CONSTANTS
  CHAR = 8
  Lengths = {1, 2, 4}
  MaxTransfers = 3
  MaxSends = 5
  MaxQueue = 2
INVARIANTS
  FreeLineFreeFile
CHECK_DEADLOCK FALSE
