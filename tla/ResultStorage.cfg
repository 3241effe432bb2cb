SPECIFICATION FairSpec
CONSTANTS
  MaxBytes = 3
  MaxMemory = 2
  Ttl = 1
  Sizes = {1, 3}
  MaxResults = 2
  MaxTime = 3
  MaxFaults = 3
CHECK_DEADLOCK FALSE
INVARIANTS
  BytesAccounted
  AnnouncedIsStored
PROPERTIES
  AvailableUntilExpiry
  ExpiredLeave
