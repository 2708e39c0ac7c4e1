SPECIFICATION FairSpec
CONSTANTS
  Downloads = {d1}
  Unmatched = {}
  Devices = {v1, v2}
  Wishes = {y1, y2, y3}
  Refused = {y3}
  Default = y1
  MaxCodes = 1
  MaxRequests = 3
  MaxFaults = 2
  NoDevice = NoDevice
  NoCode = NoCode
INVARIANTS OneDeviceACode
PROPERTIES HoldsFollow ReleasedStays
CHECK_DEADLOCK FALSE
