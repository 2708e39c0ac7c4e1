SPECIFICATION FairSpec
CONSTANTS
  c1 = c1
  c2 = c2
  e1 = e1
  Downloads = {c1}
  Episodes = {e1}
  EpisodeOf <- MCEpisodeOf
  Owner = owner
  Devices = {v1}
  Keep = "watched"
  Settle = 1
  KeepDays = 1
  KeepWatched = 0
  KeepUnwatched = 1
  DiskLimit = 0
  Requests = {"start", "play", "puthold", "release", "revoke", "stall", "progress"}
  MaxRequests = 3
  NoDownload = NoDownload
  NoDevice = NoDevice
PROPERTIES WatchedGoes NothingStaysForever
CHECK_DEADLOCK FALSE
