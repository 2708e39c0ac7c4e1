SPECIFICATION Spec
CONSTANTS
  c1 = c1
  c2 = c2
  e1 = e1
  Downloads = {c1, c2}
  Episodes = {e1}
  EpisodeOf <- MCEpisodeOf
  Owner = owner
  Devices = {}
  Keep = "days"
  Settle = 2
  KeepDays = 2
  KeepWatched = 0
  KeepUnwatched = 1
  DiskLimit = 1
  Requests = {"start", "play", "progress", "remove"}
  MaxRequests = 4
  NoDownload = NoDownload
  NoDevice = NoDevice
SYMMETRY Sym
INVARIANTS StreamNotFreed StartedNotFreed
PROPERTIES DeadPickKeepsOld
CHECK_DEADLOCK FALSE
