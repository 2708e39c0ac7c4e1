SPECIFICATION Spec
CONSTANTS
  Ids = {d1}
  Locs = {torrent}
  FileLocs = {}
  Procs = {p1, p2}
  Tasks = {t1, t2}
  MaxCrashes = 1
  Requests = {"look", "start", "pause", "unpause", "share", "recover", "remove", "identify"}
  Fails = {}
  NoRow = NoRow
  NoTask = NoTask
  NoId = NoId
  NoProc = NoProc
SYMMETRY Sym
INVARIANTS UserPauseHolds
PROPERTIES UserPauseLifted NeverReturns
CHECK_DEADLOCK FALSE
