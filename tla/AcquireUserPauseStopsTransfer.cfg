SPECIFICATION Spec
CONSTANTS
  Ids = {d1}
  Locs = {torrent}
  FileLocs = {}
  Procs = {p1, p2}
  Tasks = {t1, t2}
  MaxCrashes = 0
  Requests = {"look", "start", "pause", "unpause", "share", "recover", "remove", "identify"}
  Fails = {}
  NoRow = NoRow
  NoTask = NoTask
  NoId = NoId
  NoProc = NoProc
SYMMETRY Sym
INVARIANTS UserPauseStopsTransfer
CHECK_DEADLOCK FALSE
