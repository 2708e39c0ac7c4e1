SPECIFICATION FairSpec
CONSTANTS
  Ids = {d1, d2}
  Locs = {torrent, file}
  FileLocs = {file}
  Procs = {p1, p2}
  Tasks = {t1}
  MaxCrashes = 1
  Requests = {"start", "open", "remove", "pause"}
  Fails = {"save"}
  NoRow = NoRow
  NoTask = NoTask
  NoId = NoId
  NoProc = NoProc
INVARIANTS UniqueLocator RunningIsRecorded PauseSurvives
PROPERTIES StartMuReleased
CHECK_DEADLOCK FALSE
