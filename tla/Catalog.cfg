SPECIFICATION CatalogFairSpec
CONSTANTS
  t1 = t1
  page = page
  addon = addon
  Titles = {t1}
  Pages = {page}
  Rows = {addon}
  Relays = {}
  Lists <- MCLists
  Keys = {t1, page, addon}
  Calls = {c1, c2}
  Callers = {p1, p2}
  Closers = {q1}
  Answers = {Ok, Failed}
  Ok = Ok
  Failed = Failed
  NoKey = NoKey
  NoCall = NoCall
  NoAnswer = NoAnswer
  ErrClosed = ErrClosed
  NoTime = NoTime
  TTL = 1
  Slots = 1
  MaxNow = 1
  MaxAsks = 2
INVARIANTS OneFetch DetailsAsFetched ServedFromCache
PROPERTIES CloseEnds SharesFetches FetchesWriteBeforeClose
CHECK_DEADLOCK FALSE
