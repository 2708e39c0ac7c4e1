SPECIFICATION Spec
CONSTANTS
  show = show
  film = film
  Titles = {show, film}
  Films = {film}
  Series = {show}
  EpisodesOf <- MCEpisodesOf
  Released <- MCReleased
  Recent = 0
  Procs = {p1, p2}
  Reports = {1, 2, 3}
  MaxNow = 1
  MaxRequests = 3
  MaxFaults = 1
  NoKey = NoKey
SYMMETRY Sym
INVARIANTS ShelvesAgree StartedIsListed
PROPERTIES GoesOnFromMarked PlaysNeverUnwatch
CHECK_DEADLOCK FALSE
