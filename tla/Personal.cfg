SPECIFICATION PersonalSpec
CONSTANTS
  Cores = {a, b}
  Rows = {episode}
  v1 = v1
  v2 = v2
  b = b
  accent = accent
  Values = {v1, v2}
  Words = {w1}
  Picks = {p1}
  Queries = {q1, q2, q3}
  Prefs = {accent, limit}
  PersonalPrefs = {accent}
  Accepts <- MCAccepts
  Left <- MCLeft
  Keep = 2
  MaxTime = 1
  MaxWrites = 3
  Default = Default
  None = None
CONSTRAINT OneFile
SYMMETRY Sym
INVARIANTS ImportTwiceChangesNothing CoresConverge AppliedIsStored
PROPERTIES RecordedComesFirst
CHECK_DEADLOCK FALSE
