SPECIFICATION FairSpec
CONSTANTS
  Tasks = {t1, t2, t3}
  Hashes = {h1}
  e1 = e1
  e2 = e2
  Files = {e1, e2}
  NumPieces = 4
  BeginPiece <- MCBegin
  EndPiece <- MCEnd
  Largest = e2
  NoFile = NoFile
  NoHash = NoHash
INVARIANTS RefsCount RunningAsked StoppedNotAsked
PROPERTIES BackendCloses
CHECK_DEADLOCK FALSE
