SPECIFICATION Spec
CONSTANTS
  f1 = f1
  f2 = f2
  Files = {f1, f2}
  Pieces = {0, 1, 2}
  FilesOf <- MCFilesOf
  MaxCrashes = 1
  MaxDamage = 1
  NoFile = NoFile
INVARIANTS RecordHasBytes FreedStaysMissing CountRight WholeIsNamed
CHECK_DEADLOCK FALSE
