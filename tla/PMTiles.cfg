SPECIFICATION MCSpec
CONSTANTS
  t1 = t1
  t2 = t2
  t3 = t3
  md = md
  hd = hd
  Requests = {t1, t2, t3, md, hd}
  Kind <- MCKind
  MaxVersion = 3
  OldFormat = {3}
  Dirs = {"root", "a", "b"}
  Root = "root"
  Entry <- MCEntry
  Strong = TRUE
  MaxCacheEntries = 3
  MaxFaults = 1
  OutBound = 280
INVARIANTS
  OneArchive
  MismatchMeansReplaced
  VarintIsLEB128
  DirectoryFindsTile
  TileIdsAreACurve
  InflateUndoesDeflate
PROPERTY RequestsEnd
CHECK_DEADLOCK FALSE
