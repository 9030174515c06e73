SPECIFICATION SpecOfOne
CONSTANTS
  s1 = s1
  c1 = c1
  c2 = c2
  r1 = r1
  r2 = r2
  p1 = p1
  e1 = e1
  e2 = e2
  i1 = i1
  i2 = i2
  Subjects = {s1}
  Calls = {c1, c2}
  MaxDecisions = 3
  MaxReads = 1
  MaxFail = 1
  Instances = {i1, i2}
  Perms = {p1}
  Baseline <- Bases
  Editors = {e1, e2}
  Rank <- Ranks
  ServedBy <- Serves
  MaxSaves = 2
  Products = {c1, c2}
  NoProduct = p1
  Readers = {r1, r2}
  QueueSize = 1
  MaxPages = 4
  MaxRestart = 1
  MaxAsk = 3
  Folders = {1, 2}
  Requests = {c1, c2}
  Reads = {r1, r2}
  MaxReq = 2
  Files = {1, 2}
  SizeOf <- Sizes
  Limit = 2
  ImageLimit = 1
  MaxStrays = 1
  Folds = {1, 2}
  FeedPage = 1
  MaxSeq = 3
  Works = {1, 2, 3}
  FirstPages = {1, 2}
  Resources = {"r1", "r2"}
  Joins = {"j1", "j2"}
  PeerOf <- Peers
  MergePage = 4
  MaxCatalog = 3
  MaxReader = 1
  FirstAt <- At
  FirstViews <- Viewed
SYMMETRY Symmetry
INVARIANTS
  Shapes
  RowsKept
  RedirectsSound
  UndosRestore
  NewestRules
  InboxSettled
  QuotasHeld
  ShelfFollows
  SavesSerialised
  LinksKept
\* A behaviour may stop: the bounds end it.
CHECK_DEADLOCK FALSE
