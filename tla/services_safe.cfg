SPECIFICATION SpecOfOne
CONSTANTS
  Parts = {"feed", "chat", "wall"}
  Resources = {r1, r2}
  Pages = {1, 2}
  Txs = {c1, c2}
  PageSize = 1
  MaxXid = 2
  MaxSeq = 3
  Calls = {c1, c2}
  Users = {1, 2}
  MaxPost = 2
  MaxReq = 4
  MaxFault = 1
  Pair = {1, 2}
  Moderators = {2}
  Reader = 1
  MaxMsg = 2
  MaxActs = 4
  Facets = {"ja", "zh"}
SYMMETRY Symmetry
INVARIANTS
  Shapes
  ChatKept
  WallKept
  FeedGapless
  FeedFollowed
\* A behaviour may stop: the bounds end it.
CHECK_DEADLOCK FALSE
