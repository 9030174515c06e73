SPECIFICATION SpecOfOne
CONSTANTS
  NoOne = NoOne
  Requests = {p1, p2, p3}
  MaxEpoch = 3
  MaxFault = 1
  Resources = {r1, r2}
  Calls = {c1, c2}
  MaxSign = 3
  MaxReq = 3
SYMMETRY Symmetry
INVARIANTS
  Shapes
  NoSpuriousLogout
  RefreshSettles
  AccountKept
PROPERTY NoResurrection
\* An account's behaviour may stop: the bounds end it.  That a session's does
\* not is checked by session_live.
CHECK_DEADLOCK FALSE
