SPECIFICATION Spec
CONSTANTS
  r1 = r1
  d1 = d1
  d2 = d2
  Resources <- OneResource
  Kinds <- PublishOnly
  Drainers <- TwoDrainers
  ClaimLimit = 2
  Stamps <- FewStamps
  MaxRevision = 4
  MaxChange = 1
  MaxFault = 1
\* The system may stop: MaxChange, MaxFault and MaxRevision end every behaviour.
CHECK_DEADLOCK FALSE
SYMMETRY Symmetry
INVARIANT NoLostChange
INVARIANT FreshnessInv
INVARIANT NoBackfillNotice
PROPERTY NoOrphanTombstone
