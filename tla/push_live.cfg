SPECIFICATION FairSpec
CONSTANTS
  r1 = r1
  d1 = d1
  d2 = d2
  Resources <- OneResource
  Kinds <- PublishOnly
  Drainers <- OneDrainer
  ClaimLimit = 2
  Stamps <- FewStamps
  MaxRevision = 30
  MaxChange = 1
  MaxFault = 1
\* The system may stop: MaxChange, MaxFault and MaxRevision end every behaviour.
CHECK_DEADLOCK FALSE
PROPERTY EventuallyMirrored
