SPECIFICATION Spec
CONSTANTS
  r1 = r1
  d1 = d1
  d2 = d2
  Resources <- OneResource
  Kinds <- EditOnly
  Drainers <- OneDrainer
  ClaimLimit = 2
  Stamps <- FewStamps
  MaxRevision = 4
  MaxChange = 2
  MaxFault = 1
\* The system may stop: MaxChange, MaxFault and MaxRevision end every behaviour.
CHECK_DEADLOCK FALSE
INVARIANT TypeOK
INVARIANT HiddenIsWithdrawn
INVARIANT LedgerSound
PROPERTY MirrorsTheSite
