\* Runs are bounded, so the system may stop.
SPECIFICATION FairSpec
CONSTANTS
  Settings <- MCSettings
  MaxRows <- MCRows
INVARIANT
  EvidenceIsOfOneRun
PROPERTIES
  SuccessVouches
  EvidenceArrives
CHECK_DEADLOCK FALSE
