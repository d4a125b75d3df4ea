SPECIFICATION Spec

CONSTANTS
  None = None
  file1 = file1
  file2 = file2
  hand = hand
  hand2 = hand2
  cells1 = cells1
  cells2 = cells2
  k1 = k1
  k2 = k2
  n1 = n1
  Batch = {file1, file2, hand, hand2}
  Manual = {hand, hand2}
  Row = {1, 2, 3, 4, 5}
  BatchOf <- MCBatchOf
  Raw <- MCRaw
  Readings <- MCReadings
  Look = {k1, k2}
  Alike <- MCAlike
  Native = {n1}
  Choice = {"INCLUDE", "IGNORE", "COMMITTED"}

CONSTRAINT OneKindEdited

INVARIANTS
  TypeOK
  DraftsClaimOnce
  StatusFollowsRows
  CommittedIsWhole
  IgnoredStaysExcluded
  TwinExists

CHECK_DEADLOCK FALSE
