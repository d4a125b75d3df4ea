SPECIFICATION Spec

CONSTANTS
  None = None
  file1 = file1
  file2 = file2
  hand = hand
  hand2 = hand2
  cells1 = cells1
  cells2 = cells2
  k1 = k1
  k2 = k2
  n1 = n1
  Batch = {file1, file2}
  Manual = {}
  Row = {1, 2, 3}
  BatchOf <- MCBatchOf
  Raw <- MCRaw
  Readings <- MCReadings
  Look = {k1}
  Alike <- MCAlike
  Native = {n1}
  Choice = {"INCLUDE", "IGNORE"}

INVARIANTS
  ReadyIsCommittable

CHECK_DEADLOCK FALSE
