SPECIFICATION Spec

CONSTANTS
  None = None
  p1 = p1
  p2 = p2
  s1 = s1
  s2 = s2
  Batch = {b1}
  File = {f1}
  Readable = {f1}
  Structure = {s1}
  Plan = {p1}
  Fits <- MCFits
  Template <- MCTemplate
  Caller = {}
  MaxConcurrent = 1
  PerHour = 2
  MaxRevision = 6

PROPERTIES
  FileErrorsEndStaging
