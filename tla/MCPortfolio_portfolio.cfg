SPECIFICATION Spec

CONSTANTS
  None = None
  Unset = Unset
  lot1 = lot1
  lot2 = lot2
  n1 = n1
  n2 = n2
  s1 = s1
  s2 = s2
  AssetId = {lot1, lot2}
  Kind = {"CASH", "SECURITY", "OTHER"}
  Name = {n1, n2}
  Quantity = {1, 2}
  Cost = {1, 2}
  Symbol = {s1, s2}
  Value = {2}
  Price = {1}
  Day = {1, 2, 3}
  Instant = {1, 2, 3}
  DateOf <- MCDateOf
  MonthEnd = {1, 2}
  Purchases <- MCPurchases
  Patches <- MCPatches
  MaxAge = 1
  MaxRows = 4
  MaxRequest = 2

SYMMETRY Lots

INVARIANTS
  TypeOK
  ReportsShowThePositionOfTheDay
  AuditTrailIsComplete
  PreviewsMatchTheirRevision
  RetryReturnsThePurchase
  HistoryAgreesWithReports

PROPERTIES
  RefreshReachesTheReport
  PastReportsStay

CHECK_DEADLOCK FALSE
