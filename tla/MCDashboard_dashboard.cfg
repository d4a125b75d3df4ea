SPECIFICATION MCSpec

CONSTANTS
  None = None
  food = food
  Category = {food}
  Subcategory = {groceries}
  ParentOf <- MCParentOf
  Name = {food, groceries}
  Managed = {food}
  ManagedName <- MCManagedName
  Id = {t1, t2}
  Day <- MCDay
  Amount <- MCAmount
  Currency = {EUR, USD}
  Euro = EUR
  FirstYear = 2022
  LastYear = 2024
  DateRange <- MCDateRange

SYMMETRY Ids

INVARIANTS
  TypeOK
  FiguresAddUp
  RollingWindowsAreComplete
  ReportsAgree
