SPECIFICATION Spec

CONSTANTS
  None = None
  food = food
  Category = {food}
  Subcategory = {groceries}
  ParentOf <- MCParentOf
  Name = {food, dining}
  Managed = {food}
  ManagedName <- MCManagedName
  Id = {}
  Day <- MCDay
  Amount <- MCAmount
  Currency = {EUR}
  Euro = EUR
  FirstYear = 2022
  LastYear = 2024
  DateRange <- MCDateRange

INVARIANT StagingCanSeed
