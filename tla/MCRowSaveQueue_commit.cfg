SPECIFICATION Spec

CONSTANTS
  food = food
  cafe = cafe
  include = include
  ignore = ignore
  Row = {r1, r2}
  Value = {food, cafe, include, ignore}
  Edit <- MCEdit
  None = None
  Unset = Unset
  MaxEdits = 3
  MaxForeign = 0


PROPERTIES
  CommitTakesEveryEdit

CHECK_DEADLOCK FALSE
