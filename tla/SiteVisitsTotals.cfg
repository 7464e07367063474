SPECIFICATION Spec
CONSTANTS
  None = None
  Visits = {v1, v2}
  Visitors = {ann}
  DayLength = 2
  Gap = 0
  RetentionDays = 1
  MaxNow = 4
INVARIANT TotalsOutliveRawRows
