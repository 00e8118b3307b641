\* The default lambda and a window of three; every total up to six divides the unit.
CONSTANTS
  RateUnit = 60
  LambdaNum = 1
  LambdaDen = 10
  burst_capacity = 3
  MaxReports = 2
  MaxSent = 6
SPECIFICATION Spec
INVARIANT BurstSeen
CHECK_DEADLOCK FALSE
