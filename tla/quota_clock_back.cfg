SPECIFICATION SetBackSpec
CONSTANTS
  Processes = {p1}
  MaxTime = 9
  MonthLen = 5
  MonthlyCap = 2
  MinuteCap = 1
  Interval = 2
  Latency = 1
  Base = 1
  Longest = 3
  MaxFaults = 2
INVARIANT MonthlyBudget
CHECK_DEADLOCK FALSE
