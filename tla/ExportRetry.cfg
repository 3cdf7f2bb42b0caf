\* After one failed statement, asking for the export again and again.
CONSTANTS
  Orders = {o1}
  Callers = {c1}
  MaxVersions = 1
  MaxFaults = 1
  MaxCrashes = 0
  None = None
SPECIFICATION PollingSpec
PROPERTY ApprovedGetsFile
CHECK_DEADLOCK FALSE
