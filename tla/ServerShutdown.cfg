SPECIFICATION FairServerSpec
CONSTANTS
  Connections = {c1, c2, c3}
  MaxTasks = 2
INVARIANT NoAnswerCutOff
PROPERTIES SignalEndsProcess
CHECK_DEADLOCK FALSE
