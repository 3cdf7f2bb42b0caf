SPECIFICATION Spec
CONSTANTS
  Tabs = {t1}
  Users = {u1}
  Uses = {"get", "post", "logout", "logoutAll"}
  Loss = FALSE
  MaxSessions = 1
  MaxTokens = 2
  None = None
PROPERTIES SessionsContinue
CHECK_DEADLOCK FALSE
