SPECIFICATION Spec
CONSTANTS
  Tabs = {t1, t2}
  Users = {u1, u2}
  Uses = {"get", "post", "logout", "logoutAll"}
  Loss = TRUE
  MaxSessions = 2
  MaxTokens = 2
  None = None
SYMMETRY Identities
INVARIANTS TypeOK OrdersInShownName JarIsCurrent LogoutEndsSession
CHECK_DEADLOCK FALSE
