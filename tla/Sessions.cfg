SPECIFICATION MixSpec
CONSTANTS
  Users = {u1}
  Ids = {s1, s2}
  Requests = {r1, r2}
  Ops = {"login", "refresh", "logout", "logoutAll", "update"}
  AllowMany = FALSE
  MaxFailures = 2
  Faults = TRUE
  MaxPasswords = 2
  MaxTokens = 2
  MaxGuesses = 3
  None = None
SYMMETRY Identities
INVARIANTS SingleSession StaleSessionsOverlap GuessesAreBounded LoggedOutStaysOut
PROPERTIES ImplementsRegistry
CHECK_DEADLOCK FALSE
