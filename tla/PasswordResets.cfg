SPECIFICATION Spec
CONSTANTS
  Asks = {a1, a2, a3}
  Resets = {r1, r2}
  Logins = {l1}
  None = None
SYMMETRY Identities
INVARIANTS CodesDie OldSessionsOverlap
CHECK_DEADLOCK FALSE
