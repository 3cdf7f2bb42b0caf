\* Two requests of two dealers with one key or two, across midnight and an edit of
\* the catalogue; every handler ends under the fairness of event loop and lock.
CONSTANTS
  Dealers = {d1, d2}
  Keys = {k1, k2}
  Skus = {s1}
  Requests = {r1, r2}
  MaxDay = 2
  MaxRate = 2
  MaxCatalogs = 2
  None = None
SPECIFICATION MixSpec
INVARIANTS IntakeInv AnswersAgree SoldFromOneCatalog AuditTrail
PROPERTIES ImplementsLedger EveryRequestEnds
CHECK_DEADLOCK FALSE
