SPECIFICATION MixSpec
CONSTANTS
  Ids = {d1, d2}
  Fields = {f1, f2}
  MaxDialogs = 3
  None = None
  Skus = {a}
  MaxQty = 1
  MaxDraft = 1
  MaxCart = 2
  MaxWanted = 2
  MaxSubmissions = 3
  Loss = TRUE
  MaxOrders = 2
  Tabs = {"pending", "approved"}
  PageSize = 1
  Attempts = 1
  MaxJobs = 2
INVARIANTS PagesInv NoForeignValues Conservation ExcessFollowsLoss RemarksFollowCancel OwnDecisionsShow
CHECK_DEADLOCK FALSE
