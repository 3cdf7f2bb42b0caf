SPECIFICATION BannerFairSpec
CONSTANTS
  Queries = {q1}
  Mutations = {m1}
  MaxGetRetries = 2
  QueryRetries = 1
  Threshold = 3
  Cooldown = 2
INVARIANTS RepeatsAreSafe PauseIsBrief NeverFalselyOffline OfflineShown
PROPERTIES EveryCallSettles
