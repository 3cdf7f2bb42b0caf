\* Two requests approve, reject, poll and download one order; two failures and a
\* crash; an approval is posted again only after one of these.
CONSTANTS
  Orders = {o1}
  Callers = {c1, c2}
  MaxVersions = 2
  MaxFaults = 2
  MaxCrashes = 1
  None = None
SPECIFICATION ReapprovingSpec
INVARIANTS PipelineInv ApprovalLoggedOnce DownloadsAgree
PROPERTIES ImplementsLifecycle ApprovedGetsFile
CHECK_DEADLOCK FALSE
