SPECIFICATION Spec
CONSTANTS
  Admins = {a1}
  Workers = {w1}
  Forms = {f1}
  NoForm = NoForm
  NumChunks = 1
  MaxVersion = 2
  MaxRuns = 2
  MaxFaults = 0
  QdrantOutcomes = {TRUE}
  OpenSearchOutcomes = {TRUE}
  Requests = {"save", "restore", "archive"}
INVARIANTS
  ActiveIsIndexed
CHECK_DEADLOCK FALSE
